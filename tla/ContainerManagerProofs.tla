----------------------- MODULE ContainerManagerProofs -----------------------
(***************************************************************************)
(* Theorems about ContainerManager, for any sets of threads, projects,     *)
(* services, configurations, ids and ports, and any number of mishaps.     *)
(*                                                                         *)
(* The manager uses the ingress manager as Ingress allows, so the theorems *)
(* of IngressProofs carry over to it.                                      *)
(***************************************************************************)
EXTENDS ContainerManager, TLAPS

IngP == INSTANCE IngressProofs WITH Endpoints <- Ports, NoEndpoint <- NoPort

(***************************************************************************)
(* The constants                                                           *)
(***************************************************************************)

\* Configurations have services, and are no deletions.
LEMMA Configurations ==
    ASSUME NEW config \in Applies
    PROVE  /\ config.project \in Projects
           /\ config.services \in Seq(Service)
           /\ Len(config.services) \in Nat \ {0}
           /\ ToSet(config.services) \subseteq Service
           /\ config.services # NotSaved
           /\ config.services # <<>>
           /\ config \notin Deletes
           /\ config # None
<1>1. Valid(config) /\ config.services # NotSaved /\ config # None
  BY ConstantsAssumption
<1>2. /\ config.project \in Projects
      /\ config.services \in Seq(Service)
      /\ config.services # <<>>
  BY <1>1 DEF Valid
<1>3. Len(config.services) \in Nat \ {0}
  BY <1>2
<1>4. ToSet(config.services) \subseteq Service
  BY <1>2 DEF ToSet
<1>5. config \notin Deletes
  BY <1>2 DEF Deletes
<1> QED BY <1>1, <1>2, <1>3, <1>4, <1>5

\* What Ingress assumes of its constants holds for those it is given.
LEMMA IngConstants == IngP!IngressesAssumption
<1>1. ASSUME NEW config \in Applies, NEW service \in ToSet(config.services),
             NEW port \in Ports \cup {NoPort}
      PROVE  IngressFor(config.project, service, port) \in IngP!Ingress
  <2>1. config.project \in Projects /\ service \in Service
    BY Configurations
  <2> QED BY <2>1 DEF IngressFor, IngP!Ingress, Service
<1>2. Ingresses \subseteq IngP!Ingress
  BY <1>1 DEF Ingresses
<1>3. Ports \subseteq Nat \ {NoPort}
  BY ConstantsAssumption
<1> QED BY <1>2, <1>3, ConstantsAssumption DEF IngP!IngressesAssumption

\* The ingress of a service of a configuration is one of them.
LEMMA IngressOfConfig ==
    ASSUME NEW config \in Applies, NEW service \in ToSet(config.services),
           NEW port \in Ports \cup {NoPort}
    PROVE  IngressFor(config.project, service, port) \in Ingresses
BY DEF Ingresses

\* A deletion wants nothing.
LEMMA Deletions ==
    ASSUME NEW r \in Deletes
    PROVE  /\ r.project \in Projects
           /\ r.services = <<>>
           /\ ToSet(r.services) = {}
           /\ r # None
BY ConstantsAssumption DEF Deletes, ToSet

(***************************************************************************)
(* Type correctness.  TypeOK is not inductive: the domains, projects and   *)
(* names that reach the database and Docker come out of the request, so    *)
(* that the request is one that fits the label belongs to the invariant.   *)
(***************************************************************************)
ApplyLabels == {"inspectNetwork", "createNetwork", "find", "replace", "create", "start",
                "register", "registering", "save"}
CleanLabels == {"unroute", "unrouting", "list", "purge"}
DeleteLabels == {"deleteNetwork", "forget"}

RequestFits(t) ==
    /\ pc[t] \in ApplyLabels => request[t] \in Applies
    /\ pc[t] \in CleanLabels => request[t] # None
    /\ pc[t] \in DeleteLabels => request[t] \in Deletes
    /\ pc[t] = "idle" => request[t] = None /\ index[t] = 1
    /\ request[t] \in Applies => index[t] \in 1 .. Len(request[t].services)

\* The part of TypeOK that is the manager's own
LocalsOK ==
    /\ DOMAIN saved = Projects
    /\ \A p \in Projects : saved[p] = NotSaved \/ ToSet(saved[p]) \subseteq Service
    /\ pc \in [Threads -> Labels]
    /\ request \in [Threads -> Applies \cup Deletes \cup {None}]
    /\ index \in [Threads -> Nat]
    /\ netLive \in [Threads -> BOOLEAN]
    /\ target \in [Threads -> Ids \cup {None}]
    /\ endpoint \in [Threads -> Ports \cup {NoPort}]
    /\ pending \in [Threads -> SUBSET Ids]
    /\ mishaps \in 0 .. MaxMishaps

CInv ==
    /\ IngP!TInv
    /\ Dock!TypeOK
    /\ LocalsOK
    /\ \A t \in Threads : RequestFits(t)

\* The invariant contains TypeOK.
LEMMA CInvTypeOK == CInv => TypeOK
BY DEF CInv, TypeOK, LocalsOK, IngP!TInv, IngP!TypeOK, Ing!TypeOK, IngP!Returned,
       Ing!Returned, IngP!Running, Ing!Running

\* The variables start within their types.
LEMMA InitCInv == Init => CInv
<1> SUFFICES ASSUME Init PROVE CInv
  OBVIOUS
<1>1. IngP!TInv
  <2>1. IngP!Init
    BY DEF Init, Ing!Init, IngP!Init
  <2> QED BY <2>1, IngConstants, IngP!InitTInv DEF IngP!IngressesAssumption
<1>2. Dock!TypeOK
  BY DEF Init, Dock!Init, Dock!TypeOK
<1>3. LocalsOK
  BY ConstantsAssumption DEF Init, LocalsOK, Labels
<1>4. \A t \in Threads : RequestFits(t)
  BY ConstantsAssumption DEF Init, RequestFits, ApplyLabels, CleanLabels, DeleteLabels
<1> QED BY <1>1, <1>2, <1>3, <1>4 DEF CInv

\* What a request names is of the right kind.
LEMMA RequestTypes ==
    ASSUME CInv, NEW t \in Threads, request[t] # None
    PROVE  /\ request[t] \in Applies \cup Deletes
           /\ ProjectOf(t) \in Projects
           /\ WantedDomains(t) \subseteq Domains
           /\ request[t] \in Applies => /\ IsApply(t)
                                       /\ Current(t) \in Service
                                       /\ Current(t) \in ToSet(request[t].services)
           /\ request[t] \in Deletes => ~IsApply(t)
<1>1. request[t] \in Applies \cup Deletes
  BY DEF CInv, LocalsOK
<1>2. CASE request[t] \in Applies
  <2>1. /\ ProjectOf(t) \in Projects
        /\ request[t].services \in Seq(Service)
        /\ ToSet(request[t].services) \subseteq Service
        /\ request[t].services # <<>>
        /\ request[t] \notin Deletes
    BY <1>2, Configurations DEF ProjectOf
  <2>2. index[t] \in 1 .. Len(request[t].services)
    BY <1>2 DEF CInv, RequestFits
  <2>3. Current(t) \in Service /\ Current(t) \in ToSet(request[t].services)
    BY <2>1, <2>2 DEF Current, ToSet
  <2>4. WantedDomains(t) \subseteq Domains
    BY <2>1 DEF WantedDomains, Service
  <2> QED BY <1>2, <2>1, <2>3, <2>4 DEF IsApply
<1>3. CASE request[t] \in Deletes
  BY <1>3, Deletions, Configurations DEF ProjectOf, WantedDomains, IsApply
<1> QED BY <1>1, <1>2, <1>3

(***************************************************************************)
(* Every step of the manager is a step of the ingress manager, or none.    *)
(***************************************************************************)
LEMMA IngSteps ==
    ASSUME [Next]_vars
    PROVE  \/ \E t \in Threads : \/ RemoveUnusedRoutes(t) \/ RegisterRoute(t)
                                 \/ IngP!Step(t) \/ IngP!Return(t)
           \/ IngP!Crash
           \/ UNCHANGED ivars
<1> USE DEF Ing!Goto, IngP!Goto
<1>1. ASSUME NEW t \in Threads, Ing!Return(t) PROVE IngP!Return(t)
  BY <1>1 DEF Ing!Return, IngP!Return, Ing!Returned, IngP!Returned
<1>2. ASSUME NEW t \in Threads, IngressStep(t) PROVE IngP!Step(t)
  <2>1. CASE Ing!MatchDomain(t)
    BY <2>1 DEF Ing!MatchDomain, IngP!MatchDomain, Ing!SameOwner, IngP!SameOwner, IngP!Step
  <2>2. CASE Ing!SaveIngressRoute(t)
    BY <2>2 DEF Ing!SaveIngressRoute, IngP!SaveIngressRoute, IngP!Step
  <2>3. CASE Ing!Certify(t)
    BY <2>3 DEF Ing!Certify, IngP!Certify, IngP!Step
  <2>4. CASE Ing!RemoveIngressRoute(t)
    BY <2>4 DEF Ing!RemoveIngressRoute, IngP!RemoveIngressRoute, IngP!Step
  <2>5. CASE Ing!RoutesRemoved(t)
    BY <2>5 DEF Ing!RoutesRemoved, IngP!RoutesRemoved, IngP!Step
  <2> QED BY <1>2, <2>1, <2>2, <2>3, <2>4, <2>5 DEF IngressStep
<1>3. ASSUME NEW t \in Threads, RouteWriteFails(t) PROVE IngP!Step(t)
  BY <1>3 DEF RouteWriteFails, Ing!DatabaseError, IngP!DatabaseError, IngP!Step
<1>4. ASSUME Crash PROVE IngP!Crash
  BY <1>4 DEF Crash, Ing!Crash, IngP!Crash
<1>5. CASE UNCHANGED vars
  BY <1>5 DEF vars
<1>6. ASSUME NEW t \in Threads, Client(t) \/ Reply(t) PROVE UNCHANGED ivars
  BY <1>6 DEF Client, Apply, Delete, Reply
<1>7. ASSUME NEW t \in Threads, ApplyStep(t)
      PROVE  RegisterRoute(t) \/ IngP!Return(t) \/ UNCHANGED ivars
  BY <1>7, <1>1
     DEF ApplyStep, InspectNetwork, CreateNetwork, FindContainer, RemoveContainer,
         CreateContainer, CreateRefused, StartContainer, RouteRegistered, SaveProject
<1>8. ASSUME NEW t \in Threads, CleanStep(t)
      PROVE  RemoveUnusedRoutes(t) \/ IngP!Return(t) \/ UNCHANGED ivars
  BY <1>8, <1>1
     DEF CleanStep, UnusedRoutesRemoved, ListContainers, RemoveUnusedContainer,
         UnusedContainersRemoved, DeleteNetwork, RemoveProject
<1>9. ASSUME Fault
      PROVE  (\E t \in Threads : IngP!Step(t)) \/ IngP!Crash \/ UNCHANGED ivars
  BY <1>9, <1>3, <1>4 DEF Fault, ErrorIgnored, CallFails, ContainerExits
<1> QED BY <1>2, <1>5, <1>6, <1>7, <1>8, <1>9 DEF Next, Step

\* The arguments the manager calls the ingress manager with are of the types
\* Ingress declares.
LEMMA IngCalls ==
    ASSUME CInv, NEW t \in Threads
    PROVE  /\ RemoveUnusedRoutes(t) =>
                 /\ pc[t] = "unroute" /\ request[t] # None
                 /\ ProjectOf(t) \in Projects /\ WantedDomains(t) \in SUBSET Domains
                 /\ IngP!RemoveUnusedRoutes(t, ProjectOf(t), WantedDomains(t))
           /\ RegisterRoute(t) =>
                 /\ pc[t] = "register" /\ request[t] # None
                 /\ IngressOf(t) \in Ingresses /\ IngressOf(t).project = ProjectOf(t)
                 /\ IngP!RegisterRoute(t, IngressOf(t))
<1> USE DEF Ing!Goto, IngP!Goto
<1>1. ASSUME RemoveUnusedRoutes(t)
      PROVE  /\ pc[t] = "unroute" /\ request[t] # None
             /\ ProjectOf(t) \in Projects /\ WantedDomains(t) \in SUBSET Domains
             /\ IngP!RemoveUnusedRoutes(t, ProjectOf(t), WantedDomains(t))
  <2>1. /\ Ing!RemoveUnusedRoutes(t, ProjectOf(t), WantedDomains(t))
        /\ pc[t] = "unroute" /\ request[t] # None
    BY <1>1 DEF RemoveUnusedRoutes, At, CInv, RequestFits, CleanLabels
  <2>2. ProjectOf(t) \in Projects /\ WantedDomains(t) \in SUBSET Domains
    BY <2>1, RequestTypes
  <2>3. IngP!RemoveUnusedRoutes(t, ProjectOf(t), WantedDomains(t))
    BY <2>1 DEF Ing!RemoveUnusedRoutes, IngP!RemoveUnusedRoutes, Ing!RoutesOfProject,
                IngP!RoutesOfProject
  <2> QED BY <2>1, <2>2, <2>3
<1>2. ASSUME RegisterRoute(t)
      PROVE  /\ pc[t] = "register" /\ request[t] # None
             /\ IngressOf(t) \in Ingresses /\ IngressOf(t).project = ProjectOf(t)
             /\ IngP!RegisterRoute(t, IngressOf(t))
  <2>1. Ing!RegisterRoute(t, IngressOf(t)) /\ pc[t] = "register" /\ request[t] \in Applies
    BY <1>2 DEF RegisterRoute, At, CInv, RequestFits, ApplyLabels
  <2>2. request[t] # None
    BY <2>1, Configurations
  <2>3. ProjectOf(t) \in Projects /\ Current(t) \in ToSet(request[t].services)
    BY <2>1, <2>2, RequestTypes
  <2>4. endpoint[t] \in Ports \cup {NoPort}
    BY DEF CInv, LocalsOK
  <2>5. IngressOf(t) \in Ingresses
    BY <2>1, <2>3, <2>4, IngressOfConfig DEF IngressOf, ProjectOf
  <2>6. IngP!RegisterRoute(t, IngressOf(t))
    BY <2>1 DEF Ing!RegisterRoute, IngP!RegisterRoute
  <2>7. IngressOf(t).project = ProjectOf(t)
    BY DEF IngressOf, IngressFor
  <2> QED BY <2>1, <2>2, <2>5, <2>6, <2>7
<1> QED BY <1>1, <1>2

\* What the manager does is allowed by the specification of the ingress manager.
LEMMA NextIng == CInv /\ [Next]_vars => [IngP!Next]_(IngP!ivars)
<1> SUFFICES ASSUME CInv, [Next]_vars PROVE IngP!Next \/ UNCHANGED IngP!ivars
  OBVIOUS
<1> QED BY IngSteps, IngCalls DEF IngP!Next, IngP!Call, ivars, IngP!ivars

(***************************************************************************)
(* Docker: only these steps change what the daemon has.                    *)
(***************************************************************************)
LEMMA DockerSteps ==
    ASSUME [Next]_vars, ~UNCHANGED dvars
    PROVE  \/ \E t \in Threads : \/ CreateNetwork(t) /\ Dock!NetworkCreate(ProjectOf(t))
                                 \/ RemoveUnusedContainer(t)
                                 \/ RemoveContainer(t) /\ Dock!ContainerRemove(target[t])
                                 \/ CreateContainer(t)
                                 \/ StartContainer(t) /\ Dock!ContainerStart(target[t])
                                 \/ DeleteNetwork(t) /\ Dock!NetworkRemove(ProjectOf(t))
           \/ \E id \in Ids : ContainerExits(id)
<1>1. ASSUME NEW t \in Threads, Client(t) PROVE FALSE
  BY <1>1 DEF Client, Apply, Delete
<1>2. ASSUME NEW t \in Threads, Reply(t) \/ IngressStep(t) PROVE FALSE
  BY <1>2 DEF Reply, IngressStep
<1>3. ASSUME NEW t \in Threads, ApplyStep(t)
      PROVE  \/ CreateNetwork(t) /\ Dock!NetworkCreate(ProjectOf(t))
             \/ RemoveContainer(t) /\ Dock!ContainerRemove(target[t])
             \/ CreateContainer(t)
             \/ StartContainer(t) /\ Dock!ContainerStart(target[t])
  <2>1. CASE CreateNetwork(t)
    BY <2>1 DEF CreateNetwork
  <2>2. CASE RemoveContainer(t)
    BY <2>2 DEF RemoveContainer
  <2>3. CASE StartContainer(t)
    BY <2>3 DEF StartContainer
  <2> QED BY <1>3, <2>1, <2>2, <2>3
          DEF ApplyStep, InspectNetwork, FindContainer, CreateRefused, RegisterRoute,
              RouteRegistered, SaveProject
<1>4. ASSUME NEW t \in Threads, CleanStep(t)
      PROVE  \/ RemoveUnusedContainer(t)
             \/ DeleteNetwork(t) /\ Dock!NetworkRemove(ProjectOf(t))
  <2>1. CASE DeleteNetwork(t)
    BY <2>1 DEF DeleteNetwork
  <2> QED BY <1>4, <2>1 DEF CleanStep, RemoveUnusedRoutes, UnusedRoutesRemoved,
             ListContainers, UnusedContainersRemoved, RemoveProject
<1>5. CASE Fault
  BY <1>5 DEF Fault, ErrorIgnored, CallFails, RouteWriteFails, Crash
<1>6. CASE UNCHANGED vars
  BY <1>6 DEF vars
<1> QED BY <1>1, <1>2, <1>3, <1>4, <1>5, <1>6 DEF Next, Step

\* Containers and networks keep to their types.
LEMMA NextDock == CInv /\ [Next]_vars => Dock!TypeOK'
<1> SUFFICES ASSUME CInv, [Next]_vars PROVE Dock!TypeOK'
  OBVIOUS
<1>0. /\ containers \in [Ids -> Dock!Container \cup {Gone}]
      /\ networks \in SUBSET Projects
      /\ Gone \notin Dock!Container
  BY ConstantsAssumption DEF CInv, Dock!TypeOK
<1> USE DEF Dock!TypeOK
<1>1. CASE UNCHANGED dvars
  BY <1>0, <1>1 DEF dvars
<1>2. ASSUME NEW t \in Threads, CreateNetwork(t), Dock!NetworkCreate(ProjectOf(t))
      PROVE  Dock!TypeOK'
  <2>1. request[t] \in Applies
    BY <1>2 DEF CreateNetwork, At, CInv, RequestFits, ApplyLabels
  <2>2. ProjectOf(t) \in Projects
    BY <2>1, Configurations DEF ProjectOf
  <2> QED BY <1>0, <1>2, <2>2 DEF Dock!NetworkCreate
<1>3. ASSUME NEW id, Dock!ContainerRemove(id) PROVE Dock!TypeOK'
  BY <1>0, <1>3 DEF Dock!ContainerRemove
<1>4. ASSUME NEW t \in Threads, CreateContainer(t) PROVE Dock!TypeOK'
  <2>1. request[t] \in Applies
    BY <1>4 DEF CreateContainer, At, CInv, RequestFits, ApplyLabels
  <2>2. ProjectOf(t) \in Projects /\ Current(t) \in Service
    BY <2>1, Configurations, RequestTypes
  <2>3. netLive[t] \in BOOLEAN
    BY DEF CInv, LocalsOK
  <2>4. ASSUME NEW port \in Ports \cup {NoPort} PROVE NewContainer(t, port) \in Dock!Container
    BY <2>2, <2>3 DEF NewContainer, Dock!Container, Names, Service
  <2>5. PICK id \in Ids, port \in Ports \cup {NoPort} :
           Dock!ContainerCreate(id, NewContainer(t, port))
    BY <1>4 DEF CreateContainer
  <2> QED BY <1>0, <2>4, <2>5 DEF Dock!ContainerCreate
<1>5. ASSUME NEW id, Dock!ContainerStart(id) PROVE Dock!TypeOK'
  <2>1. /\ id \in Ids
        /\ containers[id] \in Dock!Container
        /\ containers' = [containers EXCEPT ![id].running = TRUE]
        /\ networks' = networks
    BY <1>0, <1>5 DEF Dock!ContainerStart, Dock!CanStart, Dock!Existing
  <2>2. [containers[id] EXCEPT !.running = TRUE] \in Dock!Container
    BY <2>1 DEF Dock!Container
  <2> QED BY <1>0, <2>1, <2>2
<1>6. ASSUME NEW p, Dock!NetworkRemove(p) PROVE Dock!TypeOK'
  <2>1. ASSUME NEW id \in Ids, id \in Dock!Existing
        PROVE  [containers[id] EXCEPT !.attached = FALSE] \in Dock!Container
    BY <1>0, <2>1 DEF Dock!Existing, Dock!Container
  <2> QED BY <1>0, <1>6, <2>1 DEF Dock!NetworkRemove
<1>7. ASSUME NEW id \in Ids, ContainerExits(id) PROVE Dock!TypeOK'
  <2>1. /\ containers[id] \in Dock!Container
        /\ containers' = [containers EXCEPT ![id].running = FALSE]
        /\ networks' = networks
    BY <1>0, <1>7 DEF ContainerExits, Dock!ContainerExit, Dock!RunningContainers, Dock!Existing
  <2>2. [containers[id] EXCEPT !.running = FALSE] \in Dock!Container
    BY <2>1 DEF Dock!Container
  <2> QED BY <1>0, <2>1, <2>2
<1>8. ASSUME NEW t \in Threads, RemoveUnusedContainer(t) PROVE Dock!TypeOK'
  BY <1>0, <1>3, <1>8 DEF RemoveUnusedContainer, dvars
<1> QED BY <1>1, <1>2, <1>3, <1>4, <1>5, <1>6, <1>7, <1>8, DockerSteps

(***************************************************************************)
(* The manager's own variables                                             *)
(***************************************************************************)

\* Every step leaves requests that fit their labels.
LEMMA NextLocals == CInv /\ [Next]_vars => LocalsOK' /\ \A t \in Threads : RequestFits(t)'
<1> DEFINE Rest == LocalsOK /\ \A u \in Threads : RequestFits(u)
<1> SUFFICES ASSUME CInv, [Next]_vars PROVE Rest'
  OBVIOUS
<1>0. Rest /\ MaxMishaps \in Nat
  BY ConstantsAssumption DEF CInv
<1>a. \A t \in Threads : request[t] # None => request[t] \in Applies \/ request[t] \in Deletes
  BY <1>0 DEF LocalsOK
<1>b. \A config \in Applies : config # None /\ config \notin Deletes
  BY Configurations
<1> USE <1>0, <1>a, <1>b
        DEF LocalsOK, RequestFits, Labels, Goals, ApplyLabels, CleanLabels, DeleteLabels,
            At, Goto, locals
<1>1. ASSUME NEW t \in Threads, NEW config \in Applies, Apply(t, config) PROVE Rest'
  <2>1. 1 \in 1 .. Len(config.services)
    BY Configurations
  <2> QED BY <1>1, <2>1 DEF Apply
<1>2. ASSUME NEW t \in Threads, NEW p \in Projects, Delete(t, p) PROVE Rest'
  <2>1. [project |-> p, services |-> <<>>] \in Deletes
    BY DEF Deletes
  <2>2. [project |-> p, services |-> <<>>] # None
    BY <2>1, Deletions
  <2> HIDE <1>a
  <2> QED BY <1>2, <2>1, <2>2 DEF Delete
<1>3. ASSUME NEW t \in Threads, InspectNetwork(t) \/ CreateNetwork(t) PROVE Rest'
  <2>1. CASE InspectNetwork(t)
    <3>1. netLive' \in [Threads -> BOOLEAN]
      BY <2>1 DEF InspectNetwork
    <3>2. /\ pc[t] = "inspectNetwork"
          /\ pc' = [pc EXCEPT ![t] = IF ProjectOf(t) \in networks
                                     THEN "unroute" ELSE "createNetwork"]
          /\ UNCHANGED <<saved, request, index, target, endpoint, pending, mishaps>>
      BY <2>1 DEF InspectNetwork
    <3> QED BY <3>1, <3>2
  <2>2. CASE CreateNetwork(t)
    BY <2>2 DEF CreateNetwork
  <2> QED BY <1>3, <2>1, <2>2
<1>4. ASSUME NEW t \in Threads, RemoveUnusedRoutes(t) \/ UnusedRoutesRemoved(t) PROVE Rest'
  <2>1. CASE RemoveUnusedRoutes(t)
    BY <2>1 DEF RemoveUnusedRoutes
  <2>2. CASE UnusedRoutesRemoved(t)
    <3>1. /\ pc[t] = "unrouting"
          /\ pc' = [pc EXCEPT ![t] = IF ipc[t] = "removed" THEN "list" ELSE "failed"]
          /\ UNCHANGED <<saved, request, locals, mishaps>>
      BY <2>2 DEF UnusedRoutesRemoved
    <3> QED BY <3>1
  <2> QED BY <1>4, <2>1, <2>2
<1>5. ASSUME NEW t \in Threads, ListContainers(t) PROVE Rest'
  <2>1. Unused(t) \in SUBSET Ids
    BY DEF Unused, Dock!ContainerList, Dock!RunningContainers, Dock!Existing
  <2> QED BY <1>5, <2>1 DEF ListContainers
<1>6. ASSUME NEW t \in Threads, RemoveUnusedContainer(t) PROVE Rest'
  <2>1. pending' \in [Threads -> SUBSET Ids]
    BY <1>6 DEF RemoveUnusedContainer
  <2>2. pc' = pc \/ pc' = [pc EXCEPT ![t] = "failed"]
    BY <1>6 DEF RemoveUnusedContainer
  <2>3. UNCHANGED <<saved, request, index, netLive, target, endpoint, mishaps>>
    BY <1>6 DEF RemoveUnusedContainer
  <2> QED BY <2>1, <2>2, <2>3
<1>7. ASSUME NEW t \in Threads, UnusedContainersRemoved(t) PROVE Rest'
  <2>1. request[t] # None
    BY <1>7 DEF UnusedContainersRemoved
  <2>2. /\ request[t] \in Applies \cup Deletes
        /\ request[t] \in Applies => IsApply(t)
        /\ request[t] \in Deletes => ~IsApply(t)
    BY <2>1, RequestTypes
  <2> QED BY <1>7, <2>2 DEF UnusedContainersRemoved
<1>8. ASSUME NEW t \in Threads, FindContainer(t) PROVE Rest'
  <2>1. ASSUME NEW id \in Ids, id \in Dock!Existing PROVE containers[id].port \in Ports \cup {NoPort}
    BY <2>1 DEF CInv, Dock!TypeOK, Dock!Existing, Dock!Container
  <2>2. \A name : Dock!WithName(name) \subseteq Dock!Existing /\ Dock!Existing \subseteq Ids
    BY DEF Dock!WithName, Dock!Existing
  <2> DEFINE found == Dock!WithName(ContainerName(ProjectOf(t), Current(t).name))
  <2>3. pc[t] = "find" /\ UNCHANGED <<saved, request, index, netLive, pending, mishaps>>
    BY <1>8 DEF FindContainer
  <2>4. CASE pc' = [pc EXCEPT ![t] = "create"] /\ UNCHANGED <<target, endpoint>>
    BY <2>3, <2>4
  <2>5. ASSUME NEW id \in found,
               target' = [target EXCEPT ![t] = id],
               IF UpToDate(containers[id], Current(t))
               THEN /\ endpoint' = [endpoint EXCEPT ![t] = containers[id].port]
                    /\ Goto(t, IF containers[id].running THEN "register" ELSE "start")
               ELSE /\ endpoint' = [endpoint EXCEPT ![t] = NoPort]
                    /\ Goto(t, "replace")
        PROVE  Rest'
    <3>1. id \in Ids /\ containers[id].port \in Ports \cup {NoPort}
      BY <2>1, <2>2
    <3>2. endpoint' \in [Threads -> Ports \cup {NoPort}]
      BY <2>5, <3>1
    <3>3. \E label \in {"register", "start", "replace"} : pc' = [pc EXCEPT ![t] = label]
      BY <2>5
    <3> QED BY <2>3, <2>5, <3>1, <3>2, <3>3
  <2> QED BY <1>8, <2>4, <2>5 DEF FindContainer
<1>9. ASSUME NEW t \in Threads, RemoveContainer(t) \/ CreateRefused(t) \/ StartContainer(t)
      PROVE  Rest'
  BY <1>9 DEF RemoveContainer, CreateRefused, StartContainer
<1>10. ASSUME NEW t \in Threads, CreateContainer(t) PROVE Rest'
  BY <1>10 DEF CreateContainer
<1>11. ASSUME NEW t \in Threads, RegisterRoute(t) PROVE Rest'
  BY <1>11 DEF RegisterRoute
<1>12. ASSUME NEW t \in Threads, RouteRegistered(t) PROVE Rest'
  <2>1. request[t] \in Applies /\ Len(request[t].services) \in Nat
    BY <1>12, Configurations DEF RouteRegistered
  <2> QED BY <1>12, <2>1 DEF RouteRegistered, LastService
<1>13. ASSUME NEW t \in Threads, SaveProject(t) PROVE Rest'
  <2>1. request[t] \in Applies /\ ToSet(request[t].services) \subseteq Service
    BY <1>13, Configurations DEF SaveProject
  <2> QED BY <1>13, <2>1 DEF SaveProject
<1>14. ASSUME NEW t \in Threads, DeleteNetwork(t) PROVE Rest'
  BY <1>14 DEF DeleteNetwork
<1>15. ASSUME NEW t \in Threads, RemoveProject(t) PROVE Rest'
  BY <1>15 DEF RemoveProject
<1>16. ASSUME NEW t \in Threads, ErrorIgnored(t) \/ CallFails(t) PROVE Rest'
  <2>1. mishaps' \in 0 .. MaxMishaps
    BY <1>16 DEF ErrorIgnored, CallFails, Mishap
  <2>2. CASE ErrorIgnored(t)
    BY <2>1, <2>2 DEF ErrorIgnored
  <2>3. CASE CallFails(t)
    BY <2>1, <2>3 DEF CallFails
  <2> QED BY <1>16, <2>2, <2>3
<1>17. ASSUME NEW t \in Threads, RouteWriteFails(t) PROVE Rest'
  BY <1>17 DEF RouteWriteFails, Mishap
<1>18. ASSUME NEW id \in Ids, ContainerExits(id) PROVE Rest'
  BY <1>18 DEF ContainerExits, Mishap
<1>19. CASE Crash
  BY <1>19 DEF Crash, Mishap
<1>20. ASSUME NEW t \in Threads, Reply(t) PROVE Rest'
  BY <1>20 DEF Reply
<1>21. ASSUME NEW t \in Threads, IngressStep(t) PROVE Rest'
  BY <1>21 DEF IngressStep
<1>22. CASE UNCHANGED vars
  BY <1>22 DEF vars
<1> HIDE DEF Rest
<1> QED BY <1>1, <1>2, <1>3, <1>4, <1>5, <1>6, <1>7, <1>8, <1>9, <1>10, <1>11, <1>12,
           <1>13, <1>14, <1>15, <1>16, <1>17, <1>18, <1>19, <1>20, <1>21, <1>22
        DEF Next, Client, Step, ApplyStep, CleanStep, Fault

\* Every step keeps the invariant.
LEMMA NextCInv == CInv /\ [Next]_vars => CInv'
<1> SUFFICES ASSUME CInv, [Next]_vars PROVE CInv'
  OBVIOUS
<1>1. IngP!TInv'
  BY NextIng, IngConstants, IngP!NextTInv DEF IngP!IngressesAssumption, CInv
<1> QED BY <1>1, NextDock, NextLocals DEF CInv

\* The variables keep to their types, whatever the clients ask for, fails or
\* crashes, and however requests interleave.
THEOREM TypeCorrect == Spec => []TypeOK
<1> QED BY InitCInv, NextCInv, CInvTypeOK, PTL DEF Spec

(***************************************************************************)
(* The ingress manager works for the request of its thread                 *)
(***************************************************************************)

\* A thread is in the ingress manager only while its request waits for it, and
\* only for the project and the domains of that request.
Serves(t) ==
    /\ pc[t] \notin {"unrouting", "registering"} => ipc[t] = "idle"
    /\ pc[t] = "unrouting" => ipc[t] \in {"remove", "removed", "failed"}
    /\ pc[t] = "registering" => ipc[t] \in {"match", "certify", "registered", "failed"}
    /\ ipc[t] = "idle" => ingress[t] = None /\ project[t] = None
    /\ ingress[t] # None => ingress[t].project = ProjectOf(t)
    /\ project[t] # None => project[t] = ProjectOf(t)
    /\ pc[t] = "unrouting" => project[t] = ProjectOf(t) /\ excluded[t] = WantedDomains(t)

SInv == CInv /\ \A t \in Threads : Serves(t)

\* Nobody is in the ingress manager at first.
LEMMA InitSInv == Init => SInv
BY InitCInv DEF Init, Ing!Init, SInv, Serves

\* Every step of a thread keeps it, and so do the failures.
LEMMA NextSInv == SInv /\ [Next]_vars => SInv'
<1> SUFFICES ASSUME SInv, [Next]_vars, NEW u \in Threads PROVE Serves(u)'
  BY NextCInv DEF SInv
<1>0. CInv /\ Serves(u) /\ IngP!TypeOK /\ RequestFits(u) /\ LocalsOK
  BY DEF SInv, CInv, IngP!TInv
<1> USE <1>0 DEF Serves, ProjectOf, WantedDomains, IngP!TypeOK, LocalsOK, At, Goto, ivars
<1>1. ASSUME NEW t \in Threads, Client(t) PROVE Serves(u)'
  BY <1>1 DEF Client, Apply, Delete
<1>2. ASSUME NEW t \in Threads, Reply(t) PROVE Serves(u)'
  BY <1>2 DEF Reply, Goals
<1>3. ASSUME NEW t \in Threads, IngressStep(t) \/ RouteWriteFails(t) PROVE Serves(u)'
  <2> DEFINE Onward(from, label) ==
                /\ UNCHANGED <<pc, request, ingress, project, excluded>>
                /\ ipc[t] \in from
                /\ ipc' = ipc \/ ipc' = [ipc EXCEPT ![t] = label]
  <2>1. CASE Ing!MatchDomain(t) \/ Ing!RemoveIngressRoute(t) \/ Ing!DatabaseError(t)
    <3>1. Onward({"match", "remove"}, "failed")
      BY <1>3, <2>1 DEF IngressStep, RouteWriteFails, Ing!MatchDomain, Ing!RemoveIngressRoute,
                        Ing!DatabaseError, Ing!Goto
    <3> QED BY <3>1
  <2>2. CASE Ing!SaveIngressRoute(t)
    <3>1. Onward({"match"}, "certify")
      BY <1>3, <2>2 DEF IngressStep, RouteWriteFails, Ing!SaveIngressRoute, Ing!Goto
    <3> QED BY <3>1
  <2>3. CASE Ing!Certify(t)
    <3>1. Onward({"certify"}, "registered") \/ Onward({"certify"}, "failed")
      BY <1>3, <2>3 DEF IngressStep, RouteWriteFails, Ing!Certify, Ing!Goto
    <3> QED BY <3>1
  <2>4. CASE Ing!RoutesRemoved(t)
    <3>1. Onward({"remove"}, "removed")
      BY <1>3, <2>4 DEF IngressStep, RouteWriteFails, Ing!RoutesRemoved, Ing!Goto
    <3> QED BY <3>1
  <2> QED BY <1>3, <2>1, <2>2, <2>3, <2>4 DEF IngressStep, RouteWriteFails
<1>4. ASSUME NEW t \in Threads, RemoveUnusedRoutes(t) PROVE Serves(u)'
  <2>1. request[t] # None /\ ProjectOf(t) \in Projects
    BY <1>4, IngCalls
  <2> QED BY <1>4, <2>1, ConstantsAssumption
          DEF RemoveUnusedRoutes, Ing!RemoveUnusedRoutes, Ing!Goto
<1>5. ASSUME NEW t \in Threads, RegisterRoute(t) PROVE Serves(u)'
  <2>1. IngressOf(t) # None
    BY <1>5, IngCalls, ConstantsAssumption
  <2> QED BY <1>5, <2>1 DEF RegisterRoute, Ing!RegisterRoute, Ing!Goto, IngressOf, IngressFor
<1>6. ASSUME NEW t \in Threads, UnusedRoutesRemoved(t) PROVE Serves(u)'
  BY <1>6 DEF UnusedRoutesRemoved, Ing!Return, Ing!Goto
<1>7. ASSUME NEW t \in Threads, RouteRegistered(t) PROVE Serves(u)'
  BY <1>7 DEF RouteRegistered, Ing!Return, Ing!Goto
<1>8. CASE Crash
  BY <1>8 DEF Crash, Ing!Crash
<1>9. CASE UNCHANGED vars
  BY <1>9 DEF vars
<1>10. ASSUME NEW t \in Threads,
              UNCHANGED <<ivars, request>>,
              \/ UNCHANGED pc
              \/ /\ pc[t] \notin {"unrouting", "registering"}
                 /\ \E label \in STRING \ {"unrouting", "registering"} :
                       pc' = [pc EXCEPT ![t] = label]
       PROVE  Serves(u)'
  BY <1>10
<1>11. ASSUME NEW t \in Threads, ApplyStep(t) PROVE Serves(u)'
  BY <1>5, <1>7, <1>10, <1>11
     DEF ApplyStep, InspectNetwork, CreateNetwork, FindContainer, RemoveContainer,
         CreateContainer, CreateRefused, StartContainer, SaveProject
<1>12. ASSUME NEW t \in Threads, CleanStep(t) PROVE Serves(u)'
  BY <1>4, <1>6, <1>10, <1>12
     DEF CleanStep, ListContainers, RemoveUnusedContainer, UnusedContainersRemoved,
         DeleteNetwork, RemoveProject
<1>13. ASSUME NEW t \in Threads, ErrorIgnored(t) \/ CallFails(t) PROVE Serves(u)'
  BY <1>10, <1>13 DEF ErrorIgnored, CallFails
<1>14. ASSUME NEW id \in Ids, ContainerExits(id) PROVE Serves(u)'
  BY <1>14 DEF ContainerExits
<1> QED BY <1>1, <1>2, <1>3, <1>8, <1>9, <1>11, <1>12, <1>13, <1>14 DEF Next, Step, Fault

\* A project is served by one request at a time.
Exclusive ==
    \A t, u \in Threads :
       request[t] # None /\ request[u] # None /\ ProjectOf(t) = ProjectOf(u) => t = u

\* The orderly clients only leave out requests.
LEMMA OrderlyIsNext == OrderlyNext => Next
BY DEF OrderlyNext, OrderlyClient, Next, Client

\* A request begins when there is no other one for its project.
LEMMA NextExclusive == CInv /\ Exclusive /\ [OrderlyNext]_vars => Exclusive'
<1> SUFFICES ASSUME CInv, Exclusive, [OrderlyNext]_vars PROVE Exclusive'
  OBVIOUS
<1>0. request \in [Threads -> Applies \cup Deletes \cup {None}]
  BY DEF CInv, LocalsOK
<1> USE <1>0 DEF Exclusive, ProjectOf
<1>1. ASSUME NEW t \in Threads, OrderlyClient(t) PROVE Exclusive'
  <2>1. PICK r : /\ request' = [request EXCEPT ![t] = r]
                 /\ Unserved(r.project)
    <3>1. CASE \E config \in Applies : Unserved(config.project) /\ Apply(t, config)
      BY <3>1 DEF Apply
    <3>2. CASE \E p \in Projects : Unserved(p) /\ Delete(t, p)
      <4>1. PICK p \in Projects : Unserved(p) /\ Delete(t, p)
        BY <3>2
      <4> DEFINE r == [project |-> p, services |-> <<>>]
      <4>2. request' = [request EXCEPT ![t] = r] /\ Unserved(r.project)
        BY <4>1 DEF Delete
      <4> QED BY <4>2
    <3> QED BY <1>1, <3>1, <3>2 DEF OrderlyClient
  <2> QED BY <2>1 DEF Unserved
<1>2. ASSUME NEW t \in Threads, Reply(t) PROVE Exclusive'
  BY <1>2 DEF Reply
<1>3. CASE Crash
  BY <1>3 DEF Crash
<1>4. CASE UNCHANGED request
  BY <1>4
<1>5. ASSUME NEW t \in Threads, ApplyStep(t) PROVE UNCHANGED request
  BY <1>5 DEF ApplyStep, InspectNetwork, CreateNetwork, FindContainer, RemoveContainer,
              CreateContainer, CreateRefused, StartContainer, RegisterRoute, RouteRegistered,
              SaveProject
<1>6. ASSUME NEW t \in Threads, CleanStep(t) PROVE UNCHANGED request
  BY <1>6 DEF CleanStep, RemoveUnusedRoutes, UnusedRoutesRemoved, ListContainers,
              RemoveUnusedContainer, UnusedContainersRemoved, DeleteNetwork, RemoveProject
<1>7. ASSUME Fault PROVE Crash \/ UNCHANGED request
  BY <1>7 DEF Fault, ErrorIgnored, CallFails, RouteWriteFails, ContainerExits
<1>8. ASSUME NEW t \in Threads, IngressStep(t) PROVE UNCHANGED request
  BY <1>8 DEF IngressStep
<1> QED BY <1>1, <1>2, <1>3, <1>4, <1>5, <1>6, <1>7, <1>8 DEF OrderlyNext, Step, vars

\* One request per project makes one call per project.
LEMMA NextOrderlyIng == SInv /\ Exclusive /\ [OrderlyNext]_vars => [IngP!OrderlyNext]_(IngP!ivars)
<1> SUFFICES ASSUME SInv, Exclusive, [OrderlyNext]_vars
             PROVE  IngP!OrderlyNext \/ UNCHANGED IngP!ivars
  OBVIOUS
<1>0. CInv /\ [Next]_vars
  BY OrderlyIsNext DEF SInv
<1>1. ASSUME NEW t \in Threads, request[t] # None, ipc[t] = "idle"
      PROVE  IngP!Unserved(ProjectOf(t))
  <2> SUFFICES ASSUME NEW u \in Threads, IngP!Concerns(u, ProjectOf(t)) PROVE FALSE
    BY DEF IngP!Unserved
  <2>1. Serves(u) /\ RequestFits(u) /\ Serves(t)
    BY DEF SInv, CInv
  <2>2. ProjectOf(t) \in Projects /\ None \notin Projects
    BY <1>0, <1>1, RequestTypes, ConstantsAssumption
  <2>3. ProjectOf(u) = ProjectOf(t) /\ ipc[u] # "idle"
    BY <2>1, <2>2 DEF IngP!Concerns, Serves
  <2>4. request[u] # None
    BY <2>1, <2>3, Configurations
       DEF Serves, RequestFits, ApplyLabels, CleanLabels
  <2> QED BY <1>1, <2>3, <2>4 DEF Exclusive
<1>2. ASSUME NEW t \in Threads, RemoveUnusedRoutes(t) PROVE IngP!OrderlyNext
  <2>1. ipc[t] = "idle"
    BY <1>2 DEF RemoveUnusedRoutes, Ing!RemoveUnusedRoutes
  <2> QED BY <1>0, <1>1, <1>2, <2>1, IngCalls DEF IngP!OrderlyNext, IngP!OrderlyCall
<1>3. ASSUME NEW t \in Threads, RegisterRoute(t) PROVE IngP!OrderlyNext
  <2>1. ipc[t] = "idle"
    BY <1>3 DEF RegisterRoute, Ing!RegisterRoute
  <2> QED BY <1>0, <1>1, <1>3, <2>1, IngCalls DEF IngP!OrderlyNext, IngP!OrderlyCall
<1> QED BY <1>0, <1>2, <1>3, IngSteps DEF IngP!OrderlyNext, ivars, IngP!ivars

\* At first there is no request.
LEMMA InitExclusive == Init => Exclusive
BY DEF Init, Exclusive

\* The manager calls the ingress manager as its specification allows: for
\* clients that have one request per project under way, as OrderlySpec allows.
THEOREM CallsIngress == (Spec => IngP!Spec) /\ (OrderlySpec => IngP!OrderlySpec)
<1>1. Init => IngP!Init
  BY DEF Init, Ing!Init, IngP!Init
<1>2. Spec => IngP!Spec
  BY <1>1, InitCInv, NextCInv, NextIng, PTL DEF Spec, IngP!Spec
<1>3. [OrderlyNext]_vars => [Next]_vars
  BY OrderlyIsNext
<1>4. SInv => CInv
  BY DEF SInv
<1>5. OrderlySpec => IngP!OrderlySpec
  BY <1>1, <1>3, <1>4, InitSInv, NextSInv, InitExclusive, NextExclusive, NextOrderlyIng, PTL
     DEF OrderlySpec, IngP!OrderlySpec
<1> QED BY <1>2, <1>5

\* What the ingress manager promises holds inside the container manager: its
\* requests, which die with the daemon and give up at any call, take no domain
\* from one another, remove routes of their own project only, and all that is
\* claimed or released of the ownership table is claimed and released by its
\* rules.
THEOREM RoutesOwned ==
    ASSUME IngP!Serial \/ IngP!Disjoint
    PROVE  OrderlySpec => /\ IngP!ImplementsRouteTable
                          /\ IngP!RouteNeverStolen
                          /\ IngP!OnlyOwnRoutesRemoved
<1>1. IngP!OrderlySpec => IngP!ImplementsRouteTable
  BY IngConstants, IngP!Refinement DEF IngP!IngressesAssumption
<1>2. IngP!OrderlySpec => IngP!RouteNeverStolen
  BY IngConstants, IngP!NeverStolen DEF IngP!IngressesAssumption
<1>3. IngP!OrderlySpec => IngP!OnlyOwnRoutesRemoved
  BY IngConstants, IngP!OwnRemovals DEF IngP!IngressesAssumption
<1> QED BY <1>1, <1>2, <1>3, CallsIngress

(***************************************************************************)
(* Containers belong to projects.  A request finds its containers by name  *)
(* or by label and removes them later by id, so the claim needs names that *)
(* determine the project, and ids that nobody else can have got since.     *)
(***************************************************************************)
NamesDetermineProjects ==
    \A p, q \in Projects, s, r \in Services : ContainerName(p, s) = ContainerName(q, r) => p = q

\* A container has a name of its project.
WellNamed ==
    \A id \in Dock!Existing :
       \E s \in Services : containers[id].name = ContainerName(containers[id].project, s)

\* The ids a thread remembers are those of its project's containers, or of none.
Remembers(t) ==
    /\ pc[t] = "idle" => target[t] = None /\ pending[t] = {}
    /\ target[t] \in Dock!Existing => containers[target[t]].project = ProjectOf(t)
    /\ \A id \in pending[t] \cap Dock!Existing : containers[id].project = ProjectOf(t)

OInv == CInv /\ WellNamed /\ \A t \in Threads : Remembers(t)

\* No container exists at first.
LEMMA InitOInv == Init => OInv
BY InitCInv DEF Init, Dock!Init, Dock!Existing, OInv, WellNamed, Remembers

\* A container keeps its name and its project from its creation to its end.
LEMMA ContainersKept ==
    ASSUME CInv, [Next]_vars, NEW id \in Dock!Existing'
    PROVE  \/ /\ id \in Dock!Existing
              /\ containers'[id].name = containers[id].name
              /\ containers'[id].project = containers[id].project
           \/ \E t \in Threads :
                 /\ CreateContainer(t)
                 /\ NewId(id)
                 /\ target'[t] = id
                 /\ containers'[id].name = ContainerName(ProjectOf(t), Current(t).name)
                 /\ containers'[id].project = ProjectOf(t)
<1> DEFINE Kept == /\ id \in Dock!Existing
                   /\ containers'[id].name = containers[id].name
                   /\ containers'[id].project = containers[id].project
<1>0. /\ containers \in [Ids -> Dock!Container \cup {Gone}]
      /\ Gone \notin Dock!Container
      /\ target \in [Threads -> Ids \cup {None}]
  BY ConstantsAssumption DEF CInv, Dock!TypeOK, LocalsOK
<1> USE <1>0 DEF Dock!Existing
<1>1. ASSUME UNCHANGED dvars PROVE Kept
  BY <1>1 DEF dvars
<1>2. ASSUME NEW p, Dock!NetworkCreate(p) PROVE Kept
  BY <1>2 DEF Dock!NetworkCreate
<1>3. ASSUME NEW i, Dock!ContainerRemove(i) PROVE Kept
  BY <1>3 DEF Dock!ContainerRemove
<1>4. ASSUME NEW i, Dock!ContainerStart(i) PROVE Kept
  BY <1>4 DEF Dock!ContainerStart, Dock!CanStart, Dock!Container
<1>5. ASSUME NEW p, Dock!NetworkRemove(p) PROVE Kept
  BY <1>5 DEF Dock!NetworkRemove, Dock!Container
<1>6. ASSUME NEW i \in Ids, ContainerExits(i) PROVE Kept
  <2>1. /\ containers[i] \in Dock!Container
        /\ containers' = [containers EXCEPT ![i].running = FALSE]
    BY <1>6 DEF ContainerExits, Dock!ContainerExit, Dock!RunningContainers
  <2> QED BY <2>1 DEF Dock!Container
<1>7. ASSUME NEW t \in Threads, RemoveUnusedContainer(t) PROVE Kept
  <2>1. (\E i \in pending[t] : Dock!ContainerRemove(i)) \/ UNCHANGED dvars
    BY <1>7 DEF RemoveUnusedContainer
  <2> QED BY <1>1, <1>3, <2>1
<1>8. ASSUME NEW t \in Threads, CreateContainer(t)
      PROVE  \/ Kept
             \/ /\ NewId(id)
                /\ target'[t] = id
                /\ containers'[id].name = ContainerName(ProjectOf(t), Current(t).name)
                /\ containers'[id].project = ProjectOf(t)
  <2>1. PICK i \in Ids, port \in Ports \cup {NoPort} :
           /\ NewId(i)
           /\ Dock!ContainerCreate(i, NewContainer(t, port))
           /\ target' = [target EXCEPT ![t] = i]
    BY <1>8 DEF CreateContainer
  <2>2. CASE id = i
    BY <2>1, <2>2 DEF Dock!ContainerCreate, NewContainer
  <2>3. CASE id # i
    BY <2>1, <2>3 DEF Dock!ContainerCreate
  <2> QED BY <2>2, <2>3
<1> QED BY <1>1, <1>2, <1>3, <1>4, <1>5, <1>6, <1>7, <1>8, DockerSteps

\* A container that is found by a name of the project is the project's.
LEMMA FoundByName ==
    ASSUME NamesDetermineProjects, OInv, NEW p \in Projects, NEW s \in Services,
           NEW id \in Dock!WithName(ContainerName(p, s))
    PROVE  containers[id].project = p
<1>1. /\ id \in Dock!Existing
      /\ containers[id].name = ContainerName(p, s)
  BY DEF Dock!WithName
<1>2. containers[id].project \in Projects
  BY <1>1 DEF OInv, CInv, Dock!TypeOK, Dock!Existing, Dock!Container
<1>3. PICK r \in Services : containers[id].name = ContainerName(containers[id].project, r)
  BY <1>1 DEF OInv, WellNamed
<1> QED BY <1>1, <1>2, <1>3 DEF NamesDetermineProjects

\* Every step keeps what the threads remember.
LEMMA NextOInv == ASSUME NamesDetermineProjects PROVE OInv /\ [Next]_vars => OInv'
<1> SUFFICES ASSUME OInv, [Next]_vars PROVE OInv'
  OBVIOUS
<1>0. CInv /\ CInv' /\ LocalsOK
  BY NextCInv DEF OInv, CInv
<1>1. WellNamed'
  <2> SUFFICES ASSUME NEW id \in Dock!Existing'
               PROVE  \E s \in Services :
                         containers'[id].name = ContainerName(containers'[id].project, s)
    BY DEF WellNamed
  <2>1. CASE /\ id \in Dock!Existing
             /\ containers'[id].name = containers[id].name
             /\ containers'[id].project = containers[id].project
    BY <2>1 DEF OInv, WellNamed
  <2>2. ASSUME NEW t \in Threads, CreateContainer(t),
               containers'[id].name = ContainerName(ProjectOf(t), Current(t).name),
               containers'[id].project = ProjectOf(t)
        PROVE  \E s \in Services :
                  containers'[id].name = ContainerName(containers'[id].project, s)
    <3>1. request[t] \in Applies
      BY <1>0, <2>2 DEF CreateContainer, At, CInv, RequestFits, ApplyLabels
    <3>2. Current(t).name \in Services
      BY <1>0, <3>1, Configurations, RequestTypes DEF Service
    <3> QED BY <2>2, <3>2
  <2> QED BY <1>0, <2>1, <2>2, ContainersKept
<1>2. ASSUME NEW u \in Threads PROVE Remembers(u)'
  <2>0. Remembers(u) /\ u \in Threads
    BY DEF OInv
  <2>1. ASSUME target'[u] \in {target[u], None}, pending'[u] \subseteq pending[u],
               ProjectOf(u)' = ProjectOf(u) \/ pc[u] = "idle",
               pc'[u] = "idle" => pc[u] = "idle" \/ (target'[u] = None /\ pending'[u] = {}),
               ~CreateContainer(u)
        PROVE  Remembers(u)'
    <3>1. None \notin Dock!Existing'
      BY ConstantsAssumption DEF Dock!Existing
    <3>2. ASSUME NEW id \in Dock!Existing', id = target[u] \/ id \in pending[u]
          PROVE  id \in Dock!Existing /\ containers'[id].project = containers[id].project
      BY <1>0, <2>1, <3>2, ContainersKept DEF NewId
    <3> QED BY <2>0, <2>1, <3>1, <3>2 DEF Remembers
  <2>2. CASE UNCHANGED <<target, pending, request>> /\ (pc'[u] = "idle" => pc[u] = "idle")
    <3>1. ~CreateContainer(u)
      <4> SUFFICES ASSUME CreateContainer(u) PROVE FALSE
        OBVIOUS
      <4>1. PICK i \in Ids : NewId(i) /\ target' = [target EXCEPT ![u] = i]
        BY DEF CreateContainer
      <4> QED BY <1>0, <2>2, <4>1 DEF NewId, LocalsOK
    <3> QED BY <2>1, <2>2, <3>1 DEF ProjectOf
  <2>3. ASSUME NEW t \in Threads, Client(t) PROVE Remembers(u)'
    BY <1>0, <2>1, <2>3 DEF Client, Apply, Delete, locals, At, Goto, LocalsOK, ProjectOf, CreateContainer
  <2>4. ASSUME NEW t \in Threads, Reply(t) PROVE Remembers(u)'
    <3>1. CASE u = t
      BY <1>0, <2>4, <3>1, ConstantsAssumption DEF Reply, LocalsOK, Remembers, Dock!Existing
    <3>2. CASE u # t
      <4>1. /\ target'[u] = target[u] /\ pending'[u] = pending[u] /\ request'[u] = request[u]
            /\ pc'[u] = pc[u]
            /\ containers' = containers
        BY <1>0, <2>4, <3>2 DEF Reply, Goto, LocalsOK, dvars
      <4> QED BY <2>0, <4>1 DEF Remembers, ProjectOf, Dock!Existing
    <3> QED BY <3>1, <3>2
  <2>5. CASE Crash
    BY <1>0, <2>5, ConstantsAssumption DEF Crash, Remembers, Dock!Existing
  <2>6. ASSUME NEW t \in Threads, FindContainer(t) PROVE Remembers(u)'
    <3>1. request[t] \in Applies
      BY <1>0, <2>6 DEF FindContainer, At, CInv, RequestFits, ApplyLabels
    <3>2. ProjectOf(t) \in Projects /\ Current(t).name \in Services
      BY <1>0, <3>1, Configurations, RequestTypes DEF Service
    <3>3. /\ UNCHANGED <<containers, pending, request>>
          /\ pc'[u] # "idle" \/ pc'[u] = pc[u]
      BY <1>0, <2>6 DEF FindContainer, At, Goto, LocalsOK, dvars
    <3>4. CASE UNCHANGED target
      BY <2>2, <3>3, <3>4
    <3>5. ASSUME NEW id \in Dock!WithName(ContainerName(ProjectOf(t), Current(t).name)),
                 target' = [target EXCEPT ![t] = id]
          PROVE  Remembers(u)'
      <4>1. containers[id].project = ProjectOf(t)
        BY <3>2, FoundByName
      <4>2. pc'[t] # "idle"
        BY <1>0, <2>6 DEF FindContainer, At, Goto, LocalsOK
      <4> QED BY <1>0, <2>0, <3>3, <3>5, <4>1, <4>2
              DEF Remembers, LocalsOK, ProjectOf, Dock!Existing
    <3> QED BY <2>6, <3>4, <3>5 DEF FindContainer
  <2>7. ASSUME NEW t \in Threads, CreateContainer(t) PROVE Remembers(u)'
    <3>1. /\ UNCHANGED <<pending, request>>
          /\ pc'[t] = "start"
          /\ \A v \in Threads \ {t} : target'[v] = target[v] /\ pc'[v] = pc[v]
      BY <1>0, <2>7 DEF CreateContainer, Goto, LocalsOK
    <3>2. CASE u # t
      <4>1. ~CreateContainer(u)
        BY <1>0, <2>7, <3>1, <3>2 DEF CreateContainer, NewId, LocalsOK
      <4> QED BY <2>1, <3>1, <3>2, <4>1 DEF ProjectOf
    <3>3. CASE u = t
      <4>1. PICK i \in Ids, port \in Ports \cup {NoPort} :
               /\ NewId(i)
               /\ Dock!ContainerCreate(i, NewContainer(t, port))
               /\ target' = [target EXCEPT ![t] = i]
        BY <2>7 DEF CreateContainer
      <4>2. /\ target'[u] = i
            /\ containers' = [containers EXCEPT ![i] = NewContainer(t, port)]
            /\ containers \in [Ids -> Dock!Container \cup {Gone}]
        BY <1>0, <3>3, <4>1 DEF Dock!ContainerCreate, LocalsOK, CInv, Dock!TypeOK
      <4>3. containers'[target'[u]].project = ProjectOf(u)'
        BY <3>1, <3>3, <4>2 DEF NewContainer, ProjectOf
      <4>4. ASSUME NEW id \in pending[u], id \in Dock!Existing'
            PROVE  containers'[id].project = ProjectOf(u)'
        <5>1. id # i
          BY <4>1, <4>4 DEF NewId
        <5>2. id \in Dock!Existing /\ containers'[id] = containers[id]
          BY <4>2, <4>4, <5>1 DEF Dock!Existing
        <5> QED BY <2>0, <3>1, <4>4, <5>2 DEF Remembers, ProjectOf
      <4> QED BY <3>1, <3>3, <4>3, <4>4 DEF Remembers
    <3> QED BY <3>2, <3>3
  <2>8. ASSUME NEW t \in Threads, ListContainers(t) PROVE Remembers(u)'
    <3>1. /\ UNCHANGED <<containers, target, request>>
          /\ pc'[t] = "purge"
          /\ pending'[t] = Unused(t)
          /\ \A v \in Threads \ {t} : pending'[v] = pending[v] /\ pc'[v] = pc[v]
      BY <1>0, <2>8 DEF ListContainers, Goto, LocalsOK, dvars
    <3> QED BY <2>0, <3>1 DEF Remembers, Unused, Dock!ContainerList, ProjectOf, Dock!Existing
  <2>9. ASSUME NEW t \in Threads, RemoveUnusedContainer(t) PROVE Remembers(u)'
    <3>1. /\ UNCHANGED <<target, request>>
          /\ pending'[u] \subseteq pending[u]
          /\ pc'[u] = "idle" => pc[u] = "idle"
      BY <1>0, <2>9 DEF RemoveUnusedContainer, Goto, At, LocalsOK
    <3>2. ~CreateContainer(u)
      BY <1>0, <3>1 DEF CreateContainer, NewId, LocalsOK
    <3> QED BY <2>1, <3>1, <3>2 DEF ProjectOf
  <2>10. ASSUME NEW t \in Threads, RouteRegistered(t) PROVE Remembers(u)'
    <3>1. /\ UNCHANGED <<pending, request>>
          /\ target'[u] \in {target[u], None}
          /\ pc'[u] = "idle" => pc[u] = "idle"
      BY <1>0, <2>10 DEF RouteRegistered, Goto, At, LocalsOK
    <3>2. ~CreateContainer(u)
      BY <1>0, <2>10 DEF CreateContainer, RouteRegistered, At, Goto, LocalsOK
    <3> QED BY <2>1, <3>1, <3>2 DEF ProjectOf
  <2>11. ASSUME NEW t \in Threads, ApplyStep(t) PROVE Remembers(u)'
    BY <1>0, <2>2, <2>6, <2>7, <2>10, <2>11
       DEF ApplyStep, InspectNetwork, CreateNetwork, RemoveContainer, CreateRefused,
           StartContainer, RegisterRoute, SaveProject, At, Goto, LocalsOK, locals
  <2>12. ASSUME NEW t \in Threads, CleanStep(t) PROVE Remembers(u)'
    BY <1>0, <2>2, <2>8, <2>9, <2>12
       DEF CleanStep, RemoveUnusedRoutes, UnusedRoutesRemoved, UnusedContainersRemoved,
           DeleteNetwork, RemoveProject, At, Goto, LocalsOK, locals
  <2>13. CASE Fault
    <3>1. ASSUME NEW t \in Threads, ErrorIgnored(t) \/ CallFails(t) PROVE Remembers(u)'
      BY <1>0, <2>2, <3>1 DEF ErrorIgnored, CallFails, Goto, LocalsOK, locals
    <3>2. ASSUME NEW t \in Threads, RouteWriteFails(t) PROVE Remembers(u)'
      BY <2>2, <3>2 DEF RouteWriteFails, locals
    <3>3. ASSUME NEW id \in Ids, ContainerExits(id) PROVE Remembers(u)'
      BY <2>2, <3>3 DEF ContainerExits, locals
    <3> QED BY <2>5, <2>13, <3>1, <3>2, <3>3 DEF Fault
  <2>14. ASSUME NEW t \in Threads, IngressStep(t) PROVE Remembers(u)'
    BY <2>2, <2>14 DEF IngressStep, locals
  <2>15. CASE UNCHANGED vars
    BY <2>2, <2>15 DEF vars, locals
  <2> QED BY <2>3, <2>4, <2>11, <2>12, <2>13, <2>14, <2>15 DEF Next, Step
<1> QED BY <1>0, <1>1, <1>2 DEF OInv

\* The request that removes a container is one for the container's own project,
\* for any clients, whatever fails or exits meanwhile.
THEOREM ContainersUntouched == ASSUME NamesDetermineProjects PROVE Spec => OthersUntouched
<1> DEFINE Untouched == \A id \in Ids, t \in Threads :
                           containers[id] # Gone /\ containers'[id] = Gone /\ Acts(t)
                              => request[t] # None /\ containers[id].project = ProjectOf(t)
<1>1. OInv /\ [Next]_vars => [Untouched]_vars
  <2> SUFFICES ASSUME OInv, [Next]_vars,
                      NEW id \in Ids, containers[id] # Gone, containers'[id] = Gone,
                      NEW u \in Threads, Acts(u)
               PROVE  request[u] # None /\ containers[id].project = ProjectOf(u)
    OBVIOUS
  <2>0. /\ containers \in [Ids -> Dock!Container \cup {Gone}]
        /\ Gone \notin Dock!Container
        /\ id \in Dock!Existing
    BY ConstantsAssumption DEF OInv, CInv, Dock!TypeOK, Dock!Existing
  <2>1. ASSUME NEW i, Dock!ContainerRemove(i) PROVE id = i
    BY <2>0, <2>1 DEF Dock!ContainerRemove
  <2>2. ASSUME NEW t \in Threads, RemoveUnusedContainer(t)
        PROVE  request[u] # None /\ containers[id].project = ProjectOf(u)
    <3>1. pc[t] = "purge" /\ \E i \in pending[t] : Dock!ContainerRemove(i) \/ UNCHANGED dvars
      BY <2>2 DEF RemoveUnusedContainer, At
    <3>2. id \in pending[t]
      BY <2>0, <2>1, <3>1 DEF dvars
    <3>3. \A v \in Threads \ {t} : pc'[v] = pc[v] /\ pending'[v] = pending[v]
      BY <2>2 DEF RemoveUnusedContainer, Goto, OInv, CInv, LocalsOK
    <3>4. t = u
      BY <3>3 DEF Acts
    <3> QED BY <2>0, <3>1, <3>2, <3>4 DEF OInv, CInv, RequestFits, CleanLabels, Remembers
  <2>3. ASSUME NEW t \in Threads, RemoveContainer(t), Dock!ContainerRemove(target[t])
        PROVE  request[u] # None /\ containers[id].project = ProjectOf(u)
    <3>1. request[t] \in Applies
      BY <2>3 DEF RemoveContainer, At, OInv, CInv, RequestFits, ApplyLabels
    <3>2. \A v \in Threads \ {t} : pc'[v] = pc[v] /\ pending'[v] = pending[v]
      BY <2>3 DEF RemoveContainer, Goto, locals, OInv, CInv, LocalsOK
    <3>3. t = u
      BY <3>2 DEF Acts
    <3> QED BY <2>0, <2>1, <2>3, <3>1, <3>3, Configurations DEF OInv, Remembers
  <2>4. ASSUME NEW t \in Threads, CreateContainer(t) PROVE FALSE
    <3>1. PICK i \in Ids, port \in Ports \cup {NoPort} :
             NewId(i) /\ Dock!ContainerCreate(i, NewContainer(t, port))
      BY <2>4 DEF CreateContainer
    <3> QED BY <2>0, <3>1 DEF Dock!ContainerCreate
  <2>5. ASSUME NEW p, Dock!NetworkRemove(p) PROVE FALSE
    <3>1. [containers[id] EXCEPT !.attached = FALSE] \in Dock!Container
      BY <2>0 DEF Dock!Container
    <3> QED BY <2>0, <2>5, <3>1 DEF Dock!NetworkRemove
  <2>6. ASSUME NEW i \in Ids, ContainerExits(i) PROVE FALSE
    <3>1. [containers[i] EXCEPT !.running = FALSE] \in Dock!Container
      BY <2>0, <2>6 DEF ContainerExits, Dock!ContainerExit, Dock!RunningContainers,
                        Dock!Existing, Dock!Container
    <3> QED BY <2>0, <2>6, <3>1 DEF ContainerExits, Dock!ContainerExit
  <2>7. ASSUME NEW i, Dock!ContainerStart(i) PROVE FALSE
    <3>1. [containers[i] EXCEPT !.running = TRUE] \in Dock!Container
      BY <2>0, <2>7 DEF Dock!ContainerStart, Dock!CanStart, Dock!Existing, Dock!Container
    <3> QED BY <2>0, <2>7, <3>1 DEF Dock!ContainerStart
  <2>8. ASSUME NEW p, Dock!NetworkCreate(p) PROVE FALSE
    BY <2>0, <2>8 DEF Dock!NetworkCreate
  <2> QED BY <2>0, <2>2, <2>3, <2>4, <2>5, <2>6, <2>7, <2>8, DockerSteps DEF dvars
<1> HIDE DEF Untouched
<1>2. Spec => [][Untouched]_vars
  BY <1>1, InitOInv, NextOInv, PTL DEF Spec
<1> QED BY <1>2 DEF Untouched, OthersUntouched, Acts

(***************************************************************************)
(* Deleting.  A project is forgotten in the last of many steps, and what   *)
(* the earlier ones have cleared away must not have come back.             *)
(***************************************************************************)
Cleaned(t) ==
    request[t] \in Deletes =>
        /\ pc[t] \in {"list", "purge", "deleteNetwork", "forget"}
              => IngP!RoutesOfProject(ProjectOf(t)) = {}
        /\ pc[t] = "purge" => Dock!ContainerList(ProjectOf(t)) \subseteq pending[t]
        /\ pc[t] \in {"deleteNetwork", "forget"} => Dock!ContainerList(ProjectOf(t)) = {}

\* A project gets routes in its own requests only.
LEMMA NewRoutes ==
    ASSUME SInv, [Next]_vars, NEW p \in Projects,
           NEW d \in IngP!RoutesOfProject(p)', d \notin IngP!RoutesOfProject(p)
    PROVE  \E u \in Threads : /\ request[u] # None
                              /\ ProjectOf(u) = p
                              /\ pc[u] \in {"unrouting", "registering"}
                              /\ d \in ingress[u].domains
<1>1. CInv /\ IngP!TypeOK /\ IngP!ArgumentsSet
  BY DEF SInv, CInv, IngP!TInv
<1>2. PICK u \in Threads : IngP!SaveIngressRoute(u) \/ IngP!RemoveIngressRoute(u)
  <2>1. ASSUME UNCHANGED routes PROVE FALSE
    BY <2>1 DEF IngP!RoutesOfProject
  <2>2. ASSUME NEW t \in Threads, RegisterRoute(t) \/ RemoveUnusedRoutes(t) PROVE UNCHANGED routes
    BY <2>2 DEF RegisterRoute, RemoveUnusedRoutes, Ing!RegisterRoute, Ing!RemoveUnusedRoutes
  <2>3. ASSUME NEW t \in Threads, IngP!Return(t) PROVE UNCHANGED routes
    BY <2>3 DEF IngP!Return
  <2>4. ASSUME NEW t \in Threads, IngP!Step(t)
        PROVE  IngP!SaveIngressRoute(t) \/ IngP!RemoveIngressRoute(t) \/ UNCHANGED routes
    BY <2>4 DEF IngP!Step, IngP!MatchDomain, IngP!Certify, IngP!RoutesRemoved,
                IngP!DatabaseError
  <2>5. IngP!Crash \/ UNCHANGED ivars => UNCHANGED routes
    BY DEF IngP!Crash, ivars
  <2> QED BY <2>1, <2>2, <2>3, <2>4, <2>5, IngSteps
<1>3. CASE IngP!RemoveIngressRoute(u)
  BY <1>1, <1>3 DEF IngP!RemoveIngressRoute, IngP!RoutesOfProject, IngP!TypeOK
<1>4. CASE IngP!SaveIngressRoute(u)
  <2>1. /\ ipc[u] = "match" /\ ingress[u] \in Ingresses
        /\ ingress[u].project = p /\ d \in ingress[u].domains
    BY <1>1, <1>4 DEF IngP!SaveIngressRoute, IngP!RoutesOfProject, IngP!ArgumentsSet
  <2>2. pc[u] \in {"unrouting", "registering"} /\ ProjectOf(u) = p
    BY <2>1, ConstantsAssumption DEF SInv, Serves
  <2>3. request[u] # None
    BY <1>1, <2>2, Configurations DEF CInv, RequestFits, ApplyLabels, CleanLabels
  <2> QED BY <2>1, <2>2, <2>3
<1> QED BY <1>2, <1>3, <1>4

\* A project gets running containers in its own requests only.
LEMMA NewlyRunning ==
    ASSUME OInv, [Next]_vars, NEW p \in Projects,
           NEW id \in Dock!ContainerList(p)', id \notin Dock!ContainerList(p)
    PROVE  \E u \in Threads : /\ request[u] # None
                              /\ ProjectOf(u) = p
                              /\ StartContainer(u) /\ pc[u] = "start"
                              /\ id = target[u]
<1>0. /\ containers \in [Ids -> Dock!Container \cup {Gone}]
      /\ Gone \notin Dock!Container
      /\ id \in Ids /\ containers'[id] # Gone
      /\ containers'[id].running /\ containers'[id].project = p
      /\ ~(containers[id] # Gone /\ containers[id].running /\ containers[id].project = p)
  BY ConstantsAssumption
     DEF OInv, CInv, Dock!TypeOK, Dock!ContainerList, Dock!RunningContainers, Dock!Existing
<1>1. ASSUME NEW t \in Threads, StartContainer(t), Dock!ContainerStart(target[t])
      PROVE  /\ request[t] # None /\ ProjectOf(t) = p
             /\ StartContainer(t) /\ pc[t] = "start" /\ id = target[t]
  <2>1. pc[t] = "start" /\ request[t] \in Applies /\ request[t] # None
    BY <1>1, Configurations DEF StartContainer, At, OInv, CInv, RequestFits, ApplyLabels
  <2>2. target[t] \in Dock!Existing /\ id = target[t]
    BY <1>0, <1>1 DEF Dock!ContainerStart, Dock!CanStart
  <2>3. containers'[id].project = containers[id].project
    BY <1>0, <1>1, <2>2 DEF Dock!ContainerStart, Dock!Existing, Dock!Container
  <2> QED BY <1>0, <1>1, <2>1, <2>2, <2>3 DEF OInv, Remembers
<1>2. ASSUME NEW i, Dock!ContainerRemove(i) PROVE FALSE
  BY <1>0, <1>2 DEF Dock!ContainerRemove
<1>3. ASSUME NEW t \in Threads, RemoveUnusedContainer(t) PROVE FALSE
  <2>1. (\E i \in pending[t] : Dock!ContainerRemove(i)) \/ UNCHANGED dvars
    BY <1>3 DEF RemoveUnusedContainer
  <2> QED BY <1>0, <1>2, <2>1 DEF dvars
<1>4. ASSUME NEW t \in Threads, CreateContainer(t) PROVE FALSE
  <2>1. PICK i \in Ids, port \in Ports \cup {NoPort} :
           Dock!ContainerCreate(i, NewContainer(t, port))
    BY <1>4 DEF CreateContainer
  <2> QED BY <1>0, <2>1 DEF Dock!ContainerCreate, NewContainer
<1>5. ASSUME NEW q, Dock!NetworkRemove(q) PROVE FALSE
  <2>1. \/ containers'[id] = containers[id]
        \/ /\ containers[id] \in Dock!Container
           /\ containers'[id] = [containers[id] EXCEPT !.attached = FALSE]
    BY <1>0, <1>5 DEF Dock!NetworkRemove, Dock!Existing
  <2> QED BY <1>0, <2>1 DEF Dock!Container
<1>6. ASSUME NEW i \in Ids, ContainerExits(i) PROVE FALSE
  <2>1. /\ containers[i] \in Dock!Container
        /\ containers' = [containers EXCEPT ![i].running = FALSE]
    BY <1>0, <1>6 DEF ContainerExits, Dock!ContainerExit, Dock!RunningContainers, Dock!Existing
  <2> QED BY <1>0, <2>1 DEF Dock!Container
<1>7. ASSUME NEW q, Dock!NetworkCreate(q) PROVE FALSE
  BY <1>0, <1>7 DEF Dock!NetworkCreate
<1>8. ~UNCHANGED dvars
  BY <1>0 DEF dvars
<1> QED BY <1>1, <1>2, <1>3, <1>4, <1>5, <1>6, <1>7, <1>8, DockerSteps

\* How a thread comes to a label, or stays at it, where something is cleared.
LEMMA CleaningSteps ==
    ASSUME CInv, [Next]_vars, NEW t \in Threads,
           pc'[t] \in {"list", "purge", "deleteNetwork", "forget"}
    PROVE  /\ request'[t] = request[t]
           /\ \/ pc'[t] = pc[t] /\ pending'[t] = pending[t]
              \/ pc'[t] = "list" /\ UnusedRoutesRemoved(t) /\ ipc[t] = "removed"
              \/ pc'[t] = "purge" /\ ListContainers(t)
              \/ pc'[t] = "purge" /\ RemoveUnusedContainer(t)
              \/ pc'[t] = "deleteNetwork" /\ UnusedContainersRemoved(t)
              \/ pc'[t] = "forget" /\ pc[t] = "deleteNetwork"
<1> DEFINE Goal == /\ request'[t] = request[t]
                   /\ \/ pc'[t] = pc[t] /\ pending'[t] = pending[t]
                      \/ pc'[t] = "list" /\ UnusedRoutesRemoved(t) /\ ipc[t] = "removed"
                      \/ pc'[t] = "purge" /\ ListContainers(t)
                      \/ pc'[t] = "purge" /\ RemoveUnusedContainer(t)
                      \/ pc'[t] = "deleteNetwork" /\ UnusedContainersRemoved(t)
                      \/ pc'[t] = "forget" /\ pc[t] = "deleteNetwork"
<1> USE DEF At, Goto, locals
<1>0. LocalsOK
  BY DEF CInv
<1>1. ASSUME NEW u \in Threads, Client(u) PROVE Goal
  BY <1>0, <1>1 DEF Client, Apply, Delete, LocalsOK
<1>2. ASSUME NEW u \in Threads, Reply(u) PROVE Goal
  BY <1>0, <1>2 DEF Reply, LocalsOK
<1>3. ASSUME NEW u \in Threads, IngressStep(u) \/ RouteWriteFails(u) PROVE Goal
  BY <1>3 DEF IngressStep, RouteWriteFails
<1>4. ASSUME NEW u \in Threads, ApplyStep(u) PROVE Goal
  <2>1. UNCHANGED <<request, pending>>
    BY <1>4 DEF ApplyStep, InspectNetwork, CreateNetwork, FindContainer, RemoveContainer,
                CreateContainer, CreateRefused, StartContainer, RegisterRoute, RouteRegistered,
                SaveProject
  <2>2. \/ UNCHANGED pc
        \/ \E label \in {"createNetwork", "unroute", "create", "register", "start", "replace",
                         "failed", "registering", "save", "find", "applied"} :
              pc' = [pc EXCEPT ![u] = label]
    BY <1>4 DEF ApplyStep, InspectNetwork, CreateNetwork, FindContainer, RemoveContainer,
                CreateContainer, CreateRefused, StartContainer, RegisterRoute, RouteRegistered,
                SaveProject
  <2> QED BY <1>0, <2>1, <2>2 DEF LocalsOK
<1>5. ASSUME NEW u \in Threads, RemoveUnusedRoutes(u) PROVE Goal
  BY <1>0, <1>5 DEF RemoveUnusedRoutes, LocalsOK
<1>6. ASSUME NEW u \in Threads, UnusedRoutesRemoved(u) PROVE Goal
  BY <1>0, <1>6 DEF UnusedRoutesRemoved, LocalsOK
<1>7. ASSUME NEW u \in Threads, ListContainers(u) PROVE Goal
  BY <1>0, <1>7 DEF ListContainers, LocalsOK
<1>8. ASSUME NEW u \in Threads, RemoveUnusedContainer(u) PROVE Goal
  <2>1. /\ UNCHANGED request
        /\ pc' = pc \/ pc' = [pc EXCEPT ![u] = "failed"]
        /\ pc[u] = "purge"
        /\ \A v \in Threads \ {u} : pending'[v] = pending[v]
    BY <1>0, <1>8 DEF RemoveUnusedContainer, LocalsOK
  <2> QED BY <1>0, <1>8, <2>1 DEF LocalsOK
<1>9. ASSUME NEW u \in Threads, UnusedContainersRemoved(u) PROVE Goal
  BY <1>0, <1>9 DEF UnusedContainersRemoved, LocalsOK
<1>10. ASSUME NEW u \in Threads, DeleteNetwork(u) \/ RemoveProject(u) PROVE Goal
  BY <1>0, <1>10 DEF DeleteNetwork, RemoveProject, LocalsOK
<1>11. ASSUME NEW u \in Threads, ErrorIgnored(u) \/ CallFails(u) PROVE Goal
  <2>1. CASE ErrorIgnored(u)
    BY <1>0, <2>1 DEF ErrorIgnored, LocalsOK
  <2>2. CASE CallFails(u)
    <3>1. UNCHANGED <<request, pending>> /\ pc' = [pc EXCEPT ![u] = "failed"]
      BY <2>2 DEF CallFails
    <3> QED BY <1>0, <3>1 DEF LocalsOK
  <2> QED BY <1>11, <2>1, <2>2
<1>12. ASSUME NEW id \in Ids, ContainerExits(id) PROVE Goal
  BY <1>12 DEF ContainerExits
<1>13. ASSUME Crash PROVE Goal
  BY <1>13 DEF Crash
<1>14. ASSUME UNCHANGED vars PROVE Goal
  BY <1>14 DEF vars
<1> HIDE DEF Goal
<1>15. ASSUME NEW u \in Threads, Step(u) PROVE Goal
  BY <1>2, <1>3, <1>4, <1>5, <1>6, <1>7, <1>8, <1>9, <1>10, <1>15 DEF Step, CleanStep
<1>16. ASSUME Fault PROVE Goal
  <2>1. ASSUME NEW u \in Threads, ErrorIgnored(u) \/ CallFails(u) \/ RouteWriteFails(u) PROVE Goal
    BY <1>3, <1>11, <2>1
  <2> QED BY <1>12, <1>13, <1>16, <2>1 DEF Fault
<1>17. Goal
  BY <1>1, <1>14, <1>15, <1>16 DEF Next
<1> QED BY <1>17 DEF Goal

FInv == SInv /\ OInv /\ Exclusive /\ \A t \in Threads : Cleaned(t)

\* No deletion is under way at first.
LEMMA InitFInv == Init => FInv
BY InitSInv, InitOInv, InitExclusive DEF Init, FInv, Cleaned

\* Nobody else works for the project of a request.
LEMMA Alone ==
    ASSUME Exclusive, NEW t \in Threads, NEW u \in Threads,
           request[t] # None, request[u] # None, ProjectOf(u) = ProjectOf(t)
    PROVE  u = t
BY DEF Exclusive

\* Every step of orderly clients keeps what deletions have cleared away.
LEMMA NextFInv ==
    ASSUME NamesDetermineProjects
    PROVE  FInv /\ IngP!RemovalComplete /\ [OrderlyNext]_vars => FInv'
<1> SUFFICES ASSUME FInv, IngP!RemovalComplete, [OrderlyNext]_vars,
                    NEW t \in Threads, request'[t] \in Deletes,
                    pc'[t] \in {"list", "purge", "deleteNetwork", "forget"}
             PROVE  Cleaned(t)'
  BY NextSInv, NextOInv, NextExclusive, OrderlyIsNext DEF FInv, SInv, Cleaned
<1>0. SInv /\ OInv /\ CInv /\ Exclusive /\ Cleaned(t) /\ [Next]_vars
  BY OrderlyIsNext DEF FInv, SInv
<1>1. /\ request'[t] = request[t] /\ request[t] \in Deletes /\ request[t] # None
      /\ ProjectOf(t) \in Projects
      /\ WantedNames(t) = {} /\ WantedDomains(t) = {} /\ ~IsApply(t)
  BY <1>0, CleaningSteps, Deletions DEF ProjectOf, WantedNames, WantedDomains, IsApply
<1>p. PICK p \in Projects : p = ProjectOf(t) /\ p = ProjectOf(t)'
  BY <1>1 DEF ProjectOf
<1>2. IngP!RoutesOfProject(p)' = {}
  <2>1. IngP!RoutesOfProject(p) = {} /\ pc[t] \notin {"unrouting", "registering"}
        => IngP!RoutesOfProject(p)' = {}
    BY <1>0, <1>1, <1>p, NewRoutes, Alone
  <2>2. CASE pc[t] \in {"list", "purge", "deleteNetwork", "forget"}
    BY <1>0, <1>1, <1>p, <2>1, <2>2 DEF Cleaned
  <2>3. CASE UnusedRoutesRemoved(t) /\ ipc[t] = "removed"
    <3>1. pc[t] = "unrouting" /\ UNCHANGED routes
      BY <2>3 DEF UnusedRoutesRemoved, At, Ing!Return
    <3>2. project[t] = p /\ excluded[t] = {}
      BY <1>0, <1>1, <1>p, <3>1 DEF SInv, Serves
    <3>3. IngP!RoutesOfProject(p) = {}
      BY <2>3, <3>2 DEF IngP!RemovalComplete
    <3> QED BY <3>1, <3>3 DEF IngP!RoutesOfProject
  <2> QED BY <1>0, <2>2, <2>3, CleaningSteps
          DEF ListContainers, RemoveUnusedContainer, UnusedContainersRemoved, At
<1>3. pc[t] # "start" => Dock!ContainerList(p)' \subseteq Dock!ContainerList(p)
  BY <1>0, <1>1, <1>p, NewlyRunning, Alone
<1>4. ASSUME pc'[t] = "purge" PROVE Dock!ContainerList(p)' \subseteq pending'[t]
  <2>1. CASE pc[t] = "purge" /\ pending'[t] = pending[t]
    BY <1>0, <1>1, <1>p, <1>3, <2>1 DEF Cleaned
  <2>2. CASE ListContainers(t)
    <3>1. /\ pending'[t] = Dock!ContainerList(p)
          /\ pc[t] # "start"
      BY <1>0, <1>1, <1>p, <2>2 DEF ListContainers, At, Unused, CInv, LocalsOK
    <3> QED BY <1>3, <3>1
  <2>3. CASE RemoveUnusedContainer(t)
    <3>1. PICK id \in pending[t] :
             /\ pending'[t] = pending[t] \ {id}
             /\ Dock!ContainerRemove(id) \/ pc'[t] = "failed"
      BY <1>0, <2>3 DEF RemoveUnusedContainer, Goto, CInv, LocalsOK
    <3>2. containers'[id] = Gone /\ pc[t] = "purge"
      BY <1>0, <1>4, <2>3, <3>1
         DEF RemoveUnusedContainer, At, Dock!ContainerRemove, Dock!Existing, CInv, Dock!TypeOK
    <3>3. id \notin Dock!ContainerList(p)'
      BY <3>2 DEF Dock!ContainerList, Dock!RunningContainers, Dock!Existing
    <3> QED BY <1>0, <1>1, <1>p, <1>3, <3>1, <3>2, <3>3 DEF Cleaned
  <2> QED BY <1>0, <1>4, <2>1, <2>2, <2>3, CleaningSteps
<1>5. ASSUME pc'[t] \in {"deleteNetwork", "forget"} PROVE Dock!ContainerList(p)' = {}
  <2>1. CASE pc[t] \in {"deleteNetwork", "forget"}
    BY <1>0, <1>1, <1>p, <1>3, <2>1 DEF Cleaned
  <2>2. CASE UnusedContainersRemoved(t)
    BY <1>0, <1>1, <1>p, <1>3, <2>2 DEF UnusedContainersRemoved, At, Cleaned
  <2> QED BY <1>0, <1>5, <2>1, <2>2, CleaningSteps
<1> QED BY <1>p, <1>2, <1>4, <1>5
        DEF Cleaned, IngP!RoutesOfProject, Dock!ContainerList, Dock!RunningContainers,
            Dock!Existing

\* For orderly clients, a project leaves the database only when it has no route
\* and no running container any more, through any failures and crashes.
THEOREM NotForgottenEarly ==
    ASSUME NamesDetermineProjects PROVE OrderlySpec => ForgottenWhenClean
<1> DEFINE Clean == \A p \in Projects :
                       DoesProjectExist(p) /\ ~DoesProjectExist(p)'
                          => Ing!RoutesOfProject(p) = {} /\ Dock!ContainerList(p) = {}
<1>1. FInv /\ [Next]_vars => [Clean]_vars
  <2> SUFFICES ASSUME FInv, [Next]_vars, NEW p \in Projects,
                      saved[p] # NotSaved, saved'[p] = NotSaved
               PROVE  Ing!RoutesOfProject(p) = {} /\ Dock!ContainerList(p) = {}
    BY DEF DoesProjectExist
  <2>0. CInv /\ LocalsOK
    BY DEF FInv, SInv, CInv
  <2>1. ASSUME NEW t \in Threads, SaveProject(t) PROVE FALSE
    <3>1. request[t] \in Applies
      BY <2>0, <2>1 DEF SaveProject, At, CInv, RequestFits, ApplyLabels
    <3>2. request[t].services # NotSaved
      BY <3>1, Configurations
    <3>3. saved' = [saved EXCEPT ![ProjectOf(t)] = request[t].services]
      BY <2>1 DEF SaveProject
    <3> QED BY <2>0, <3>2, <3>3 DEF LocalsOK
  <2>2. ASSUME NEW t \in Threads, RemoveProject(t)
        PROVE  Ing!RoutesOfProject(p) = {} /\ Dock!ContainerList(p) = {}
    <3>1. pc[t] = "forget" /\ request[t] \in Deletes
      BY <2>0, <2>2 DEF RemoveProject, At, CInv, RequestFits, DeleteLabels
    <3>2. p = ProjectOf(t)
      BY <2>0, <2>2 DEF RemoveProject, LocalsOK
    <3>3. Cleaned(t)
      BY DEF FInv
    <3> QED BY <3>1, <3>2, <3>3 DEF Cleaned, Ing!RoutesOfProject, IngP!RoutesOfProject
  <2>3. ~UNCHANGED saved
    OBVIOUS
  <2>4. ASSUME NEW t \in Threads, Step(t) \/ Client(t) PROVE SaveProject(t) \/ RemoveProject(t)
    BY <2>3, <2>4
       DEF Step, Client, Apply, Delete, IngressStep, ApplyStep, CleanStep, InspectNetwork,
           CreateNetwork, FindContainer, RemoveContainer, CreateContainer, CreateRefused,
           StartContainer, RegisterRoute, RouteRegistered, RemoveUnusedRoutes,
           UnusedRoutesRemoved, ListContainers, RemoveUnusedContainer, UnusedContainersRemoved,
           DeleteNetwork, Reply
  <2>5. ~Fault /\ ~UNCHANGED vars
    BY <2>3 DEF Fault, ErrorIgnored, CallFails, RouteWriteFails, ContainerExits, Crash, vars
  <2> QED BY <2>1, <2>2, <2>4, <2>5 DEF Next
<1> HIDE DEF Clean
<1>2. OrderlySpec => []IngP!RemovalComplete
  <2>1. IngP!OrderlySpec => []IngP!RemovalComplete
    BY IngConstants, IngP!CompleteRemoval DEF IngP!IngressesAssumption
  <2> QED BY <2>1, CallsIngress
<1>3. [OrderlyNext]_vars => [Next]_vars
  BY OrderlyIsNext
<1>4. OrderlySpec => [][Clean]_vars
  BY <1>1, <1>2, <1>3, InitFInv, NextFInv, PTL DEF OrderlySpec
<1> QED BY <1>4 DEF Clean, ForgottenWhenClean
=============================================================================
