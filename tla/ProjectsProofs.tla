--------------------------- MODULE ProjectsProofs ---------------------------
(***************************************************************************)
(* The container manager implements Projects, for any number of threads,   *)
(* projects, services and mishaps, under the assumptions of Deployment.    *)
(*                                                                         *)
(* A step of a request for project p is a step of Work(p) until the last   *)
(* one, which is Fail(p) or Settle(p).  That Work(p) leaves every other    *)
(* project alone comes from what threads know of routes and containers;    *)
(* that Settle(p) finds the services in place, from Deployment; that it    *)
(* finds nothing left, from what deletions have cleared away.              *)
(***************************************************************************)
EXTENDS DeploymentProofs

\* A thread without a request does nothing.
Busy == \A t \in Threads : request[t] = None => pc[t] = "idle"

PInv == DInv /\ Busy /\ \A t \in Threads : Cleaned(t)

\* A step of the request that thread t serves, but for its beginning and its
\* answer
Own(t) ==
    \/ IngressStep(t) \/ ApplyStep(t) \/ CleanStep(t)
    \/ ErrorIgnored(t) \/ CallFails(t) \/ RouteWriteFails(t)

LEMMA StepsOf ==
    ASSUME [OrderlyNext]_vars
    PROVE  \/ \E t \in Threads : OrderlyClient(t) \/ Own(t) \/ Reply(t)
           \/ \E id \in Ids : ContainerExits(id)
           \/ Crash
           \/ UNCHANGED vars
BY DEF OrderlyNext, Step, Fault, Own

(***************************************************************************)
(* The steps of a request                                                  *)
(***************************************************************************)

\* Only a thread with a request has a step to take, and the step moves no
\* other thread.
LEMMA OwnStep ==
    ASSUME SInv, Busy, NEW t \in Threads, Own(t)
    PROVE  /\ request' = request
           /\ request[t] # None
           /\ pc[t] \notin Goals
           /\ \A u \in Threads : u # t => pc'[u] = pc[u]
<1>0. LocalsOK /\ Serves(t)
  BY DEF SInv, CInv
<1>1. request' = request /\ \A u \in Threads : u # t => pc'[u] = pc[u]
  <2> USE <1>0 DEF LocalsOK, Goto, locals
  <2>1. CASE IngressStep(t) \/ RouteWriteFails(t)
    BY <2>1 DEF IngressStep, RouteWriteFails
  <2>2. CASE ApplyStep(t)
    BY <2>2 DEF ApplyStep, InspectNetwork, CreateNetwork, FindContainer, RemoveContainer,
                CreateContainer, CreateRefused, StartContainer, RegisterRoute,
                RouteRegistered, SaveProject
  <2>3. CASE CleanStep(t)
    BY <2>3 DEF CleanStep, RemoveUnusedRoutes, UnusedRoutesRemoved, ListContainers,
                RemoveUnusedContainer, UnusedContainersRemoved, DeleteNetwork, RemoveProject
  <2>4. CASE ErrorIgnored(t) \/ CallFails(t)
    BY <2>4 DEF ErrorIgnored, CallFails
  <2> QED BY <2>1, <2>2, <2>3, <2>4 DEF Own
<1>2. pc[t] \notin Goals \cup {"idle"}
  <2>1. CASE IngressStep(t) \/ RouteWriteFails(t)
    <3>1. ipc[t] # "idle"
      BY <2>1 DEF IngressStep, RouteWriteFails, Ing!MatchDomain, Ing!SaveIngressRoute,
                  Ing!Certify, Ing!RemoveIngressRoute, Ing!RoutesRemoved, Ing!DatabaseError
    <3> QED BY <1>0, <3>1 DEF Serves, Goals
  <2>2. CASE ApplyStep(t)
    BY <2>2 DEF ApplyStep, InspectNetwork, CreateNetwork, FindContainer, RemoveContainer,
                CreateContainer, CreateRefused, StartContainer, RegisterRoute,
                RouteRegistered, SaveProject, At, Goals
  <2>3. CASE CleanStep(t)
    BY <2>3 DEF CleanStep, RemoveUnusedRoutes, UnusedRoutesRemoved, ListContainers,
                RemoveUnusedContainer, UnusedContainersRemoved, DeleteNetwork, RemoveProject,
                At, Goals
  <2>4. CASE ErrorIgnored(t) \/ CallFails(t)
    BY <2>4 DEF ErrorIgnored, CallFails, At, Goals
  <2> QED BY <2>1, <2>2, <2>3, <2>4 DEF Own
<1> QED BY <1>1, <1>2 DEF Busy

\* The last step of a request touches neither routes nor containers, and no
\* other step writes what is remembered.
LEMMA OwnEnd ==
    ASSUME SInv, Busy, NEW t \in Threads, Own(t)
    PROVE  /\ pc'[t] \notin Goals => UNCHANGED saved
           /\ pc'[t] \in Goals =>
                 /\ UNCHANGED <<routes, containers>>
                 /\ SaveProject(t) \/ RemoveProject(t) \/ UNCHANGED saved
<1>0. LocalsOK /\ pc[t] \notin Goals
  BY OwnStep DEF SInv, CInv
<1> USE <1>0 DEF LocalsOK, Goto, At, Goals, ivars, dvars
<1>1. CASE IngressStep(t) \/ RouteWriteFails(t)
  BY <1>1 DEF IngressStep, RouteWriteFails
<1>2. CASE CleanStep(t)
  <2>1. CASE UnusedRoutesRemoved(t)
    BY <2>1 DEF UnusedRoutesRemoved, Ing!Return
  <2>2. CASE RemoveUnusedContainer(t)
    BY <2>2 DEF RemoveUnusedContainer
  <2>3. CASE DeleteNetwork(t)
    BY <2>3 DEF DeleteNetwork
  <2>4. CASE RemoveProject(t)
    BY <2>4 DEF RemoveProject
  <2>5. CASE RemoveUnusedRoutes(t) \/ ListContainers(t) \/ UnusedContainersRemoved(t)
    BY <2>5 DEF RemoveUnusedRoutes, ListContainers, UnusedContainersRemoved
  <2> QED BY <1>2, <2>1, <2>2, <2>3, <2>4, <2>5 DEF CleanStep
<1>3. CASE ApplyStep(t)
  <2>1. CASE RouteRegistered(t)
    BY <2>1 DEF RouteRegistered, Ing!Return
  <2>2. CASE CreateContainer(t) \/ FindContainer(t)
    BY <2>2 DEF CreateContainer, FindContainer
  <2>3. CASE RemoveContainer(t) \/ StartContainer(t) \/ CreateNetwork(t)
    BY <2>3 DEF RemoveContainer, StartContainer, CreateNetwork
  <2>4. CASE SaveProject(t)
    BY <2>4 DEF SaveProject
  <2>5. CASE InspectNetwork(t) \/ CreateRefused(t) \/ RegisterRoute(t)
    BY <2>5 DEF InspectNetwork, CreateRefused, RegisterRoute
  <2> QED BY <1>3, <2>1, <2>2, <2>3, <2>4, <2>5 DEF ApplyStep
<1>4. CASE ErrorIgnored(t) \/ CallFails(t)
  BY <1>4 DEF ErrorIgnored, CallFails
<1> QED BY <1>1, <1>2, <1>3, <1>4 DEF Own

\* Requests come and go with their threads.
LEMMA NextBusy == SInv /\ Busy /\ [OrderlyNext]_vars => Busy'
<1> SUFFICES ASSUME SInv, Busy, [OrderlyNext]_vars, NEW u \in Threads, request'[u] = None
             PROVE  pc'[u] = "idle"
  BY DEF Busy
<1>0. LocalsOK
  BY DEF SInv, CInv
<1> USE <1>0 DEF LocalsOK, Busy, Goto
<1>1. ASSUME NEW t \in Threads, OrderlyClient(t) PROVE pc'[u] = "idle"
  <2>1. ASSUME NEW config \in Applies, Apply(t, config) PROVE pc'[u] = "idle"
    BY <2>1, Configurations DEF Apply
  <2>2. ASSUME NEW p \in Projects, Delete(t, p) PROVE pc'[u] = "idle"
    <3>1. [project |-> p, services |-> <<>>] \in Deletes
      BY DEF Deletes
    <3> QED BY <2>2, <3>1, ConstantsAssumption DEF Delete
  <2> QED BY <1>1, <2>1, <2>2 DEF OrderlyClient
<1>2. ASSUME NEW t \in Threads, Own(t) PROVE pc'[u] = "idle"
  BY <1>2, OwnStep
<1>3. ASSUME NEW t \in Threads, Reply(t) PROVE pc'[u] = "idle"
  BY <1>3 DEF Reply
<1>4. ASSUME NEW id \in Ids, ContainerExits(id) PROVE pc'[u] = "idle"
  BY <1>4 DEF ContainerExits
<1>5. CASE Crash
  BY <1>5 DEF Crash
<1>6. CASE UNCHANGED vars
  BY <1>6 DEF vars
<1> QED BY <1>1, <1>2, <1>3, <1>4, <1>5, <1>6, StepsOf

(***************************************************************************)
(* The other projects                                                      *)
(***************************************************************************)

\* Routes are written by two of the steps of the ingress manager.
LEMMA RouteWriters ==
    ASSUME NEW t \in Threads, Own(t), routes' # routes
    PROVE  Ing!SaveIngressRoute(t) \/ Ing!RemoveIngressRoute(t)
<1>1. CASE IngressStep(t) \/ RouteWriteFails(t)
  BY <1>1 DEF IngressStep, RouteWriteFails, Ing!MatchDomain, Ing!Certify, Ing!RoutesRemoved,
              Ing!DatabaseError
<1>2. CASE ApplyStep(t)
  BY <1>2 DEF ApplyStep, InspectNetwork, CreateNetwork, FindContainer, RemoveContainer,
              CreateContainer, CreateRefused, StartContainer, RegisterRoute,
              RouteRegistered, SaveProject, ivars, Ing!RegisterRoute, Ing!Return
<1>3. CASE CleanStep(t)
  BY <1>3 DEF CleanStep, RemoveUnusedRoutes, UnusedRoutesRemoved, ListContainers,
              RemoveUnusedContainer, UnusedContainersRemoved, DeleteNetwork, RemoveProject,
              ivars, Ing!RemoveUnusedRoutes, Ing!Return
<1>4. CASE ErrorIgnored(t) \/ CallFails(t)
  BY <1>4 DEF ErrorIgnored, CallFails, ivars
<1> QED BY <1>1, <1>2, <1>3, <1>4 DEF Own

\* A request changes routes of its own project, or free domains.
LEMMA RoutesElsewhere ==
    ASSUME Base, Busy, NEW t \in Threads, Own(t), NEW d \in Domains, routes'[d] # routes[d]
    PROVE  /\ routes[d] = NoRoute \/ routes[d].project = ProjectOf(t)
           /\ routes'[d] = NoRoute \/ routes'[d].project = ProjectOf(t)
<1>0. /\ IngP!TypeOK /\ IngP!ArgumentsSet /\ IngP!Matched(t) /\ IngP!Removing(t)
      /\ Serves(t)
  BY DEF Base, SInv, IngP!OInv, IngP!IInv, IngP!TInv
<1>1. Ing!SaveIngressRoute(t) \/ Ing!RemoveIngressRoute(t)
  BY RouteWriters
<1>2. ASSUME Ing!SaveIngressRoute(t)
      PROVE  /\ routes[d] = NoRoute \/ routes[d].project = ProjectOf(t)
             /\ routes'[d].project = ProjectOf(t)
  <2>1. /\ ipc[t] = "match" /\ todo[t] = {} /\ ingress[t] \in Ingresses
        /\ d \in ingress[t].domains /\ routes'[d] = ingress[t]
    BY <1>0, <1>2 DEF Ing!SaveIngressRoute, IngP!ArgumentsSet
  <2>2. ingress[t].project = ProjectOf(t)
    BY <1>0, <2>1, ConstantsAssumption DEF Serves
  <2> QED BY <1>0, <2>1, <2>2 DEF IngP!Matched, IngP!SameOwner
<1>3. ASSUME Ing!RemoveIngressRoute(t)
      PROVE  /\ routes[d] = NoRoute \/ routes[d].project = ProjectOf(t)
             /\ routes'[d] = NoRoute
  <2>1. ipc[t] = "remove" /\ d \in todo[t] /\ routes'[d] = NoRoute /\ project[t] \in Projects
    BY <1>0, <1>3 DEF Ing!RemoveIngressRoute, IngP!TypeOK, IngP!ArgumentsSet
  <2>2. project[t] = ProjectOf(t)
    BY <1>0, <2>1, ConstantsAssumption DEF Serves
  <2> QED BY <1>0, <2>1, <2>2 DEF IngP!Removing
<1> QED BY <1>1, <1>2, <1>3

\* A request creates, starts, disconnects and removes containers of its own
\* project only.
LEMMA ContainersElsewhere ==
    ASSUME OInv, NEW t \in Threads, Own(t), NEW id \in Ids, containers'[id] # containers[id]
    PROVE  /\ id \in Dock!Existing => containers[id].project = ProjectOf(t)
           /\ id \in Dock!Existing' => containers'[id].project = ProjectOf(t)
<1>0. /\ containers \in [Ids -> Dock!Container \cup {Gone}]
      /\ Gone \notin Dock!Container
      /\ Remembers(t)
  BY ConstantsAssumption DEF OInv, CInv, Dock!TypeOK
<1>1. ~UNCHANGED dvars
  BY DEF dvars
<1>2. \/ CreateNetwork(t) \/ RemoveUnusedContainer(t) \/ RemoveContainer(t)
      \/ CreateContainer(t) \/ StartContainer(t) \/ DeleteNetwork(t)
  BY <1>1 DEF Own, IngressStep, RouteWriteFails, ApplyStep, CleanStep, ErrorIgnored, CallFails,
              InspectNetwork, FindContainer, CreateRefused, RegisterRoute, RouteRegistered,
              SaveProject, RemoveUnusedRoutes, UnusedRoutesRemoved, ListContainers,
              UnusedContainersRemoved, RemoveProject
<1> USE <1>0 DEF Dock!Existing
<1>3. CASE CreateNetwork(t)
  BY <1>1, <1>3 DEF CreateNetwork, Dock!NetworkCreate
<1>4. CASE RemoveUnusedContainer(t)
  BY <1>1, <1>4 DEF RemoveUnusedContainer, Dock!ContainerRemove, Remembers
<1>5. CASE RemoveContainer(t)
  BY <1>1, <1>5 DEF RemoveContainer, Dock!ContainerRemove, Remembers
<1>6. CASE CreateContainer(t)
  BY <1>1, <1>6 DEF CreateContainer, Dock!ContainerCreate, NewContainer
<1>7. CASE StartContainer(t)
  <2>1. /\ target[t] \in Dock!Existing
        /\ containers' = [containers EXCEPT ![target[t]].running = TRUE]
    BY <1>1, <1>7 DEF StartContainer, Dock!ContainerStart, Dock!CanStart
  <2>2. id = target[t]
    BY <2>1
  <2>3. containers'[id].project = containers[id].project
    BY <2>1, <2>2 DEF Dock!Container
  <2> QED BY <2>1, <2>2, <2>3 DEF Remembers
<1>8. CASE DeleteNetwork(t)
  <2>1. Dock!NetworkRemove(ProjectOf(t))
    BY <1>1, <1>8 DEF DeleteNetwork
  <2>2. /\ containers[id] # Gone /\ containers[id].project = ProjectOf(t)
        /\ containers'[id] = [containers[id] EXCEPT !.attached = FALSE]
    BY <2>1 DEF Dock!NetworkRemove
  <2>3. containers'[id].project = containers[id].project
    BY <2>2 DEF Dock!Container
  <2> QED BY <2>2, <2>3
<1> QED BY <1>2, <1>3, <1>4, <1>5, <1>6, <1>7, <1>8

\* What there is of a project stays when its routes and running containers do.
LEMMA DeploymentStays ==
    ASSUME NEW p,
           \A d \in Domains :
              \/ routes'[d] = routes[d]
              \/ d \notin Ing!RoutesOfProject(p) /\ d \notin Ing!RoutesOfProject(p)',
           \A id \in Ids :
              \/ containers'[id] = containers[id]
              \/ id \notin Dock!ContainerList(p) /\ id \notin Dock!ContainerList(p)'
    PROVE  DeploymentOf(p)' = DeploymentOf(p)
<1>1. {<<d, routes[d].service>> : d \in Ing!RoutesOfProject(p)}'
         = {<<d, routes[d].service>> : d \in Ing!RoutesOfProject(p)}
  BY DEF Ing!RoutesOfProject
<1>2. \A id : id \in Dock!ContainerList(p)' \/ id \in Dock!ContainerList(p) =>
                 /\ id \in Dock!ContainerList(p)' /\ id \in Dock!ContainerList(p)
                 /\ containers'[id] = containers[id]
  BY DEF Dock!ContainerList, Dock!RunningContainers, Dock!Existing
<1>3. \A sh \in Services \X Hashes :
         (\E id \in Dock!ContainerList(p) : /\ containers[id].name = ContainerName(p, sh[1])
                                            /\ containers[id].hash = sh[2])'
         <=> \E id \in Dock!ContainerList(p) : /\ containers[id].name = ContainerName(p, sh[1])
                                               /\ containers[id].hash = sh[2]
  BY <1>2
<1> QED BY <1>1, <1>3 DEF DeploymentOf

LEMMA Elsewhere ==
    ASSUME Base, Busy, NEW t \in Threads, Own(t), NEW q \in Projects, q # ProjectOf(t)
    PROVE  DeploymentOf(q)' = DeploymentOf(q)
<1>1. \A d \in Domains :
         \/ routes'[d] = routes[d]
         \/ d \notin Ing!RoutesOfProject(q) /\ d \notin Ing!RoutesOfProject(q)'
  BY RoutesElsewhere DEF Ing!RoutesOfProject
<1>2. \A id \in Ids :
         \/ containers'[id] = containers[id]
         \/ id \notin Dock!ContainerList(q) /\ id \notin Dock!ContainerList(q)'
  BY ContainersElsewhere DEF Base, Dock!ContainerList, Dock!RunningContainers
<1> QED BY <1>1, <1>2, DeploymentStays

(***************************************************************************)
(* The phases                                                              *)
(***************************************************************************)

\* The phase of a project is that of the one request for it.
LEMMA PhaseOfServed ==
    ASSUME Busy, Exclusive, NEW t \in Threads, NEW p, request[t] # None, ProjectOf(t) = p
    PROVE  PhaseOf(p) = IF pc[t] \in Goals THEN "done" ELSE "working"
<1>1. ~Unserved(p)
  BY DEF Unserved
<1>2. ASSUME NEW u \in Threads, pc[u] \in Goals, ProjectOf(u) = p PROVE u = t
  BY <1>2, Alone DEF Busy, Goals
<1> QED BY <1>1, <1>2 DEF PhaseOf

LEMMA PhaseAfter ==
    ASSUME Busy', Exclusive', NEW t \in Threads, NEW p, request'[t] # None, ProjectOf(t)' = p
    PROVE  PhaseOf(p)' = IF pc'[t] \in Goals THEN "done" ELSE "working"
<1>1. ~Unserved(p)'
  BY DEF Unserved
<1>2. ASSUME NEW u \in Threads, pc'[u] \in Goals, ProjectOf(u)' = p PROVE u = t
  BY <1>2 DEF Busy, Goals, Exclusive
<1> QED BY <1>1, <1>2 DEF PhaseOf

LEMMA PhaseStays ==
    ASSUME Busy, Busy', NEW p,
           \A u \in Threads :
              \/ request'[u] = request[u] /\ pc'[u] = pc[u]
              \/ /\ request[u] # None => ProjectOf(u) # p
                 /\ request'[u] # None => ProjectOf(u)' # p
    PROVE  PhaseOf(p)' = PhaseOf(p)
<1>1. Unserved(p)' <=> Unserved(p)
  BY DEF Unserved, ProjectOf
<1>2. (\E u \in Threads : pc'[u] \in Goals /\ ProjectOf(u)' = p)
         <=> (\E u \in Threads : pc[u] \in Goals /\ ProjectOf(u) = p)
  BY DEF Busy, Goals, ProjectOf
<1> QED BY <1>1, <1>2 DEF PhaseOf

\* A step of a request moves its project from "working" at most.
LEMMA OwnPhase ==
    ASSUME PInv, PInv', NEW t \in Threads, Own(t), NEW p \in Projects, p = ProjectOf(t)
    PROVE  /\ PhaseOf(p) = "working"
           /\ PhaseOf(p)' = IF pc'[t] \in Goals THEN "done" ELSE "working"
           /\ \A q \in Projects \ {p} : PhaseOf(q)' = PhaseOf(q)
<1>0. /\ SInv /\ Busy /\ Exclusive /\ Busy' /\ Exclusive'
      /\ request' = request /\ request[t] # None /\ pc[t] \notin Goals
      /\ \A u \in Threads : u # t => pc'[u] = pc[u]
  BY OwnStep DEF PInv, DInv, Base
<1>1. PhaseOf(p) = "working"
  BY <1>0, PhaseOfServed
<1>2. PhaseOf(p)' = IF pc'[t] \in Goals THEN "done" ELSE "working"
  BY <1>0, PhaseAfter DEF ProjectOf
<1>3. ASSUME NEW q \in Projects \ {p} PROVE PhaseOf(q)' = PhaseOf(q)
  <2>1. ProjectOf(t)' # q
    BY <1>0 DEF ProjectOf
  <2> QED BY <1>0, <2>1, PhaseStays
<1> QED BY <1>1, <1>2, <1>3

(***************************************************************************)
(* The steps of the container manager are steps of Projects                *)
(***************************************************************************)
Steps == [Promise!Next]_<<saved, [p \in Projects |-> PhaseOf(p)],
                          [p \in Projects |-> DeploymentOf(p)]>>

\* What there is of a project is of the type that Projects expects.
LEMMA DeploymentTyped ==
    ASSUME CInv', NEW p \in Projects
    PROVE  DeploymentOf(p)' \in Promise!Deployment
<1>1. ASSUME NEW d \in Domains, routes'[d] # NoRoute PROVE routes'[d].service \in Services
  BY <1>1, IngConstants
     DEF CInv, IngP!TInv, IngP!TypeOK, IngP!IngressesAssumption, IngP!Ingress
<1>2. {<<d, routes'[d].service>> : d \in Ing!RoutesOfProject(p)'} \subseteq Domains \X Services
  BY <1>1 DEF Ing!RoutesOfProject
<1> QED BY <1>2 DEF DeploymentOf, Promise!Deployment

LEMMA ClientBegins ==
    ASSUME PInv, PInv', NEW t \in Threads, OrderlyClient(t)
    PROVE  Steps
<1>0. LocalsOK /\ Busy /\ Busy' /\ Exclusive'
  BY DEF PInv, DInv, Base, SInv, CInv
<1>1. PICK p \in Projects :
         /\ Unserved(p)
         /\ request'[t] # None /\ request'[t].project = p
         /\ pc[t] = "idle" /\ pc'[t] \notin Goals
         /\ \A u \in Threads : u # t => request'[u] = request[u] /\ pc'[u] = pc[u]
         /\ UNCHANGED <<routes, containers, saved>>
  <2>1. ASSUME NEW config \in Applies, Unserved(config.project), Apply(t, config)
        PROVE  /\ config.project \in Projects
               /\ request'[t] # None /\ request'[t].project = config.project
               /\ pc[t] = "idle" /\ pc'[t] \notin Goals
               /\ \A u \in Threads : u # t => request'[u] = request[u] /\ pc'[u] = pc[u]
               /\ UNCHANGED <<routes, containers, saved>>
    BY <1>0, <2>1, Configurations DEF Apply, At, Goto, Goals, LocalsOK, ivars, dvars
  <2>2. ASSUME NEW p \in Projects, Unserved(p), Delete(t, p)
        PROVE  /\ request'[t] # None /\ request'[t].project = p
               /\ pc[t] = "idle" /\ pc'[t] \notin Goals
               /\ \A u \in Threads : u # t => request'[u] = request[u] /\ pc'[u] = pc[u]
               /\ UNCHANGED <<routes, containers, saved>>
    <3>1. [project |-> p, services |-> <<>>] \in Deletes
      BY DEF Deletes
    <3> QED BY <1>0, <2>2, <3>1, ConstantsAssumption
            DEF Delete, At, Goto, Goals, LocalsOK, ivars, dvars
  <2> QED BY <2>1, <2>2 DEF OrderlyClient
<1>2. request[t] = None
  BY <1>1 DEF PInv, DInv, Base, SInv, CInv, RequestFits
<1>3. PhaseOf(p) = "idle"
  BY <1>1 DEF PhaseOf
<1>4. PhaseOf(p)' = "working"
  BY <1>0, <1>1, PhaseAfter DEF ProjectOf
<1>5. ASSUME NEW q \in Projects, q # p PROVE PhaseOf(q)' = PhaseOf(q)
  BY <1>0, <1>1, <1>2, <1>5, PhaseStays DEF ProjectOf
<1>6. \A q \in Projects : DeploymentOf(q)' = DeploymentOf(q)
  BY <1>1, DeploymentStays
<1>7. Promise!Begin(p)
  BY <1>1, <1>3, <1>4, <1>5, <1>6 DEF Promise!Begin, Promise!Enter
<1> QED BY <1>7 DEF Promise!Next, Steps

LEMMA ReplyEnds ==
    ASSUME PInv, PInv', NEW t \in Threads, Reply(t)
    PROVE  Steps
<1>0. LocalsOK /\ Busy /\ Busy' /\ Exclusive /\ CInv
  BY DEF PInv, DInv, Base, SInv, CInv
<1>1. /\ pc[t] \in Goals /\ request'[t] = None
      /\ \A u \in Threads : u # t => request'[u] = request[u] /\ pc'[u] = pc[u]
      /\ UNCHANGED <<routes, containers, saved>>
  BY <1>0 DEF Reply, Goto, LocalsOK, ivars, dvars
<1>2. request[t] # None
  BY <1>0, <1>1 DEF Busy, Goals
<1>3. PICK p \in Projects : p = ProjectOf(t)
  BY <1>0, <1>2, RequestTypes
<1>4. PhaseOf(p) = "done"
  BY <1>0, <1>1, <1>2, <1>3, PhaseOfServed
<1>5. PhaseOf(p)' = "idle"
  <2>1. ASSUME NEW u \in Threads, request'[u] # None PROVE request'[u].project # p
    <3>1. u # t /\ request[u] # None /\ request'[u] = request[u]
      BY <1>1, <2>1
    <3> QED BY <1>0, <1>2, <1>3, <3>1, Alone DEF ProjectOf
  <2> QED BY <2>1 DEF PhaseOf, Unserved, ProjectOf
<1>6. ASSUME NEW q \in Projects, q # p PROVE PhaseOf(q)' = PhaseOf(q)
  BY <1>0, <1>1, <1>3, <1>6, PhaseStays
<1>7. \A q \in Projects : DeploymentOf(q)' = DeploymentOf(q)
  BY <1>1, DeploymentStays
<1>8. Promise!End(p)
  BY <1>1, <1>4, <1>5, <1>6, <1>7 DEF Promise!End, Promise!Enter
<1> QED BY <1>8 DEF Promise!Next, Steps

\* When services are saved they are what is in place.
LEMMA SavedWanted ==
    ASSUME Assumptions, ~ExitsMidway, PInv,
           NEW t \in Threads, SaveProject(t), NEW p, p = ProjectOf(t)
    PROVE  DeploymentOf(p) = Promise!Wanted(request[t].services)
<1>1. pc[t] = "save" /\ request[t] \in Applies
  BY DEF SaveProject, At, PInv, DInv, Base, SInv, CInv, RequestFits, ApplyLabels
<1>2. /\ p \in Projects
      /\ ToSet(request[t].services) \subseteq Service
  BY <1>1, Configurations DEF ProjectOf
<1> DEFINE W == ToSet(request[t].services)
<1>3. /\ \A s \in W : \E id \in RunsOf(t, s) :
            \A d \in s.domains : RoutedTo(d, t, s, containers[id].port)
      /\ Ing!RoutesOfProject(p) = WantedDomains(t)
      /\ Dock!ContainerList(p) = UNION {RunsOf(t, s) : s \in W}
  BY <1>1, PlacedDeployed DEF PInv, DInv, Deploys, Placed
<1>4. {<<d, routes[d].service>> : d \in Ing!RoutesOfProject(p)} = UNION {s.domains \X {s.name} : s \in W}
  BY <1>3 DEF WantedDomains, RoutedTo
<1>5. {sh \in Services \X Hashes :
          \E id \in Dock!ContainerList(p) : /\ containers[id].name = ContainerName(p, sh[1])
                                            /\ containers[id].hash = sh[2]}
         = {<<s.name, s.hash>> : s \in W}
  <2>1. ASSUME NEW s \in W
        PROVE  /\ <<s.name, s.hash>> \in Services \X Hashes
               /\ \E id \in Dock!ContainerList(p) : /\ containers[id].name = ContainerName(p, s.name)
                                                     /\ containers[id].hash = s.hash
    BY <1>2, <1>3 DEF Service, RunsOf
  <2>2. ASSUME NEW n \in Services, NEW h \in Hashes, NEW id \in Dock!ContainerList(p),
               containers[id].name = ContainerName(p, n), containers[id].hash = h
        PROVE  \E s \in W : n = s.name /\ h = s.hash
    <3>1. PICK s \in W : id \in RunsOf(t, s)
      BY <1>3
    <3>2. ContainerName(p, n) = ContainerName(p, s.name) /\ h = s.hash /\ s.name \in Services
      BY <1>2, <2>2, <3>1 DEF RunsOf, Service
    <3> QED BY <1>2, <3>2 DEF Assumptions, NamesDetermineServices
  <2> QED BY <2>1, <2>2
<1>6. Promise!ToSet(request[t].services) = W
  BY DEF ToSet, Promise!ToSet
<1> HIDE DEF W
<1> QED BY <1>4, <1>5, <1>6 DEF DeploymentOf, Promise!Wanted

\* When a project is forgotten nothing of it is left.
LEMMA ForgottenNothing ==
    ASSUME PInv, NEW t \in Threads, RemoveProject(t), NEW p, p = ProjectOf(t)
    PROVE  DeploymentOf(p) = Promise!Nothing
<1>1. pc[t] = "forget" /\ request[t] \in Deletes
  BY DEF RemoveProject, At, PInv, DInv, Base, SInv, CInv, RequestFits, DeleteLabels
<1>2. Ing!RoutesOfProject(p) = {} /\ Dock!ContainerList(p) = {}
  BY <1>1 DEF PInv, Cleaned, Ing!RoutesOfProject, IngP!RoutesOfProject
<1> QED BY <1>2 DEF DeploymentOf, Promise!Nothing

LEMMA OwnWorks ==
    ASSUME Assumptions, ~ExitsMidway, PInv, PInv', NEW t \in Threads, Own(t)
    PROVE  Steps
<1>0. /\ CInv /\ SInv /\ Busy /\ Base /\ LocalsOK /\ CInv' /\ request[t] # None
  BY OwnStep DEF PInv, DInv, Base, SInv, CInv
<1>1. PICK p \in Projects : p = ProjectOf(t)
  BY <1>0, RequestTypes
<1>2. /\ PhaseOf(p) = "working"
      /\ PhaseOf(p)' = IF pc'[t] \in Goals THEN "done" ELSE "working"
      /\ \A q \in Projects \ {p} : PhaseOf(q)' = PhaseOf(q)
  BY <1>1, OwnPhase
<1>3. ASSUME pc'[t] \notin Goals PROVE Promise!Work(p)
  <2>1. \A q \in Projects : DeploymentOf(q)' \in Promise!Deployment
    BY <1>0, DeploymentTyped
  <2>2. \A q \in Projects \ {p} : DeploymentOf(q)' = DeploymentOf(q)
    BY <1>0, <1>1, Elsewhere
  <2>3. UNCHANGED saved
    BY <1>0, <1>3, OwnEnd
  <2>4. \A q \in Projects : PhaseOf(q)' = PhaseOf(q)
    BY <1>2, <1>3
  <2> QED BY <1>2, <2>1, <2>2, <2>3, <2>4 DEF Promise!Work
<1>4. ASSUME pc'[t] \in Goals PROVE Promise!Fail(p) \/ Promise!Settle(p)
  <2>1. /\ UNCHANGED <<routes, containers>>
        /\ SaveProject(t) \/ RemoveProject(t) \/ UNCHANGED saved
    BY <1>0, <1>4, OwnEnd
  <2>2. \A q \in Projects : DeploymentOf(q)' = DeploymentOf(q)
    BY <2>1, DeploymentStays
  <2>3. Promise!Enter(p, "working", "done")
    BY <1>2, <1>4 DEF Promise!Enter
  <2>4. CASE UNCHANGED saved
    BY <2>2, <2>3, <2>4 DEF Promise!Fail
  <2>5. CASE SaveProject(t)
    <3>1. saved' = [saved EXCEPT ![p] = request[t].services]
      BY <1>1, <2>5 DEF SaveProject
    <3>2. saved'[p] = request[t].services
      BY <1>0, <3>1 DEF LocalsOK
    <3>3. saved'[p] # NotSaved
      BY <2>5, <3>2, <1>0, Configurations
         DEF SaveProject, At, CInv, RequestFits, ApplyLabels
    <3>4. DeploymentOf(p) = Promise!Wanted(saved'[p])
      BY <1>1, <2>5, <3>2, SavedWanted
    <3> QED BY <2>2, <2>3, <3>1, <3>2, <3>3, <3>4 DEF Promise!Settle
  <2>6. CASE RemoveProject(t)
    <3>1. saved' = [saved EXCEPT ![p] = NotSaved]
      BY <1>1, <2>6 DEF RemoveProject
    <3>2. saved'[p] = NotSaved
      BY <1>0, <3>1 DEF LocalsOK
    <3>3. DeploymentOf(p) = Promise!Nothing
      BY <1>1, <2>6, ForgottenNothing
    <3> QED BY <2>2, <2>3, <3>1, <3>2, <3>3 DEF Promise!Settle
  <2> QED BY <2>1, <2>4, <2>5, <2>6
<1> QED BY <1>3, <1>4 DEF Promise!Next, Steps

LEMMA ExitDecays ==
    ASSUME PInv, PInv', NEW id \in Ids, ContainerExits(id)
    PROVE  Steps
<1>0. /\ containers \in [Ids -> Dock!Container \cup {Gone}]
      /\ Gone \notin Dock!Container
      /\ Busy /\ Busy'
  BY ConstantsAssumption DEF PInv, DInv, Base, SInv, CInv, Dock!TypeOK
<1>1. /\ containers[id] \in Dock!Container
      /\ containers' = [containers EXCEPT ![id].running = FALSE]
      /\ UNCHANGED <<routes, saved, pc, request>>
  BY <1>0 DEF ContainerExits, Dock!ContainerExit, Dock!RunningContainers, Dock!Existing, ivars
<1>2. /\ [containers[id] EXCEPT !.running = FALSE] \in Dock!Container
      /\ ~[containers[id] EXCEPT !.running = FALSE].running
  BY <1>1 DEF Dock!Container
<1>3. PICK p \in Projects : p = containers[id].project
  BY <1>1 DEF Dock!Container
<1>4. \A q \in Projects : PhaseOf(q)' = PhaseOf(q)
  BY <1>0, <1>1, PhaseStays
<1>5. ASSUME NEW q \in Projects PROVE Dock!ContainerList(q)' = Dock!ContainerList(q) \ {id}
  BY <1>0, <1>1, <1>2
     DEF Dock!ContainerList, Dock!RunningContainers, Dock!Existing
<1>6. \A i \in Ids \ {id} : containers'[i] = containers[i]
  BY <1>0, <1>1
<1>7. ASSUME NEW q \in Projects, q # p PROVE DeploymentOf(q)' = DeploymentOf(q)
  <2>1. id \notin Dock!ContainerList(q) /\ id \notin Dock!ContainerList(q)'
    BY <1>3, <1>5, <1>7 DEF Dock!ContainerList
  <2>2. \A d \in Domains : routes'[d] = routes[d]
    BY <1>1
  <2> QED BY <1>6, <2>1, <2>2, DeploymentStays
<1>8. DeploymentOf(p)'.running \subseteq DeploymentOf(p).running
  <2>1. \A i \in Dock!ContainerList(p)' : /\ i \in Dock!ContainerList(p)
                                          /\ containers'[i] = containers[i]
    BY <1>5, <1>6 DEF Dock!ContainerList, Dock!RunningContainers, Dock!Existing
  <2> QED BY <2>1 DEF DeploymentOf
<1>9. DeploymentOf(p)' = [DeploymentOf(p) EXCEPT !.running = DeploymentOf(p)'.running]
  <2> DEFINE routed == {<<d, routes[d].service>> : d \in Ing!RoutesOfProject(p)}
  <2>1. routed' = routed
    BY <1>1 DEF Ing!RoutesOfProject
  <2>2. DeploymentOf(p) = [routed |-> routed, running |-> DeploymentOf(p).running]
    BY DEF DeploymentOf
  <2>3. DeploymentOf(p)' = [routed |-> routed, running |-> DeploymentOf(p).running]'
    BY DEF DeploymentOf
  <2> HIDE DEF routed
  <2> QED BY <2>1, <2>2, <2>3
<1>10. Promise!Decay(p)
  BY <1>1, <1>4, <1>7, <1>8, <1>9 DEF Promise!Decay
<1> QED BY <1>10 DEF Promise!Next, Steps

LEMMA CrashCrashes == ASSUME Crash PROVE Steps
<1>1. /\ \A t \in Threads : request'[t] = None
      /\ UNCHANGED <<routes, containers, saved>>
  BY DEF Crash, Ing!Crash, dvars
<1>2. \A q \in Projects : PhaseOf(q)' = "idle"
  BY <1>1 DEF PhaseOf, Unserved
<1>3. \A q \in Projects : DeploymentOf(q)' = DeploymentOf(q)
  BY <1>1, DeploymentStays
<1> QED BY <1>1, <1>2, <1>3 DEF Promise!Crash, Promise!Next, Steps

LEMMA UnchangedStutters == ASSUME Busy, Busy', UNCHANGED vars PROVE Steps
<1>1. UNCHANGED <<routes, containers, saved, pc, request>>
  BY DEF vars, ivars, dvars
<1>2. \A q \in Projects : PhaseOf(q)' = PhaseOf(q)
  BY <1>1, PhaseStays
<1>3. \A q \in Projects : DeploymentOf(q)' = DeploymentOf(q)
  BY <1>1, DeploymentStays
<1> QED BY <1>1, <1>2, <1>3 DEF Steps

LEMMA NextSteps ==
    ASSUME Assumptions, ~ExitsMidway, PInv, PInv', [OrderlyNext]_vars PROVE Steps
BY ClientBegins, ReplyEnds, OwnWorks, ExitDecays, CrashCrashes, UnchangedStutters, StepsOf
   DEF PInv

(***************************************************************************)
(* The theorem                                                             *)
(***************************************************************************)

LEMMA InitPromise == Init => Promise!Init
<1> SUFFICES ASSUME Init PROVE Promise!Init
  OBVIOUS
<1>1. \A p \in Projects : PhaseOf(p) = "idle"
  BY DEF Init, PhaseOf, Unserved
<1>2. \A p \in Projects : DeploymentOf(p) = Promise!Nothing
  BY DEF Init, Ing!Init, Dock!Init, DeploymentOf, Promise!Nothing, Ing!RoutesOfProject,
         Dock!ContainerList, Dock!RunningContainers, Dock!Existing
<1> QED BY <1>1, <1>2 DEF Init, Promise!Init

LEMMA InitPInv == Init => PInv
BY InitDInv, InitFInv DEF Init, PInv, Busy, FInv

LEMMA NextPInv ==
    ASSUME Assumptions PROVE PInv /\ IngP!RemovalComplete /\ [OrderlyNext]_vars => PInv'
<1>1. NamesDetermineProjects
  BY ProjectsDetermined DEF Assumptions
<1>2. PInv => FInv /\ DInv /\ SInv /\ Busy
  BY DEF PInv, DInv, Base, FInv
<1> QED BY <1>1, <1>2, NextDInv, NextFInv, NextBusy DEF PInv, FInv

LEMMA PInvAlways == ASSUME Assumptions PROVE OrderlySpec => []PInv
<1>1. OrderlySpec => []IngP!RemovalComplete
  <2>1. IngP!OrderlySpec => []IngP!RemovalComplete
    BY IngConstants, IngP!CompleteRemoval DEF IngP!IngressesAssumption
  <2> QED BY <2>1, CallsIngress
<1> QED BY <1>1, InitPInv, NextPInv, PTL DEF OrderlySpec

\* For orderly clients the container manager keeps the promise of Projects:
\* a request works for its project and leaves the others alone, what the
\* database remembers of a project is in place whenever it is written, and
\* a project is forgotten when nothing of it is left.
THEOREM Refinement ==
    ASSUME Assumptions, ~ExitsMidway PROVE OrderlySpec => ImplementsProjects
<1>1. OrderlySpec => []PInv
  BY PInvAlways
<1>2. PInv /\ PInv' /\ [OrderlyNext]_vars
         => [Promise!Next]_<<saved, [p \in Projects |-> PhaseOf(p)],
                             [p \in Projects |-> DeploymentOf(p)]>>
  BY NextSteps DEF Steps
<1> QED BY <1>1, <1>2, InitPromise, PTL
        DEF OrderlySpec, ImplementsProjects, Promise!Spec

(***************************************************************************)
(* What is in place stays in place.  A request for a configuration that is *)
(* in place passes through all its steps and finds nothing to change: that *)
(* it removes nothing it wants belongs to the invariant.                   *)
(***************************************************************************)

\* The containers a request is about to remove are none of those it wants.
Spares(t) ==
    pc[t] = "purge" =>
       \A id \in pending[t] \cap Dock!Existing : containers[id].name \notin WantedNames(t)

KInv == PInv /\ \A t \in Threads : Spares(t)

LEMMA InitKInv == Init => KInv
BY InitPInv DEF Init, KInv, Spares

\* The list is made of what is not wanted and becomes shorter.
LEMMA NextKInv ==
    ASSUME Assumptions PROVE KInv /\ IngP!RemovalComplete /\ [OrderlyNext]_vars => KInv'
<1> SUFFICES ASSUME KInv, IngP!RemovalComplete, [OrderlyNext]_vars PROVE KInv'
  OBVIOUS
<1>1. PInv' /\ CInv /\ LocalsOK /\ [Next]_vars
  BY NextPInv, OrderlyIsNext DEF KInv, PInv, DInv, Base, SInv, CInv
<1>2. ASSUME NEW t \in Threads, pc'[t] = "purge" PROVE Spares(t)'
  <2>1. /\ request'[t] = request[t] /\ WantedNames(t)' = WantedNames(t)
        /\ \/ pc[t] = "purge" /\ pending'[t] \subseteq pending[t]
           \/ /\ pending'[t] = Unused(t) /\ UNCHANGED containers
    <3>1. /\ request'[t] = request[t]
          /\ \/ pc'[t] = pc[t] /\ pending'[t] = pending[t]
             \/ ListContainers(t)
             \/ RemoveUnusedContainer(t)
      BY <1>1, <1>2, CleaningSteps
    <3>2. ListContainers(t) => pending'[t] = Unused(t) /\ UNCHANGED containers
      BY <1>1 DEF ListContainers, LocalsOK, dvars
    <3>3. RemoveUnusedContainer(t) => pc[t] = "purge" /\ pending'[t] \subseteq pending[t]
      BY <1>1 DEF RemoveUnusedContainer, LocalsOK, At
    <3> QED BY <1>2, <3>1, <3>2, <3>3 DEF WantedNames, ProjectOf
  <2>2. CASE pc[t] = "purge" /\ pending'[t] \subseteq pending[t]
    <3> SUFFICES ASSUME NEW id \in pending'[t], id \in Dock!Existing'
                 PROVE  containers'[id].name \notin WantedNames(t)
      BY <2>1 DEF Spares
    <3>1. id \in pending[t]
      BY <2>2
    <3>2. id \in Dock!Existing /\ containers'[id].name = containers[id].name
      BY <1>1, <3>1, ContainersKept DEF NewId
    <3> QED BY <2>2, <3>1, <3>2 DEF KInv, Spares
  <2>3. CASE pending'[t] = Unused(t) /\ UNCHANGED containers
    BY <2>1, <2>3 DEF Spares, Unused, Dock!Existing
  <2> QED BY <2>1, <2>2, <2>3
<1> QED BY <1>1, <1>2 DEF KInv, Spares

\* The container is as it was for those who list the project's containers.
Same(id) ==
    /\ containers'[id].name = containers[id].name
    /\ containers'[id].hash = containers[id].hash
    /\ containers'[id].port = containers[id].port

SameRoute(d) ==
    /\ routes[d] # NoRoute /\ routes'[d] # NoRoute
    /\ routes'[d].project = routes[d].project
    /\ routes'[d].service = routes[d].service
    /\ routes'[d].endpoint = routes[d].endpoint

\* No container of the project starts, stops, comes or goes.
ContainersSame(p) ==
    /\ Dock!ContainerList(p)' = Dock!ContainerList(p)
    /\ \A id \in Dock!ContainerList(p) : Same(id)

RoutesSame(p) ==
    /\ Ing!RoutesOfProject(p)' = Ing!RoutesOfProject(p)
    /\ \A d \in Ing!RoutesOfProject(p) : SameRoute(d)

LEMMA DeployedStays ==
    ASSUME NEW config \in Applies, Deployed(config),
           ContainersSame(config.project), RoutesSame(config.project),
           saved'[config.project] = saved[config.project]
    PROVE  Deployed(config)'
<1> DEFINE p == config.project
           W == ToSet(config.services)
           Runs(s) == {id \in Dock!ContainerList(p) :
                          /\ containers[id].name = ContainerName(p, s.name)
                          /\ containers[id].hash = s.hash}
           Routes == Ing!RoutesOfProject(p)
           List == Dock!ContainerList(p)
           Leads(d, s, port) == /\ routes[d] # NoRoute
                                /\ routes[d].project = p /\ routes[d].service = s.name
                                /\ routes[d].endpoint = port
<1>1. /\ \A s \in W : \E id \in Runs(s) : \A d \in s.domains : Leads(d, s, containers[id].port)
      /\ Routes = UNION {s.domains : s \in W}
      /\ List = UNION {Runs(s) : s \in W}
      /\ saved[p] = config.services
  BY DEF Deployed
<1>2. Routes' = Routes /\ List' = List
  BY DEF RoutesSame, ContainersSame
<1>3. \A s : Runs(s)' = Runs(s)
  BY <1>2 DEF ContainersSame, Same
<1>4. \A s \in W : \A id \in Runs(s) : \A d \in s.domains :
         Leads(d, s, containers[id].port) => Leads(d, s, containers[id].port)'
  <2> SUFFICES ASSUME NEW s \in W, NEW id \in Runs(s), NEW d \in s.domains,
                      Leads(d, s, containers[id].port)
               PROVE  Leads(d, s, containers[id].port)'
    OBVIOUS
  <2>1. d \in Routes /\ id \in List
    BY <1>1
  <2>2. SameRoute(d) /\ Same(id)
    BY <2>1 DEF RoutesSame, ContainersSame
  <2> QED BY <2>2 DEF SameRoute, Same
<1>5. ASSUME NEW s \in W
      PROVE  \E id \in Runs(s)' : \A d \in s.domains : Leads(d, s, containers[id].port)'
  <2>1. PICK id \in Runs(s) : \A d \in s.domains : Leads(d, s, containers[id].port)
    BY <1>1
  <2>2. \A d \in s.domains : Leads(d, s, containers[id].port)'
    BY <1>4, <2>1
  <2>3. id \in Runs(s)'
    BY <1>3
  <2> QED BY <2>2, <2>3
<1>6. Routes' = UNION {s.domains : s \in W}
  BY <1>1, <1>2
<1>7. List' = UNION {Runs(s)' : s \in W}
  <2> HIDE DEF Runs, List
  <2> QED BY <1>1, <1>2, <1>3
<1>8. saved'[p] = config.services
  BY <1>1
<1> QED BY <1>5, <1>6, <1>7, <1>8 DEF Deployed

\* A service of a configuration in place has its container, which is the only
\* one of its name.
LEMMA ItsContainer ==
    ASSUME UniqueNames, NEW config \in Applies, Deployed(config),
           NEW s \in ToSet(config.services)
    PROVE  \E id \in Dock!ContainerList(config.project) :
              /\ containers[id].name = ContainerName(config.project, s.name)
              /\ containers[id].hash = s.hash
              /\ \A d \in s.domains : /\ routes[d] # NoRoute
                                      /\ routes[d].project = config.project
                                      /\ routes[d].service = s.name
                                      /\ routes[d].endpoint = containers[id].port
              /\ \A i \in Dock!Existing : containers[i].name = containers[id].name => i = id
BY DEF Deployed, UniqueNames, Dock!ContainerList, Dock!RunningContainers

\* A request for the configuration writes no route but those that are there: it
\* removes none it wants, and registers the port of the container in place.
LEMMA OwnRoutesSame ==
    ASSUME KInv, NEW t \in Threads, Own(t),
           NEW config \in Applies, request[t] = config, Deployed(config)
    PROVE  RoutesSame(config.project)
<1> DEFINE p == config.project
<1>0. /\ IngP!TypeOK /\ IngP!Removing(t) /\ Serves(t) /\ Deploys(t) /\ UniqueNames
      /\ ProjectOf(t) = p /\ WantedDomains(t) = Ing!RoutesOfProject(p)
      /\ Current(t) \in ToSet(config.services) /\ Current(t).domains \subseteq Domains
  <2>1. /\ IngP!TypeOK /\ IngP!Removing(t) /\ Serves(t) /\ Deploys(t) /\ UniqueNames
        /\ CInv /\ request[t] # None
    BY Configurations DEF KInv, PInv, DInv, Base, SInv, CInv, IngP!OInv, IngP!IInv, IngP!TInv
  <2>2. ProjectOf(t) = p /\ WantedDomains(t) = Ing!RoutesOfProject(p)
    BY DEF ProjectOf, WantedDomains, Deployed
  <2> QED BY <2>1, <2>2, RequestTypes DEF Service
<1>1. CASE UNCHANGED routes
  BY <1>1 DEF RoutesSame, SameRoute, Ing!RoutesOfProject
<1>2. CASE Ing!RemoveIngressRoute(t)
  <2>1. PICK d \in todo[t] : routes' = [routes EXCEPT ![d] = NoRoute]
    BY <1>2 DEF Ing!RemoveIngressRoute
  <2>2. ipc[t] = "remove" /\ pc[t] = "unrouting"
    BY <1>0, <1>2 DEF Ing!RemoveIngressRoute, Serves
  <2>3. d \in Domains /\ d \notin Ing!RoutesOfProject(p)
    BY <1>0, <2>2 DEF IngP!Removing, IngP!TypeOK, Serves
  <2> QED BY <1>0, <2>1, <2>3 DEF RoutesSame, SameRoute, Ing!RoutesOfProject, IngP!TypeOK
<1>3. CASE Ing!SaveIngressRoute(t)
  <2>1. /\ routes' = [d \in Domains |-> IF d \in ingress[t].domains
                                        THEN ingress[t] ELSE routes[d]]
        /\ pc[t] = "registering" /\ ingress[t] = IngressOf(t)
    BY <1>0, <1>3 DEF Ing!SaveIngressRoute, Serves, Deploys, Registers
  <2>2. PICK id \in Dock!ContainerList(p) :
           /\ containers[id].name = ContainerName(p, Current(t).name)
           /\ \A d \in Current(t).domains : /\ routes[d] # NoRoute
                                            /\ routes[d].project = p
                                            /\ routes[d].service = Current(t).name
                                            /\ routes[d].endpoint = containers[id].port
           /\ \A i \in Dock!Existing : containers[i].name = containers[id].name => i = id
    BY <1>0, ItsContainer
  <2>3. id = target[t] /\ containers[id].port = endpoint[t]
    BY <1>0, <2>1, <2>2 DEF Deploys, Handles, Fits, NameOf
  <2>4. IngressOf(t) # NoRoute
    <3>1. endpoint[t] \in Ports \cup {NoPort}
      BY DEF KInv, PInv, DInv, Base, SInv, CInv, LocalsOK
    <3>2. IngressOf(t) \in Ingresses
      BY <1>0, <3>1, IngressOfConfig DEF IngressOf
    <3> QED BY <3>2, ConstantsAssumption
  <2>5. ASSUME NEW d \in Domains
        PROVE  \/ d \notin Current(t).domains /\ routes'[d] = routes[d]
               \/ SameRoute(d) /\ d \in Ing!RoutesOfProject(p) /\ d \in Ing!RoutesOfProject(p)'
    BY <1>0, <2>1, <2>2, <2>3, <2>4
       DEF IngressOf, IngressFor, SameRoute, Ing!RoutesOfProject
  <2>6. ASSUME NEW d \in Ing!RoutesOfProject(p) PROVE SameRoute(d)
    BY <2>5 DEF SameRoute, Ing!RoutesOfProject
  <2>7. \A d \in Domains : d \in Ing!RoutesOfProject(p)' <=> d \in Ing!RoutesOfProject(p)
    BY <2>5 DEF Ing!RoutesOfProject
  <2>8. Ing!RoutesOfProject(p)' = Ing!RoutesOfProject(p)
    BY <2>7 DEF Ing!RoutesOfProject
  <2> QED BY <2>6, <2>8 DEF RoutesSame
<1> QED BY <1>1, <1>2, <1>3, RouteWriters

\* It removes none of the containers in place and starts none.
LEMMA OwnContainersSame ==
    ASSUME Assumptions, KInv, [Next]_vars, NEW t \in Threads, Own(t),
           NEW config \in Applies, request[t] = config, Deployed(config)
    PROVE  \/ ContainersSame(config.project)
           \/ \E id \in Dock!ContainerList(config.project) : Dock!ContainerExit(id)
<1> DEFINE p == config.project
<1> SUFFICES ASSUME ~\E id \in Dock!ContainerList(p) : Dock!ContainerExit(id)
             PROVE  ContainersSame(p)
  OBVIOUS
<1>0. /\ Base /\ OInv /\ Exclusive /\ Handles(t) /\ Spares(t) /\ UniqueNames
      /\ ProjectOf(t) = p /\ p \in Projects /\ request[t] # None
      /\ Current(t) \in ToSet(config.services) /\ Current(t) \in Service
      /\ containers \in [Ids -> Dock!Container \cup {Gone}]
  <2>1. CInv /\ Base /\ OInv /\ Exclusive /\ Handles(t) /\ Spares(t) /\ UniqueNames
    BY DEF KInv, PInv, DInv, Deploys, Base, SInv
  <2> QED BY <2>1, Configurations, RequestTypes DEF ProjectOf, CInv, Dock!TypeOK
<1>1. ASSUME NEW id \in Dock!ContainerList(p) PROVE Stays(id)
  <2>1. /\ id \in Dock!Existing /\ containers[id].project = p
        /\ \E s \in ToSet(config.services) : /\ containers[id].name = ContainerName(p, s.name)
                                             /\ containers[id].hash = s.hash
    BY DEF Deployed, Dock!ContainerList, Dock!RunningContainers
  <2>2. CASE RemoveContainer(t) /\ id = target[t]
    <3>1. /\ containers[id].name = ContainerName(p, Current(t).name)
          /\ containers[id].hash # Current(t).hash
      BY <1>0, <2>1, <2>2 DEF RemoveContainer, At, Handles, NameOf
    <3>2. PICK j \in Dock!ContainerList(p) :
             /\ containers[j].name = ContainerName(p, Current(t).name)
             /\ containers[j].hash = Current(t).hash
             /\ \A i \in Dock!Existing : containers[i].name = containers[j].name => i = j
      BY <1>0, ItsContainer
    <3> QED BY <2>1, <3>1, <3>2
  <2>3. CASE RemoveUnusedContainer(t)
    <3>1. /\ pc[t] = "purge"
          /\ UNCHANGED dvars \/ \E i \in pending[t] : Dock!ContainerRemove(i)
      BY <2>3 DEF RemoveUnusedContainer, At
    <3>2. containers[id].name \in WantedNames(t)
      BY <1>0, <2>1 DEF WantedNames
    <3>3. ASSUME NEW i \in pending[t], Dock!ContainerRemove(i) PROVE containers'[id] = containers[id]
      <4>1. i # id
        BY <1>0, <3>1, <3>2, <3>3 DEF Spares, Dock!ContainerRemove
      <4> QED BY <1>0, <2>1, <3>3, <4>1 DEF Dock!ContainerRemove, Dock!Existing
    <3>4. containers'[id] = containers[id]
      BY <3>1, <3>3 DEF dvars
    <3> QED BY <2>1, <3>4 DEF Stays, Dock!Existing
  <2> QED BY <1>0, <2>1, <2>2, <2>3, ContainersStay
<1>2. ASSUME NEW id \in Dock!ContainerList(p) PROVE Same(id) /\ id \in Dock!ContainerList(p)'
  <2>1. Stays(id) /\ ~Dock!ContainerExit(id)
    BY <1>1
  <2> QED BY <2>1 DEF Stays, Same, Dock!ContainerList, Dock!RunningContainers, Dock!Existing
<1>3. ASSUME NEW id \in Dock!ContainerList(p)', id \notin Dock!ContainerList(p) PROVE FALSE
  <2>1. StartContainer(t) /\ pc[t] = "start" /\ id = target[t]
    <3>1. PICK u \in Threads : /\ request[u] # None /\ ProjectOf(u) = p
                               /\ StartContainer(u) /\ pc[u] = "start" /\ id = target[u]
      BY <1>0, <1>3, NewlyRunning
    <3>2. u = t
      BY <1>0, <3>1, Alone
    <3> QED BY <3>1, <3>2
  <2>2. id \in Dock!Existing /\ containers[id].name = ContainerName(p, Current(t).name)
    BY <1>0, <2>1 DEF Handles, Fits, NameOf
  <2>3. \E j \in Dock!ContainerList(p) : /\ containers[j].name = ContainerName(p, Current(t).name)
                                         /\ \A i \in Dock!Existing :
                                               containers[i].name = containers[j].name => i = j
    BY <1>0, ItsContainer
  <2> QED BY <1>3, <2>2, <2>3
<1> QED BY <1>2, <1>3 DEF ContainersSame

\* Routes and containers are as they were.
LEMMA NothingMoves ==
    ASSUME NEW p, UNCHANGED <<routes, containers>>
    PROVE  RoutesSame(p) /\ ContainersSame(p)
BY DEF RoutesSame, SameRoute, Ing!RoutesOfProject, ContainersSame, Same, Dock!ContainerList,
       Dock!RunningContainers, Dock!Existing

\* A request for another project leaves the project's routes and containers
\* alone, and what is saved of it.
LEMMA OthersSame ==
    ASSUME Base, Busy, NEW t \in Threads, Own(t), NEW p \in Projects, p # ProjectOf(t)
    PROVE  RoutesSame(p) /\ ContainersSame(p) /\ saved'[p] = saved[p]
<1>1. \A d \in Domains :
         \/ routes'[d] = routes[d]
         \/ d \notin Ing!RoutesOfProject(p) /\ d \notin Ing!RoutesOfProject(p)'
  BY RoutesElsewhere DEF Ing!RoutesOfProject
<1>2. \A id \in Ids :
         \/ containers'[id] = containers[id]
         \/ id \notin Dock!ContainerList(p) /\ id \notin Dock!ContainerList(p)'
  BY ContainersElsewhere DEF Base, Dock!ContainerList, Dock!RunningContainers
<1>3. RoutesSame(p)
  BY <1>1 DEF RoutesSame, SameRoute, Ing!RoutesOfProject
<1>4. ContainersSame(p)
  BY <1>2 DEF ContainersSame, Same, Dock!ContainerList, Dock!RunningContainers, Dock!Existing
<1>5. saved'[p] = saved[p]
  <2>1. DOMAIN saved = Projects
    BY DEF Base, SInv, CInv, LocalsOK
  <2>2. SaveProject(t) \/ RemoveProject(t) \/ UNCHANGED saved
    BY OwnEnd DEF Base
  <2> QED BY <2>1, <2>2 DEF SaveProject, RemoveProject
<1> QED BY <1>3, <1>4, <1>5

\* A request for the configuration saves what is saved already, if anything.
LEMMA OwnSavedSame ==
    ASSUME SInv, Busy, NEW t \in Threads, Own(t),
           NEW config \in Applies, request[t] = config, Deployed(config)
    PROVE  saved'[config.project] = saved[config.project]
<1>1. config.project \in Projects /\ DOMAIN saved = Projects /\ config \notin Deletes
  BY Configurations DEF SInv, CInv, LocalsOK
<1>2. ~RemoveProject(t)
  BY <1>1 DEF SInv, CInv, RequestFits, DeleteLabels, RemoveProject, At
<1>3. SaveProject(t) => saved'[config.project] = saved[config.project]
  BY <1>1 DEF SaveProject, ProjectOf, Deployed
<1> QED BY <1>2, <1>3, OwnEnd

\* Only the container that exits stops.
LEMMA ExitSame ==
    ASSUME OInv, NEW id \in Ids, ContainerExits(id), NEW p, id \notin Dock!ContainerList(p)
    PROVE  RoutesSame(p) /\ ContainersSame(p) /\ UNCHANGED saved
<1>0. containers \in [Ids -> Dock!Container \cup {Gone}] /\ Gone \notin Dock!Container
  BY ConstantsAssumption DEF OInv, CInv, Dock!TypeOK
<1>1. /\ containers[id] \in Dock!Container /\ containers[id].running
      /\ containers' = [containers EXCEPT ![id].running = FALSE]
      /\ UNCHANGED <<routes, saved>>
  BY <1>0 DEF ContainerExits, Dock!ContainerExit, Dock!RunningContainers, Dock!Existing, ivars
<1>2. /\ [containers[id] EXCEPT !.running = FALSE] \in Dock!Container
      /\ ~[containers[id] EXCEPT !.running = FALSE].running
  BY <1>1 DEF Dock!Container
<1>3. id \notin Dock!ContainerList(p)'
  BY <1>0, <1>1, <1>2 DEF Dock!ContainerList, Dock!RunningContainers, Dock!Existing
<1>4. \A i \in Ids \ {id} : containers'[i] = containers[i]
  BY <1>0, <1>1
<1>5. ContainersSame(p)
  BY <1>3, <1>4 DEF ContainersSame, Same, Dock!ContainerList, Dock!RunningContainers, Dock!Existing
<1>6. RoutesSame(p)
  BY <1>1 DEF RoutesSame, SameRoute, Ing!RoutesOfProject
<1> QED BY <1>1, <1>5, <1>6

\* A client that asks for a new request, an answer and a crash move nothing.
LEMMA QuietSteps ==
    ASSUME \/ \E t \in Threads : OrderlyClient(t) \/ Reply(t)
           \/ Crash
           \/ UNCHANGED vars
    PROVE  UNCHANGED <<routes, containers, saved>>
<1>1. ASSUME NEW t \in Threads, OrderlyClient(t) PROVE UNCHANGED <<routes, containers, saved>>
  BY <1>1 DEF OrderlyClient, Apply, Delete, ivars, dvars
<1>2. ASSUME NEW t \in Threads, Reply(t) PROVE UNCHANGED <<routes, containers, saved>>
  BY <1>2 DEF Reply, ivars, dvars
<1>3. CASE Crash
  BY <1>3 DEF Crash, Ing!Crash, dvars
<1>4. CASE UNCHANGED vars
  BY <1>4 DEF vars, ivars, dvars
<1> QED BY <1>1, <1>2, <1>3, <1>4

\* A step of any kind leaves a configuration in place that no request opposes.
LEMMA KeptByStep ==
    ASSUME Assumptions, KInv, [OrderlyNext]_vars, NEW config \in Applies, Deployed(config),
           \A t \in Threads : request[t] # None /\ ProjectOf(t) = config.project
                                 => request[t] = config
    PROVE  \/ Deployed(config)'
           \/ \E id \in Dock!ContainerList(config.project) : Dock!ContainerExit(id)
<1> DEFINE p == config.project
<1> SUFFICES ASSUME ~\E id \in Dock!ContainerList(p) : Dock!ContainerExit(id)
             PROVE  RoutesSame(p) /\ ContainersSame(p) /\ saved'[p] = saved[p]
  BY DeployedStays
<1>0. /\ Base /\ Busy /\ SInv /\ OInv /\ [Next]_vars
      /\ p \in Projects
  BY OrderlyIsNext, Configurations DEF KInv, PInv, DInv, Base
<1>1. ASSUME NEW t \in Threads, Own(t)
      PROVE  RoutesSame(p) /\ ContainersSame(p) /\ saved'[p] = saved[p]
  <2>1. CASE ProjectOf(t) = p
    <3>1. request[t] = config
      BY <1>0, <1>1, <2>1, OwnStep
    <3> QED BY <1>0, <1>1, <3>1, OwnRoutesSame, OwnContainersSame, OwnSavedSame
  <2>2. CASE ProjectOf(t) # p
    BY <1>0, <1>1, <2>2, OthersSame
  <2> QED BY <2>1, <2>2
<1>2. ASSUME NEW id \in Ids, ContainerExits(id)
      PROVE  RoutesSame(p) /\ ContainersSame(p) /\ saved'[p] = saved[p]
  <2>1. id \notin Dock!ContainerList(p)
    BY <1>2 DEF ContainerExits
  <2> QED BY <1>0, <1>2, <2>1, ExitSame
<1>3. ASSUME UNCHANGED <<routes, containers, saved>>
      PROVE  RoutesSame(p) /\ ContainersSame(p) /\ saved'[p] = saved[p]
  BY <1>3, NothingMoves
<1> QED BY <1>1, <1>2, <1>3, QuietSteps, StepsOf

\* For orderly clients a configuration in place stays in place: requests for
\* other projects and applies of itself, finished or cut off, disturb none of
\* its services. Containers may exit at any moment.
THEOREM KeptInPlace ==
    ASSUME Assumptions PROVE OrderlySpec => StaysDeployed
<1> DEFINE Kept ==
      \A config \in Applies :
         /\ Deployed(config)
         /\ \A t \in Threads : request[t] # None /\ ProjectOf(t) = config.project
                                  => request[t] = config
         => \/ Deployed(config)'
            \/ \E id \in Dock!ContainerList(config.project) : Dock!ContainerExit(id)
<1>1. OrderlySpec => []KInv
  <2>1. OrderlySpec => []IngP!RemovalComplete
    <3>1. IngP!OrderlySpec => []IngP!RemovalComplete
      BY IngConstants, IngP!CompleteRemoval DEF IngP!IngressesAssumption
    <3> QED BY <3>1, CallsIngress
  <2> QED BY <2>1, InitKInv, NextKInv, PTL DEF OrderlySpec
<1>2. KInv /\ [OrderlyNext]_vars => Kept
  BY KeptByStep
<1>3. Kept => [Kept]_vars
  OBVIOUS
<1> HIDE DEF Kept
<1>4. OrderlySpec => [][Kept]_vars
  BY <1>1, <1>2, <1>3, PTL DEF OrderlySpec
<1> QED BY <1>4 DEF StaysDeployed, Kept

=============================================================================
