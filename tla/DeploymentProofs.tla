-------------------------- MODULE DeploymentProofs --------------------------
(***************************************************************************)
(* An apply that is answered with success has put its configuration in     *)
(* place: AppliedIsDeployed of ContainerManager for any number of threads, *)
(* projects, services and mishaps, and what is left of it when containers  *)
(* may exit while a request is served.                                     *)
(*                                                                         *)
(* ApplyProject walks through its services and looks at each of them once, *)
(* so the claim needs that what it has put in place stays there until the  *)
(* answer: what it registered or started is changed by no other request    *)
(* and by no later service of its own configuration.                       *)
(***************************************************************************)
EXTENDS ContainerManagerProofs

\* A name belongs to one service of one project.
NamesDetermineServices ==
    \A p, q \in Projects, s, r \in Services :
       ContainerName(p, s) = ContainerName(q, r) => p = q /\ s = r

\* The services of a configuration have different names.
DistinctServices ==
    \A config \in Applies : \A i, j \in DOMAIN config.services :
       config.services[i].name = config.services[j].name => i = j

\* Requests are served one at a time, or no two projects ask for one domain.
DomainsKeptApart == IngP!Serial \/ IngP!Disjoint

Assumptions ==
    /\ NamesDetermineServices
    /\ DistinctServices
    /\ DomainsKeptApart

(***************************************************************************)
(* The invariant                                                           *)
(***************************************************************************)

\* Docker hands out a name once.
UniqueNames ==
    \A i, j \in Dock!Existing : containers[i].name = containers[j].name => i = j

Placing == {"find", "replace", "create", "start", "register", "registering"}
Placed == {"save", "applied"}
Purged == Placing \cup Placed
Unrouted == {"list", "purge"} \cup Purged

\* The name of the container of service s of the request of thread t
NameOf(t, s) == ContainerName(ProjectOf(t), s.name)

\* Container id is what service s of the request of thread t asks for.
Fits(t, s, id) ==
    /\ id \in Dock!Existing
    /\ containers[id].name = NameOf(t, s)
    /\ containers[id].hash = s.hash

\* The domain is routed to the service, at the given port.
RoutedTo(d, t, s, port) ==
    /\ routes[d] # NoRoute
    /\ routes[d].project = ProjectOf(t)
    /\ routes[d].service = s.name
    /\ routes[d].endpoint = port

\* The service has its container, which runs unless it may have exited, and its
\* domains lead there.
InPlace(t, s) ==
    \E id \in Dock!Existing :
       /\ containers[id].project = ProjectOf(t)
       /\ ExitsMidway \/ containers[id].running
       /\ Fits(t, s, id)
       /\ \A d \in s.domains : RoutedTo(d, t, s, containers[id].port)

\* What the request is to remove is gone from the routes, or from Docker.
Cleared(t) ==
    /\ pc[t] \in Unrouted => IngP!RoutesOfProject(ProjectOf(t)) \subseteq WantedDomains(t)
    /\ \A id \in Dock!ContainerList(ProjectOf(t)) :
          /\ pc[t] = "purge" => id \in pending[t] \/ containers[id].name \in WantedNames(t)
          /\ pc[t] \in Purged => containers[id].name \in WantedNames(t)

\* The services the request has come past are in place.
Walked(t) ==
    /\ pc[t] \in Labels \ (Purged \cup {"failed"}) => index[t] = 1
    /\ pc[t] \in Placing =>
          \A i \in 1 .. index[t] - 1 : InPlace(t, request[t].services[i])
    /\ pc[t] \in Placed =>
          \A i \in DOMAIN request[t].services : InPlace(t, request[t].services[i])

\* The container the request is at
Handles(t) ==
    /\ pc[t] = "replace" /\ target[t] \in Dock!Existing =>
          /\ containers[target[t]].name = NameOf(t, Current(t))
          /\ containers[target[t]].hash # Current(t).hash
    /\ pc[t] \in {"start", "register", "registering"} =>
          /\ Fits(t, Current(t), target[t])
          /\ containers[target[t]].port = endpoint[t]
    /\ pc[t] \in {"register", "registering"} => ExitsMidway \/ containers[target[t]].running

\* The call of RegisterRoute the request waits for
Registers(t) ==
    pc[t] = "registering" =>
       /\ ipc[t] \in {"match", "certify", "registered", "failed"}
       /\ ingress[t] = IngressOf(t)
       /\ ipc[t] \in {"certify", "registered"} =>
             \A d \in Current(t).domains : RoutedTo(d, t, Current(t), endpoint[t])

Saves(t) == pc[t] = "applied" => saved[ProjectOf(t)] = request[t].services

Deploys(t) == Cleared(t) /\ Walked(t) /\ Handles(t) /\ Registers(t) /\ Saves(t)

\* What is known of the requests and of the ingress manager
Base == SInv /\ OInv /\ Exclusive /\ IngP!OInv

DInv ==
    /\ Base
    /\ UniqueNames
    /\ \A t \in Threads : /\ pc[t] = "applied" => request[t] \in Applies
                          /\ request[t] \in Applies => Deploys(t)

(***************************************************************************)
(* What is known before                                                    *)
(***************************************************************************)

\* A name that determines the service determines the project.
LEMMA ProjectsDetermined == NamesDetermineServices => NamesDetermineProjects
BY DEF NamesDetermineServices, NamesDetermineProjects

\* The invariants of the other theorems hold at first and stay.
LEMMA InitBase == Init => Base
<1>1. Init => IngP!OInv
  <2>1. Init => IngP!Init
    BY DEF Init, Ing!Init, IngP!Init
  <2> QED BY <2>1, IngConstants, IngP!InitOInv DEF IngP!IngressesAssumption
<1> QED BY <1>1, InitSInv, InitOInv, InitExclusive DEF Base

LEMMA NextBase == ASSUME Assumptions PROVE Base /\ [OrderlyNext]_vars => Base'
<1> SUFFICES ASSUME Base, [OrderlyNext]_vars PROVE Base'
  OBVIOUS
<1>1. SInv /\ OInv /\ CInv /\ Exclusive /\ [Next]_vars
  BY OrderlyIsNext DEF Base, SInv
<1>2. IngP!OInv'
  <2>1. IngP!OInv /\ [IngP!OrderlyNext]_(IngP!ivars)
    BY <1>1, NextOrderlyIng DEF Base
  <2> QED BY <2>1, IngConstants, IngP!NextOInv
          DEF IngP!IngressesAssumption, Assumptions, DomainsKeptApart
<1> QED BY <1>1, <1>2, NextSInv, NextOInv, NextExclusive, ProjectsDetermined
        DEF Base, Assumptions

\* Docker refuses a name that is taken.
LEMMA NextUnique == CInv /\ UniqueNames /\ [Next]_vars => UniqueNames'
<1> SUFFICES ASSUME CInv, UniqueNames, [Next]_vars,
                    NEW i \in Dock!Existing', NEW j \in Dock!Existing',
                    containers'[i].name = containers'[j].name
             PROVE  i = j
  BY DEF UniqueNames
<1>0. /\ containers \in [Ids -> Dock!Container \cup {Gone}]
      /\ target \in [Threads -> Ids \cup {None}]
  BY DEF CInv, Dock!TypeOK, LocalsOK
<1>1. ASSUME NEW t \in Threads, CreateContainer(t) PROVE i = j
  <2>1. PICK id \in Ids, port \in Ports \cup {NoPort} :
           Dock!ContainerCreate(id, NewContainer(t, port))
    BY <1>1 DEF CreateContainer
  <2>2. /\ containers' = [containers EXCEPT ![id] = NewContainer(t, port)]
        /\ Dock!WithName(NewContainer(t, port).name) = {}
    BY <2>1 DEF Dock!ContainerCreate
  <2>3. ASSUME NEW k \in Dock!Existing', k # id
        PROVE  /\ k \in Dock!Existing /\ containers'[k] = containers[k]
               /\ containers[k].name # NewContainer(t, port).name
    BY <1>0, <2>2, <2>3 DEF Dock!Existing, Dock!WithName
  <2>4. containers'[id] = NewContainer(t, port)
    BY <1>0, <2>2
  <2> QED BY <2>3, <2>4 DEF UniqueNames
<1>2. CASE \A t \in Threads : ~CreateContainer(t)
  <2>1. ASSUME NEW k \in Dock!Existing'
        PROVE  k \in Dock!Existing /\ containers'[k].name = containers[k].name
    BY <1>2, ContainersKept
  <2> QED BY <2>1 DEF UniqueNames
<1> QED BY <1>1, <1>2

(***************************************************************************)
(* What other requests cannot change                                       *)
(***************************************************************************)

\* Container id stays what it was, but for the network; if it ran, it runs, unless
\* it may exit.
Stays(id) ==
    /\ id \in Dock!Existing'
    /\ containers'[id].name = containers[id].name
    /\ containers'[id].project = containers[id].project
    /\ containers'[id].hash = containers[id].hash
    /\ containers'[id].port = containers[id].port
    /\ containers[id].running =>
          containers'[id].running \/ (ExitsMidway /\ Dock!ContainerExit(id))

\* A container of the project goes in the request for that project only.
LEMMA ContainersStay ==
    ASSUME Base, [Next]_vars, NEW t \in Threads, request[t] # None,
           NEW id \in Dock!Existing, containers[id].project = ProjectOf(t)
    PROVE  \/ Stays(id)
           \/ RemoveContainer(t) /\ id = target[t]
           \/ RemoveUnusedContainer(t)
<1>0. /\ containers \in [Ids -> Dock!Container \cup {Gone}]
      /\ containers[id] \in Dock!Container /\ id \in Ids /\ Gone \notin Dock!Container
      /\ CInv /\ LocalsOK /\ \A u \in Threads : RequestFits(u) /\ Remembers(u)
  BY ConstantsAssumption DEF Base, OInv, CInv, Dock!TypeOK, Dock!Existing
<1> USE DEF Dock!Existing
<1>1. ASSUME UNCHANGED dvars PROVE Stays(id)
  BY <1>0, <1>1 DEF Stays, dvars
<1>2. ASSUME NEW u \in Threads, Dock!NetworkCreate(ProjectOf(u)) PROVE Stays(id)
  BY <1>0, <1>2 DEF Dock!NetworkCreate, Stays
<1>3. ASSUME NEW u \in Threads, RemoveUnusedContainer(u) PROVE Stays(id) \/ u = t
  <2>1. CASE UNCHANGED dvars
    BY <1>1, <2>1
  <2>2. ASSUME NEW i \in pending[u], Dock!ContainerRemove(i) PROVE Stays(id) \/ u = t
    <3>1. CASE i = id
      <4>1. ProjectOf(u) = ProjectOf(t)
        BY <1>0, <2>2, <3>1 DEF Remembers
      <4>2. request[u] # None
        BY <1>0, <1>3 DEF RemoveUnusedContainer, At, RequestFits, CleanLabels
      <4> QED BY <4>1, <4>2, Alone DEF Base
    <3>2. CASE i # id
      BY <1>0, <2>2, <3>2 DEF Dock!ContainerRemove, Stays
    <3> QED BY <3>1, <3>2
  <2> QED BY <1>3, <2>1, <2>2 DEF RemoveUnusedContainer
<1>4. ASSUME NEW u \in Threads, RemoveContainer(u), Dock!ContainerRemove(target[u])
      PROVE  Stays(id) \/ (u = t /\ id = target[t])
  <2>1. CASE target[u] = id
    <3>1. ProjectOf(u) = ProjectOf(t)
      BY <1>0, <2>1 DEF Remembers
    <3>2. request[u] # None
      BY <1>0, <1>4, Configurations DEF RemoveContainer, At, RequestFits, ApplyLabels
    <3> QED BY <2>1, <3>1, <3>2, Alone DEF Base
  <2>2. CASE target[u] # id
    BY <1>0, <1>4, <2>2 DEF Dock!ContainerRemove, Stays
  <2> QED BY <2>1, <2>2
<1>5. ASSUME NEW u \in Threads, CreateContainer(u) PROVE Stays(id)
  <2>1. PICK i \in Ids, port \in Ports \cup {NoPort} :
           Dock!ContainerCreate(i, NewContainer(u, port))
    BY <1>5 DEF CreateContainer
  <2> QED BY <1>0, <2>1 DEF Dock!ContainerCreate, Stays
<1>6. ASSUME NEW i, Dock!ContainerStart(i) PROVE Stays(id)
  <2>1. containers'[id] = containers[id]
           \/ containers'[id] = [containers[id] EXCEPT !.running = TRUE]
    BY <1>0, <1>6 DEF Dock!ContainerStart, Dock!CanStart
  <2>2. containers'[id] # Gone
    BY <1>0, <2>1 DEF Dock!Container
  <2> QED BY <1>0, <2>1, <2>2 DEF Dock!Container, Stays
<1>7. ASSUME NEW p, Dock!NetworkRemove(p) PROVE Stays(id)
  <2>1. [containers[id] EXCEPT !.attached = FALSE] \in Dock!Container
    BY <1>0 DEF Dock!Container
  <2> QED BY <1>0, <1>7, <2>1 DEF Dock!NetworkRemove, Dock!Container, Stays
<1>8. ASSUME NEW i \in Ids, ContainerExits(i) PROVE Stays(id)
  <2>1. ExitsMidway
    BY <1>0, <1>8 DEF ContainerExits, Idle, At, RequestFits
  <2>2. [containers[id] EXCEPT !.running = FALSE] \in Dock!Container
    BY <1>0 DEF Dock!Container
  <2>3. /\ Dock!ContainerExit(i)
        /\ containers' = [containers EXCEPT ![i].running = FALSE]
    BY <1>8 DEF ContainerExits, Dock!ContainerExit
  <2> QED BY <1>0, <2>1, <2>2, <2>3 DEF Dock!Container, Stays
<1> QED BY <1>1, <1>2, <1>3, <1>4, <1>5, <1>6, <1>7, <1>8, DockerSteps

\* A domain a request asks for belongs to an ingress of its project.
LEMMA Asked ==
    ASSUME CInv, NEW t \in Threads, request[t] \in Applies, NEW d \in WantedDomains(t)
    PROVE  \E i \in Ingresses : d \in i.domains /\ i.project = ProjectOf(t)
<1>1. PICK s \in ToSet(request[t].services) : d \in s.domains
  BY DEF WantedDomains
<1>2. IngressFor(ProjectOf(t), s, NoPort) \in Ingresses
  BY <1>1, IngressOfConfig DEF ProjectOf
<1> QED BY <1>1, <1>2 DEF IngressFor

\* The route of a domain a request asks for is changed by that request only:
\* while it removes routes, or by the call of RegisterRoute it waits for.
LEMMA RoutesStay ==
    ASSUME Base, DomainsKeptApart, [Next]_vars, NEW t \in Threads, request[t] \in Applies,
           NEW d \in WantedDomains(t), routes'[d] # routes[d]
    PROVE  \/ ipc[t] = "match" /\ IngP!SaveIngressRoute(t) /\ d \in ingress[t].domains
           \/ ipc[t] = "remove"
<1>0. /\ CInv /\ Exclusive /\ IngP!IInv /\ IngP!TypeOK /\ SInv
      /\ \A u \in Threads : Serves(u) /\ RequestFits(u)
      /\ request[t] # None
      /\ d \in Domains
  BY Configurations, RequestTypes DEF Base, SInv, CInv, IngP!OInv, IngP!IInv, IngP!TInv
<1>1. PICK mine \in Ingresses : d \in mine.domains /\ mine.project = ProjectOf(t)
  BY <1>0, Asked
<1>2. ASSUME NEW u \in Threads, ipc[u] \in {"match", "remove"}, ProjectOf(u) = ProjectOf(t)
      PROVE  u = t
  <2>1. pc[u] \in {"unrouting", "registering"}
    BY <1>0, <1>2 DEF Serves
  <2>2. request[u] # None
    BY <1>0, <2>1, Configurations DEF RequestFits, ApplyLabels, CleanLabels
  <2> QED BY <1>0, <1>2, <2>2, Alone
<1>3. ASSUME NEW u \in Threads, ipc[u] = "match", ingress[u] \in Ingresses,
             IngP!SaveIngressRoute(u)
      PROVE  /\ u = t
             /\ IngP!SaveIngressRoute(t) /\ ipc[t] = "match" /\ d \in ingress[t].domains
  <2>1. d \in ingress[u].domains
    BY <1>0, <1>3 DEF IngP!SaveIngressRoute
  <2>2. ProjectOf(u) = ingress[u].project
    BY <1>0, <1>3, ConstantsAssumption DEF Serves
  <2>3. CASE IngP!Serial
    BY <1>3, <2>1, <2>3 DEF IngP!Serial
  <2>4. CASE IngP!Disjoint
    <3>1. ProjectOf(u) = ProjectOf(t)
      BY <1>1, <1>3, <2>1, <2>2, <2>4 DEF IngP!Disjoint
    <3> QED BY <1>2, <1>3, <2>1, <3>1
  <2> QED BY <2>3, <2>4 DEF DomainsKeptApart
<1>4. ASSUME NEW u \in Threads, ipc[u] = "remove", IngP!RemoveIngressRoute(u)
      PROVE  u = t
  <2>1. d \in todo[u] /\ project[u] \in Projects
    BY <1>0, <1>4 DEF IngP!RemoveIngressRoute, IngP!TypeOK, IngP!IInv, IngP!TInv, IngP!ArgumentsSet
  <2>2. ProjectOf(u) = project[u]
    BY <1>0, <2>1, ConstantsAssumption DEF Serves
  <2>3. CASE IngP!Serial
    BY <2>3 DEF IngP!Serial
  <2>4. CASE IngP!Disjoint
    <3>1. PICK i \in Ingresses : d \in i.domains /\ i.project = project[u]
      BY <1>0, <1>4, <2>1 DEF IngP!IInv, IngP!Removing, IngP!WantedBy
    <3>2. ProjectOf(u) = ProjectOf(t)
      BY <1>1, <2>2, <2>4, <3>1 DEF IngP!Disjoint
    <3> QED BY <1>2, <1>4, <3>2
  <2> QED BY <2>3, <2>4 DEF DomainsKeptApart
<1>5. /\ routes' # routes
      /\ [IngP!Next]_(IngP!ivars)
  BY <1>0, NextIng
<1>6. \/ \E u \in Threads : /\ ipc[u] = "match" /\ ingress[u] \in Ingresses
                            /\ IngP!SaveIngressRoute(u)
      \/ \E u \in Threads : ipc[u] = "remove" /\ IngP!RemoveIngressRoute(u)
  BY <1>0, <1>5, IngConstants, IngP!RouteChanges DEF IngP!IngressesAssumption
<1> QED BY <1>3, <1>4, <1>6

\* The thread neither begins nor ends a step.
Waits(t) ==
    /\ pc'[t] = pc[t] /\ request'[t] = request[t] /\ index'[t] = index[t]
    /\ target'[t] = target[t] /\ endpoint'[t] = endpoint[t] /\ pending'[t] = pending[t]

\* Nobody else moves a thread on, unless the daemon dies.
LEMMA OwnSteps ==
    ASSUME CInv, [Next]_vars, NEW t \in Threads, pc'[t] \notin {"idle", "failed"}
    PROVE  Waits(t) \/ Client(t) \/ ApplyStep(t) \/ CleanStep(t) \/ ErrorIgnored(t)
<1>0. LocalsOK
  BY DEF CInv
<1> USE <1>0 DEF LocalsOK, Waits, Goto, At, locals
<1>1. ASSUME NEW u \in Threads, u # t, Client(u) PROVE Waits(t)
  BY <1>1 DEF Client, Apply, Delete
<1>2. ASSUME NEW u \in Threads, u # t, ApplyStep(u) PROVE Waits(t)
  <2>1. ASSUME FindContainer(u) PROVE Waits(t)
    BY <1>2, <2>1 DEF FindContainer
  <2>2. ASSUME RouteRegistered(u) PROVE Waits(t)
    BY <1>2, <2>2 DEF RouteRegistered
  <2>3. ASSUME CreateContainer(u) PROVE Waits(t)
    BY <1>2, <2>3 DEF CreateContainer
  <2> QED BY <1>2, <2>1, <2>2, <2>3
          DEF ApplyStep, InspectNetwork, CreateNetwork, RemoveContainer, CreateRefused,
              StartContainer, RegisterRoute, SaveProject
<1>3. ASSUME NEW u \in Threads, u # t, CleanStep(u) PROVE Waits(t)
  BY <1>3 DEF CleanStep, RemoveUnusedRoutes, UnusedRoutesRemoved, ListContainers,
              RemoveUnusedContainer, UnusedContainersRemoved, DeleteNetwork, RemoveProject
<1>4. ASSUME NEW u \in Threads, Reply(u) PROVE Waits(t)
  BY <1>4 DEF Reply
<1>5. ASSUME NEW u \in Threads, IngressStep(u) \/ RouteWriteFails(u) PROVE Waits(t)
  BY <1>5 DEF IngressStep, RouteWriteFails
<1>6. ASSUME NEW u \in Threads, u # t, ErrorIgnored(u) PROVE Waits(t)
  BY <1>6 DEF ErrorIgnored
<1>7. ASSUME NEW u \in Threads, CallFails(u) PROVE Waits(t)
  BY <1>7 DEF CallFails
<1>8. ASSUME NEW id \in Ids, ContainerExits(id) PROVE Waits(t)
  BY <1>8 DEF ContainerExits
<1>9. ~Crash
  BY DEF Crash
<1>10. ASSUME UNCHANGED vars PROVE Waits(t)
  BY <1>10 DEF vars
<1> HIDE DEF Waits
<1>11. ASSUME NEW u \in Threads, Client(u) \/ Step(u)
       PROVE  Waits(t) \/ Client(t) \/ ApplyStep(t) \/ CleanStep(t)
  BY <1>1, <1>2, <1>3, <1>4, <1>5, <1>11 DEF Step
<1>12. ASSUME Fault PROVE Waits(t) \/ ErrorIgnored(t)
  BY <1>5, <1>6, <1>7, <1>8, <1>9, <1>12 DEF Fault
<1> QED BY <1>10, <1>11, <1>12 DEF Next

\* The entry of a project is written by the request for it.
LEMMA SavedStays ==
    ASSUME CInv, Exclusive, [Next]_vars, NEW t \in Threads, request[t] # None,
           saved'[ProjectOf(t)] # saved[ProjectOf(t)]
    PROVE  SaveProject(t) \/ RemoveProject(t)
<1>0. LocalsOK /\ ProjectOf(t) \in Projects /\ \A u \in Threads : RequestFits(u)
  BY RequestTypes DEF CInv
<1>1. ASSUME NEW u \in Threads, SaveProject(u) \/ RemoveProject(u) PROVE u = t
  <2>1. request[u] # None
    BY <1>0, <1>1, Configurations, Deletions
       DEF SaveProject, RemoveProject, At, RequestFits, ApplyLabels, DeleteLabels
  <2>2. ProjectOf(u) = ProjectOf(t)
    BY <1>0, <1>1 DEF SaveProject, RemoveProject, LocalsOK
  <2> QED BY <2>1, <2>2, Alone
<1>2. ~UNCHANGED saved
  OBVIOUS
<1>3. ASSUME NEW u \in Threads, Step(u) \/ Client(u) PROVE SaveProject(u) \/ RemoveProject(u)
  BY <1>2, <1>3
     DEF Step, Client, Apply, Delete, IngressStep, ApplyStep, CleanStep, InspectNetwork,
         CreateNetwork, FindContainer, RemoveContainer, CreateContainer, CreateRefused,
         StartContainer, RegisterRoute, RouteRegistered, RemoveUnusedRoutes,
         UnusedRoutesRemoved, ListContainers, RemoveUnusedContainer, UnusedContainersRemoved,
         DeleteNetwork, Reply
<1>4. ~Fault /\ ~UNCHANGED vars
  BY <1>2 DEF Fault, ErrorIgnored, CallFails, RouteWriteFails, ContainerExits, Crash, vars
<1> QED BY <1>1, <1>3, <1>4 DEF Next

\* How the call of RegisterRoute gets on that a request waits for
LEMMA RegisteringSteps ==
    ASSUME SInv, [Next]_vars, NEW t \in Threads,
           pc[t] = "registering", pc'[t] = "registering"
    PROVE  /\ ingress'[t] = ingress[t]
           /\ \/ ipc'[t] = ipc[t]
              \/ ipc[t] \in {"match", "certify", "remove"} /\ ipc'[t] = "failed"
              \/ ipc[t] = "match" /\ ipc'[t] = "certify" /\ IngP!SaveIngressRoute(t)
              \/ ipc[t] = "certify" /\ ipc'[t] = "registered"
              \/ ipc[t] = "remove" /\ ipc'[t] = "removed"
<1> DEFINE Goal == /\ ingress'[t] = ingress[t]
                   /\ \/ ipc'[t] = ipc[t]
                      \/ ipc[t] \in {"match", "certify", "remove"} /\ ipc'[t] = "failed"
                      \/ ipc[t] = "match" /\ ipc'[t] = "certify" /\ IngP!SaveIngressRoute(t)
                      \/ ipc[t] = "certify" /\ ipc'[t] = "registered"
                      \/ ipc[t] = "remove" /\ ipc'[t] = "removed"
<1>0. LocalsOK /\ IngP!TypeOK
  BY DEF SInv, CInv, IngP!TInv
<1> USE <1>0 DEF LocalsOK, IngP!TypeOK, Goto, At, Ing!Goto, IngP!Goto
<1>1. CASE UNCHANGED ivars
  BY <1>1 DEF ivars
<1>2. ASSUME NEW u \in Threads, RegisterRoute(u) \/ RemoveUnusedRoutes(u) PROVE Goal
  BY <1>2 DEF RegisterRoute, RemoveUnusedRoutes, Ing!RegisterRoute, Ing!RemoveUnusedRoutes
<1>3. ASSUME NEW u \in Threads, RouteRegistered(u) \/ UnusedRoutesRemoved(u) PROVE Goal
  <2>1. CASE u = t
    BY <1>3, <2>1 DEF RouteRegistered, UnusedRoutesRemoved
  <2>2. CASE u # t
    BY <1>3, <2>2 DEF RouteRegistered, UnusedRoutesRemoved, Ing!Return
  <2> QED BY <2>1, <2>2
<1>4. ASSUME NEW u \in Threads, IngressStep(u) \/ RouteWriteFails(u) PROVE Goal
  <2>1. CASE Ing!MatchDomain(u)
    BY <2>1 DEF Ing!MatchDomain
  <2>2. CASE Ing!SaveIngressRoute(u)
    <3>1. IngP!SaveIngressRoute(u)
      BY <2>2 DEF Ing!SaveIngressRoute, IngP!SaveIngressRoute
    <3> QED BY <2>2, <3>1 DEF Ing!SaveIngressRoute
  <2>3. CASE Ing!Certify(u)
    <3>1. /\ ipc[u] = "certify" /\ UNCHANGED ingress
          /\ ipc' = [ipc EXCEPT ![u] = "registered"] \/ ipc' = [ipc EXCEPT ![u] = "failed"]
      BY <2>3 DEF Ing!Certify
    <3> QED BY <3>1
  <2>4. CASE Ing!RemoveIngressRoute(u) \/ Ing!RoutesRemoved(u)
    BY <2>4 DEF Ing!RemoveIngressRoute, Ing!RoutesRemoved
  <2>5. CASE Ing!DatabaseError(u)
    BY <2>5 DEF Ing!DatabaseError
  <2> QED BY <1>4, <2>1, <2>2, <2>3, <2>4, <2>5 DEF IngressStep, RouteWriteFails
<1>5. ~Crash
  BY DEF Crash
<1>6. ASSUME NEW u \in Threads, Client(u) \/ Reply(u) PROVE UNCHANGED ivars
  BY <1>6 DEF Client, Apply, Delete, Reply
<1>7. ASSUME NEW u \in Threads, ApplyStep(u)
      PROVE  RegisterRoute(u) \/ RouteRegistered(u) \/ UNCHANGED ivars
  BY <1>7 DEF ApplyStep, InspectNetwork, CreateNetwork, FindContainer, RemoveContainer,
              CreateContainer, CreateRefused, StartContainer, SaveProject
<1>8. ASSUME NEW u \in Threads, CleanStep(u)
      PROVE  RemoveUnusedRoutes(u) \/ UnusedRoutesRemoved(u) \/ UNCHANGED ivars
  BY <1>8 DEF CleanStep, ListContainers, RemoveUnusedContainer, UnusedContainersRemoved,
              DeleteNetwork, RemoveProject
<1>9. ASSUME Fault PROVE (\E u \in Threads : RouteWriteFails(u)) \/ UNCHANGED ivars
  BY <1>5, <1>9 DEF Fault, ErrorIgnored, CallFails, ContainerExits
<1>10. CASE UNCHANGED vars
  BY <1>1, <1>10 DEF vars
<1> HIDE DEF Goal
<1>11. Goal
  <2>1. UNCHANGED ivars => Goal
    BY <1>1 DEF Goal
  <2>2. UNCHANGED vars => Goal
    BY <1>10 DEF Goal
  <2>3. ASSUME NEW u \in Threads, Client(u) \/ Step(u) PROVE Goal
    BY <1>2, <1>3, <1>4, <1>6, <1>7, <1>8, <2>1, <2>3 DEF Step
  <2>4. Fault => Goal
    BY <1>4, <1>9, <2>1
  <2> QED BY <2>2, <2>3, <2>4 DEF Next
<1> QED BY <1>11 DEF Goal

\* A service stays in place while its container stays and its routes do not
\* change.
LEMMA InPlaceStays ==
    ASSUME NEW t \in Threads, NEW s, InPlace(t, s), request'[t] = request[t],
           \A id \in Dock!Existing :
              containers[id].project = ProjectOf(t) /\ Fits(t, s, id) => Stays(id),
           \A d \in s.domains : routes'[d] = routes[d]
    PROVE  InPlace(t, s)'
<1>1. PICK id \in Dock!Existing :
         /\ containers[id].project = ProjectOf(t)
         /\ ExitsMidway \/ containers[id].running
         /\ Fits(t, s, id)
         /\ \A d \in s.domains : RoutedTo(d, t, s, containers[id].port)
  BY DEF InPlace
<1>2. Stays(id) /\ ProjectOf(t)' = ProjectOf(t)
  BY <1>1 DEF ProjectOf
<1>3. /\ id \in Dock!Existing'
      /\ containers'[id].project = ProjectOf(t)'
      /\ ExitsMidway \/ containers'[id].running
  BY <1>1, <1>2 DEF Stays
<1>4. Fits(t, s, id)'
  BY <1>1, <1>2 DEF Stays, Fits, NameOf
<1>5. \A d \in s.domains : RoutedTo(d, t, s, containers[id].port)'
  BY <1>1, <1>2 DEF Stays, RoutedTo
<1> QED BY <1>3, <1>4, <1>5 DEF InPlace

(***************************************************************************)
(* While a request waits, what it has put in place stays                   *)
(***************************************************************************)

\* Services of a configuration, by their place in it
LEMMA ServiceAt ==
    ASSUME NEW config \in Applies, NEW i \in 1 .. Len(config.services)
    PROVE  /\ config.services[i] \in Service
           /\ config.services[i] \in ToSet(config.services)
           /\ DOMAIN config.services = 1 .. Len(config.services)
<1>1. config.services \in Seq(Service)
  BY Configurations
<1> QED BY <1>1 DEF ToSet

\* The routes of the project stay within what the request wants.
LEMMA RoutesStayCleared ==
    ASSUME Base, [Next]_vars, NEW t \in Threads, request[t] \in Applies,
           Registers(t), pc[t] \in Unrouted,
           IngP!RoutesOfProject(ProjectOf(t)) \subseteq WantedDomains(t)
    PROVE  \A p : p = ProjectOf(t) => IngP!RoutesOfProject(p)' \subseteq WantedDomains(t)
<1>0. /\ SInv /\ CInv /\ Exclusive /\ request[t] # None /\ ProjectOf(t) \in Projects
      /\ Current(t) \in ToSet(request[t].services)
  BY Configurations, RequestTypes DEF Base, SInv
<1> SUFFICES ASSUME NEW p \in Projects, p = ProjectOf(t),
                    NEW d \in IngP!RoutesOfProject(p)', d \notin IngP!RoutesOfProject(p)
             PROVE  d \in WantedDomains(t)
  BY <1>0
<1>1. PICK u \in Threads : /\ request[u] # None /\ ProjectOf(u) = p
                           /\ pc[u] \in {"unrouting", "registering"}
                           /\ d \in ingress[u].domains
  BY <1>0, NewRoutes
<1>2. u = t
  BY <1>0, <1>1, Alone
<1>3. d \in Current(t).domains
  BY <1>1, <1>2 DEF Unrouted, Purged, Placing, Placed, Registers, IngressOf, IngressFor
<1> QED BY <1>0, <1>3 DEF WantedDomains

\* A request that waits removes no container.
LEMMA WaitingContainers ==
    ASSUME Base, [Next]_vars, NEW t \in Threads, request[t] # None, Waits(t),
           NEW id \in Dock!Existing, containers[id].project = ProjectOf(t)
    PROVE  Stays(id)
<1>0. LocalsOK
  BY DEF Base, SInv, CInv
<1>1. ~RemoveContainer(t)
  BY <1>0 DEF RemoveContainer, Waits, At, Goto, LocalsOK
<1>2. ~RemoveUnusedContainer(t)
  BY <1>0 DEF RemoveUnusedContainer, Waits, LocalsOK
<1> QED BY <1>1, <1>2, ContainersStay

\* A service in place keeps its routes: RegisterRoute refuses a later service
\* that asks for a domain of an earlier one.
LEMMA PlacedRoutesStay ==
    ASSUME Assumptions, Base, [Next]_vars, NEW t \in Threads, request[t] \in Applies,
           Registers(t), pc[t] \in Purged,
           NEW i \in 1 .. Len(request[t].services),
           pc[t] \in Placing => i < index[t],
           InPlace(t, request[t].services[i]),
           NEW d \in request[t].services[i].domains
    PROVE  routes'[d] = routes[d]
<1> DEFINE s == request[t].services[i]
<1>0. /\ Serves(t) /\ CInv /\ IngP!IInv
      /\ index[t] \in 1 .. Len(request[t].services)
      /\ index[t] \in Nat
  BY DEF Base, SInv, CInv, RequestFits, IngP!OInv
<1>1. d \in WantedDomains(t)
  BY ServiceAt DEF WantedDomains
<1> SUFFICES ASSUME routes'[d] # routes[d] PROVE FALSE
  OBVIOUS
<1>2. \/ ipc[t] = "match" /\ IngP!SaveIngressRoute(t) /\ d \in ingress[t].domains
      \/ ipc[t] = "remove"
  BY <1>1, RoutesStay DEF Assumptions
<1>3. pc[t] = "registering"
  BY <1>0, <1>2 DEF Serves, Purged, Placing, Placed
<1>4. ipc[t] = "match" /\ todo[t] = {} /\ d \in ingress[t].domains /\ ingress[t] = IngressOf(t)
  BY <1>2, <1>3 DEF Registers, IngP!SaveIngressRoute
<1>5. routes[d] = NoRoute \/ routes[d].service = Current(t).name
  BY <1>0, <1>4 DEF IngP!IInv, IngP!Matched, IngP!SameOwner, IngressOf, IngressFor
<1>6. routes[d] # NoRoute /\ routes[d].service = s.name
  BY DEF InPlace, RoutedTo
<1>7. i = index[t]
  BY <1>0, <1>5, <1>6, ServiceAt DEF Current, Assumptions, DistinctServices
<1> QED BY <1>0, <1>3, <1>7 DEF Placing

\* While others move, or the call of RegisterRoute gets on, a request keeps
\* what it has achieved.
LEMMA WaitDeploys ==
    ASSUME Assumptions, Base, [Next]_vars, NEW t \in Threads, request[t] \in Applies,
           Deploys(t), Waits(t)
    PROVE  Deploys(t)'
<1>0. /\ SInv /\ OInv /\ CInv /\ Exclusive /\ LocalsOK /\ Serves(t) /\ Remembers(t)
      /\ request[t] # None /\ ProjectOf(t) \in Projects
      /\ Cleared(t) /\ Walked(t) /\ Handles(t) /\ Registers(t) /\ Saves(t)
      /\ None \notin Dock!Existing
  BY Configurations, RequestTypes, ConstantsAssumption
     DEF Base, SInv, OInv, CInv, Assumptions, Deploys, Dock!Existing
<1>1. /\ pc'[t] = pc[t] /\ request'[t] = request[t] /\ index'[t] = index[t]
      /\ target'[t] = target[t] /\ endpoint'[t] = endpoint[t] /\ pending'[t] = pending[t]
      /\ ProjectOf(t)' = ProjectOf(t) /\ WantedDomains(t)' = WantedDomains(t)
      /\ WantedNames(t)' = WantedNames(t) /\ Current(t)' = Current(t)
  BY DEF Waits, ProjectOf, WantedDomains, WantedNames, Current
<1>p. PICK p \in Projects : p = ProjectOf(t) /\ p = ProjectOf(t)'
  BY <1>0, <1>1
<1>2. Cleared(t)'
  <2>1. pc[t] \in Unrouted => IngP!RoutesOfProject(p)' \subseteq WantedDomains(t)
    BY <1>0, <1>p, RoutesStayCleared DEF Cleared
  <2>2. ASSUME NEW id \in Dock!ContainerList(p)'
        PROVE  id \in Dock!ContainerList(p) /\ containers'[id].name = containers[id].name
    <3>1. ~StartContainer(t)
      BY <1>0, <1>1 DEF StartContainer, At, Goto, LocalsOK
    <3>2. id \in Dock!ContainerList(p)
      BY <1>0, <1>p, <3>1, NewlyRunning, Alone
    <3>3. id \in Dock!Existing /\ containers[id].project = ProjectOf(t)
      BY <1>p, <3>2 DEF Dock!ContainerList, Dock!RunningContainers
    <3> QED BY <1>0, <3>2, <3>3, WaitingContainers DEF Stays
  <2> QED BY <1>0, <1>1, <1>p, <2>1, <2>2
          DEF Cleared, IngP!RoutesOfProject, Dock!ContainerList, Dock!RunningContainers,
              Dock!Existing
<1>3. ASSUME NEW i \in 1 .. Len(request[t].services), pc[t] \in Purged,
             pc[t] \in Placing => i < index[t], InPlace(t, request[t].services[i])
      PROVE  InPlace(t, request[t].services[i])'
  <2>1. PICK s \in Service : s = request[t].services[i] /\ s = request'[t].services[i]
    BY <1>1, ServiceAt
  <2>2. \A d \in s.domains : routes'[d] = routes[d]
    BY <1>0, <1>3, <2>1, PlacedRoutesStay
  <2>3. \A id \in Dock!Existing : containers[id].project = ProjectOf(t) => Stays(id)
    BY <1>0, WaitingContainers
  <2>4. InPlace(t, s)'
    BY <1>1, <1>3, <2>1, <2>2, <2>3, InPlaceStays
  <2> QED BY <2>1, <2>4 DEF InPlace, Fits, RoutedTo, NameOf
<1>4. Walked(t)'
  <2>1. /\ index[t] \in 1 .. Len(request[t].services) /\ index[t] \in Nat
        /\ Len(request[t].services) \in Nat
        /\ DOMAIN request[t].services = 1 .. Len(request[t].services)
    BY <1>0, Configurations, ServiceAt DEF CInv, RequestFits, LocalsOK
  <2>2. Placing \subseteq Purged /\ Placed \subseteq Purged /\ Placing \cap Placed = {}
    BY DEF Placing, Placed, Purged
  <2>3. pc[t] \in Placing => \A i \in 1 .. index[t] - 1 : InPlace(t, request[t].services[i])'
    BY <1>0, <1>3, <2>1, <2>2 DEF Walked
  <2>4. pc[t] \in Placed =>
           \A i \in 1 .. Len(request[t].services) : InPlace(t, request[t].services[i])'
    BY <1>0, <1>3, <2>1, <2>2 DEF Walked
  <2> QED BY <1>0, <1>1, <2>1, <2>3, <2>4 DEF Walked
<1>5. Handles(t)'
  <2>1. ASSUME target[t] \in Dock!Existing PROVE Stays(target[t])
    BY <1>0, <2>1, WaitingContainers DEF Remembers
  <2>2. target[t] \in Dock!Existing' => target[t] \in Dock!Existing
    BY <1>0, ContainersKept DEF NewId
  <2> QED BY <1>0, <1>1, <2>1, <2>2 DEF Handles, Fits, NameOf, Stays
<1>6. Registers(t)'
  <2> SUFFICES ASSUME pc[t] = "registering"
               PROVE  /\ ipc'[t] \in {"match", "certify", "registered", "failed"}
                      /\ ingress'[t] = IngressOf(t)'
                      /\ ipc'[t] \in {"certify", "registered"} =>
                            \A d \in Current(t).domains :
                               /\ routes'[d] # NoRoute
                               /\ routes'[d].project = ProjectOf(t)
                               /\ routes'[d].service = Current(t).name
                               /\ routes'[d].endpoint = endpoint[t]
    BY <1>1 DEF Registers, RoutedTo
  <2>1. /\ ipc[t] \in {"match", "certify", "registered", "failed"}
        /\ ingress[t] = IngressOf(t)
        /\ Current(t) \in ToSet(request[t].services) /\ Current(t).domains \subseteq Domains
    BY <1>0, RequestTypes DEF Registers, Service
  <2>2. ingress'[t] = IngressOf(t)' /\ ingress'[t] = ingress[t]
    BY <1>0, <1>1, <2>1, RegisteringSteps DEF IngressOf
  <2>3. /\ ipc'[t] \in {"match", "certify", "registered", "failed"}
        /\ ipc'[t] \in {"certify", "registered"} =>
              ipc[t] \in {"certify", "registered"} \/ IngP!SaveIngressRoute(t)
    BY <1>0, <1>1, <2>1, RegisteringSteps
  <2>4. ASSUME ipc[t] \in {"certify", "registered"}, NEW d \in Current(t).domains
        PROVE  routes'[d] = routes[d] /\ RoutedTo(d, t, Current(t), endpoint[t])
    <3>1. d \in WantedDomains(t)
      BY <2>1 DEF WantedDomains
    <3>2. routes'[d] = routes[d]
      BY <1>0, <2>4, <3>1, RoutesStay DEF Assumptions
    <3> QED BY <1>0, <2>4, <3>2 DEF Registers
  <2>5. ASSUME IngP!SaveIngressRoute(t), NEW d \in Current(t).domains
        PROVE  /\ routes'[d] = IngressOf(t)
               /\ IngressOf(t) # NoRoute
    <3>1. IngressOf(t).domains = Current(t).domains
      BY DEF IngressOf, IngressFor
    <3>2. endpoint[t] \in Ports \cup {NoPort}
      BY <1>0 DEF LocalsOK
    <3>3. IngressOf(t) \in Ingresses
      BY <2>1, <3>2, IngressOfConfig DEF IngressOf, ProjectOf
    <3>4. IngressOf(t) # NoRoute
      BY <3>3, ConstantsAssumption
    <3>5. d \in Domains /\ d \in ingress[t].domains
      BY <2>1, <2>5, <3>1
    <3> QED BY <2>1, <2>5, <3>4, <3>5 DEF IngP!SaveIngressRoute
  <2> QED BY <2>2, <2>3, <2>4, <2>5 DEF RoutedTo, IngressOf, IngressFor
<1>7. Saves(t)'
  <2>1. pc[t] = "applied" => ~SaveProject(t) /\ ~RemoveProject(t)
    BY DEF SaveProject, RemoveProject, At
  <2> QED BY <1>0, <1>1, <2>1, SavedStays DEF Saves
<1> QED BY <1>2, <1>4, <1>5, <1>6, <1>7 DEF Deploys

(***************************************************************************)
(* The steps of the request itself                                         *)
(***************************************************************************)

\* Before it has looked at the routes, nothing is claimed of a request.
LEMMA EarlyDeploys ==
    ASSUME NEW t \in Threads, index'[t] = 1,
           pc'[t] \in {"inspectNetwork", "createNetwork", "unroute", "unrouting"}
    PROVE  Deploys(t)'
BY DEF Deploys, Cleared, Walked, Handles, Registers, Saves, Unrouted, Purged, Placing, Placed

\* From the removal of the routes to the first service
LEMMA CleaningDeploys ==
    ASSUME Base, IngP!RemovalComplete, [Next]_vars, NEW t \in Threads, request[t] \in Applies,
           Deploys(t), CleanStep(t), pc'[t] # "failed"
    PROVE  Deploys(t)'
<1>0. /\ CInv /\ LocalsOK /\ Serves(t) /\ Cleared(t) /\ Walked(t) /\ RequestFits(t)
      /\ Dock!TypeOK /\ request[t] \notin Deletes
  BY Configurations DEF Base, SInv, CInv, Deploys
<1>1. UNCHANGED request
  BY DEF CleanStep, RemoveUnusedRoutes, UnusedRoutesRemoved, ListContainers,
         RemoveUnusedContainer, UnusedContainersRemoved, DeleteNetwork, RemoveProject
<1>2. ~DeleteNetwork(t) /\ ~RemoveProject(t)
  BY <1>0 DEF DeleteNetwork, RemoveProject, At, RequestFits, DeleteLabels
<1>3. pc[t] \in {"unroute", "unrouting", "list", "purge"} /\ index[t] = 1 /\ index'[t] = 1
  BY <1>0, <1>2
     DEF CleanStep, RemoveUnusedRoutes, UnusedRoutesRemoved, ListContainers,
         RemoveUnusedContainer, UnusedContainersRemoved, At, locals, Walked, Labels, Goals,
         Purged, Placing, Placed
<1>p. PICK p : p = ProjectOf(t) /\ p = ProjectOf(t)'
  BY <1>1 DEF ProjectOf
<1>4. WantedDomains(t)' = WantedDomains(t) /\ WantedNames(t)' = WantedNames(t)
  BY <1>1 DEF WantedDomains, WantedNames, ProjectOf
<1> DEFINE Routes == IngP!RoutesOfProject(p)' \subseteq WantedDomains(t)
           Wanted(id) == containers'[id].name \in WantedNames(t)
<1>5. ASSUME pc'[t] \in {"list", "purge", "find"}, Routes,
             \A id \in Dock!ContainerList(p)' :
                /\ pc'[t] = "purge" => id \in pending'[t] \/ Wanted(id)
                /\ pc'[t] = "find" => Wanted(id)
      PROVE  Deploys(t)'
  <2>1. Cleared(t)'
    BY <1>4, <1>5, <1>p
       DEF Cleared, IngP!RoutesOfProject, Dock!ContainerList, Dock!RunningContainers,
           Dock!Existing, Purged, Placing, Placed
  <2> QED BY <1>3, <1>5, <2>1
          DEF Deploys, Walked, Handles, Registers, Saves, Placed
<1>6. CASE RemoveUnusedRoutes(t)
  BY <1>0, <1>3, <1>6, EarlyDeploys DEF RemoveUnusedRoutes, Goto, LocalsOK
<1>7. CASE UnusedRoutesRemoved(t)
  <2>1. pc[t] = "unrouting" /\ UNCHANGED routes /\ pc'[t] = "list" /\ ipc[t] = "removed"
    BY <1>0, <1>7 DEF UnusedRoutesRemoved, At, Goto, Ing!Return, LocalsOK
  <2>2. Routes
    BY <1>0, <1>p, <2>1 DEF Serves, IngP!RemovalComplete, IngP!RoutesOfProject
  <2> QED BY <1>5, <2>1, <2>2
<1>8. ASSUME UNCHANGED routes, pc[t] \in {"list", "purge"} PROVE Routes
  BY <1>0, <1>8, <1>p DEF Cleared, IngP!RoutesOfProject, Unrouted
<1>9. CASE ListContainers(t)
  <2>1. /\ pc[t] = "list" /\ UNCHANGED <<routes, containers>>
        /\ pc'[t] = "purge" /\ pending'[t] = Unused(t)
    BY <1>0, <1>9 DEF ListContainers, At, Goto, ivars, dvars, LocalsOK
  <2>2. ASSUME NEW id \in Dock!ContainerList(p)' PROVE id \in pending'[t] \/ Wanted(id)
    BY <1>p, <2>1, <2>2
       DEF Unused, Dock!ContainerList, Dock!RunningContainers, Dock!Existing
  <2> QED BY <1>5, <1>8, <2>1, <2>2
<1>10. CASE RemoveUnusedContainer(t)
  <2>1. /\ pc[t] = "purge" /\ pc'[t] = "purge" /\ UNCHANGED routes
        /\ \E id \in pending[t] : /\ pending'[t] = pending[t] \ {id}
                                  /\ Dock!ContainerRemove(id)
    BY <1>0, <1>10 DEF RemoveUnusedContainer, At, Goto, ivars, LocalsOK
  <2>2. PICK id \in pending[t] : /\ pending'[t] = pending[t] \ {id}
                                 /\ Dock!ContainerRemove(id)
    BY <2>1
  <2>3. ASSUME NEW j \in Dock!ContainerList(p)'
        PROVE  j # id /\ j \in Dock!ContainerList(p) /\ containers'[j] = containers[j]
    BY <1>0, <2>2
       DEF Dock!ContainerRemove, Dock!ContainerList, Dock!RunningContainers, Dock!Existing,
           Dock!TypeOK
  <2>4. ASSUME NEW j \in Dock!ContainerList(p)' PROVE j \in pending'[t] \/ Wanted(j)
    BY <1>0, <1>p, <2>1, <2>2, <2>3 DEF Cleared
  <2> QED BY <1>5, <1>8, <2>1, <2>4
<1>11. CASE UnusedContainersRemoved(t)
  <2>1. IsApply(t)
    BY <1>0, Configurations DEF IsApply
  <2>2. /\ pc[t] = "purge" /\ pending[t] = {} /\ UNCHANGED <<routes, containers>>
        /\ pc'[t] = "find"
    BY <1>0, <1>11, <2>1 DEF UnusedContainersRemoved, At, Goto, ivars, dvars, LocalsOK
  <2>3. ASSUME NEW id \in Dock!ContainerList(p)' PROVE Wanted(id)
    BY <1>0, <1>p, <2>2
       DEF Cleared, Dock!ContainerList, Dock!RunningContainers, Dock!Existing
  <2> QED BY <1>5, <1>8, <2>2, <2>3
<1> QED BY <1>2, <1>6, <1>7, <1>9, <1>10, <1>11 DEF CleanStep

\* No step of ApplyService disturbs the services that are in place.
LEMMA PlacingSteps ==
    ASSUME Assumptions, Base, [Next]_vars, NEW t \in Threads, request[t] \in Applies,
           Deploys(t), ApplyStep(t) \/ ErrorIgnored(t), pc[t] \in Purged, pc'[t] \in Purged
    PROVE  /\ request'[t] = request[t]
           /\ UNCHANGED routes
           /\ Cleared(t)'
           /\ \A i \in 1 .. Len(request[t].services) :
                 /\ RemoveContainer(t) => i < index[t]
                 /\ InPlace(t, request[t].services[i])
                 => InPlace(t, request[t].services[i])'
<1>0. /\ SInv /\ OInv /\ CInv /\ Exclusive /\ Cleared(t) /\ Handles(t) /\ Remembers(t)
      /\ request[t] # None /\ ProjectOf(t) \in Projects
      /\ index[t] \in 1 .. Len(request[t].services)
      /\ Current(t) \in Service /\ Current(t) \in ToSet(request[t].services)
  BY Configurations, RequestTypes
     DEF Base, SInv, OInv, CInv, Assumptions, Deploys, RequestFits
<1>1. UNCHANGED <<routes, request>>
  BY DEF ApplyStep, ErrorIgnored, InspectNetwork, CreateNetwork, FindContainer,
         RemoveContainer, CreateContainer, CreateRefused, StartContainer, RegisterRoute,
         RouteRegistered, SaveProject, ivars, Ing!RegisterRoute, Ing!Return
<1>2. /\ ProjectOf(t)' = ProjectOf(t) /\ WantedDomains(t)' = WantedDomains(t)
      /\ WantedNames(t)' = WantedNames(t) /\ request'[t] = request[t]
  BY <1>1 DEF ProjectOf, WantedDomains, WantedNames
<1>p. PICK p \in Projects : p = ProjectOf(t) /\ p = ProjectOf(t)'
  BY <1>0, <1>2
<1>3. ~RemoveUnusedContainer(t)
  BY DEF RemoveUnusedContainer, At, Purged, Placing, Placed
<1>4. Cleared(t)'
  <2>1. ASSUME NEW id \in Dock!ContainerList(p)' PROVE containers'[id].name \in WantedNames(t)
    <3>1. CASE id \in Dock!ContainerList(p)
      <4>1. id \in Dock!Existing /\ id \in Dock!Existing'
        BY <2>1, <3>1 DEF Dock!ContainerList, Dock!RunningContainers
      <4>2. containers'[id].name = containers[id].name
        BY <1>0, <4>1, ContainersKept DEF NewId
      <4> QED BY <1>0, <1>p, <3>1, <4>2 DEF Cleared
    <3>2. CASE id \notin Dock!ContainerList(p)
      <4>1. StartContainer(t) /\ pc[t] = "start" /\ id = target[t]
        <5>1. PICK u \in Threads : /\ request[u] # None /\ ProjectOf(u) = p
                                   /\ StartContainer(u) /\ pc[u] = "start" /\ id = target[u]
          BY <1>0, <2>1, <3>2, NewlyRunning
        <5>2. u = t
          BY <1>0, <1>p, <5>1, Alone
        <5> QED BY <5>1, <5>2
      <4>2. id \in Dock!Existing /\ containers[id].name = NameOf(t, Current(t))
        BY <1>0, <4>1 DEF Handles, Fits
      <4>3. containers'[id].name = containers[id].name
        <5>1. id \in Dock!Existing'
          BY <2>1 DEF Dock!ContainerList, Dock!RunningContainers
        <5> QED BY <1>0, <4>2, <5>1, ContainersKept DEF NewId
      <4> QED BY <1>0, <4>2, <4>3 DEF NameOf, WantedNames
    <3> QED BY <3>1, <3>2
  <2>2. pc[t] \in Unrouted /\ pc'[t] # "purge"
    BY DEF Unrouted, Purged, Placing, Placed
  <2> QED BY <1>0, <1>1, <1>2, <1>p, <2>1, <2>2
          DEF Cleared, IngP!RoutesOfProject, Dock!ContainerList, Dock!RunningContainers,
              Dock!Existing
<1>5. ASSUME NEW i \in 1 .. Len(request[t].services), RemoveContainer(t) => i < index[t],
             InPlace(t, request[t].services[i])
      PROVE  InPlace(t, request[t].services[i])'
  <2>1. PICK s \in Service : s = request[t].services[i] /\ s = request'[t].services[i]
    BY <1>2, ServiceAt
  <2>2. ASSUME NEW id \in Dock!Existing, containers[id].project = ProjectOf(t), Fits(t, s, id)
        PROVE  Stays(id)
    <3>1. CASE RemoveContainer(t) /\ id = target[t]
      <4>1. pc[t] = "replace" /\ id \in Dock!Existing
        BY <2>2, <3>1 DEF RemoveContainer, At, Fits
      <4>2. NameOf(t, Current(t)) = NameOf(t, s)
        BY <1>0, <2>2, <3>1, <4>1 DEF Handles, Fits
      <4>3. Current(t).name = s.name
        BY <1>0, <4>2 DEF NameOf, Assumptions, NamesDetermineServices, Service
      <4>4. i = index[t]
        BY <1>0, <2>1, <4>3, ServiceAt DEF Current, Assumptions, DistinctServices
      <4> QED BY <1>0, <1>5, <3>1, <4>4
    <3>2. CASE ~(RemoveContainer(t) /\ id = target[t])
      <4> QED BY <1>0, <1>3, <2>2, <3>2, ContainersStay
    <3> QED BY <3>1, <3>2
  <2>3. InPlace(t, s)'
    BY <1>1, <1>2, <1>5, <2>1, <2>2, InPlaceStays
  <2> QED BY <2>1, <2>3 DEF InPlace, Fits, RoutedTo, NameOf
<1> QED BY <1>1, <1>2, <1>4, <1>5

\* The steps of ApplyService and SaveProject
LEMMA ApplyingDeploys ==
    ASSUME Assumptions, Base, [Next]_vars, NEW t \in Threads, request[t] \in Applies,
           Deploys(t), ApplyStep(t) \/ ErrorIgnored(t), pc'[t] # "failed"
    PROVE  Deploys(t)'
<1>0. /\ CInv /\ LocalsOK /\ Dock!TypeOK /\ Serves(t) /\ Remembers(t) /\ RequestFits(t)
      /\ Cleared(t) /\ Walked(t) /\ Handles(t) /\ Registers(t)
      /\ request[t] # None /\ ProjectOf(t) \in Projects /\ request[t] \notin Deletes
      /\ index[t] \in 1 .. Len(request[t].services)
      /\ Len(request[t].services) \in Nat /\ index[t] \in Nat
      /\ DOMAIN request[t].services = 1 .. Len(request[t].services)
  BY Configurations, RequestTypes, ServiceAt
     DEF Base, SInv, OInv, CInv, Deploys, RequestFits, LocalsOK
<1>1. CASE InspectNetwork(t) \/ CreateNetwork(t)
  <2>1. /\ pc[t] \in {"inspectNetwork", "createNetwork"}
        /\ pc'[t] \in {"unroute", "createNetwork"} /\ index'[t] = index[t]
    BY <1>0, <1>1 DEF InspectNetwork, CreateNetwork, At, Goto, LocalsOK
  <2> QED BY <1>0, <2>1, EarlyDeploys
          DEF Walked, Labels, Goals, Purged, Placing, Placed
<1>2. CASE ErrorIgnored(t) /\ pc[t] = "inspectNetwork"
  <2>1. pc'[t] = "createNetwork" /\ index'[t] = index[t]
    BY <1>0, <1>2 DEF ErrorIgnored, At, Goto, LocalsOK, locals
  <2> QED BY <1>0, <1>2, <2>1, EarlyDeploys
          DEF Walked, Labels, Goals, Purged, Placing, Placed
<1>3. ASSUME pc[t] \in Placing, pc'[t] \in Placing, index'[t] = index[t], Handles(t)', Registers(t)'
      PROVE  Deploys(t)'
  <2>1. /\ request'[t] = request[t] /\ Cleared(t)'
        /\ \A i \in 1 .. Len(request[t].services) :
              i < index[t] /\ InPlace(t, request[t].services[i])
                 => InPlace(t, request[t].services[i])'
    BY <1>3, PlacingSteps DEF Purged
  <2>2. Walked(t)'
    BY <1>0, <1>3, <2>1 DEF Walked, Purged, Placing, Placed
  <2> QED BY <1>3, <2>1, <2>2 DEF Deploys, Saves, Placing
<1>4. CASE ErrorIgnored(t) /\ pc[t] = "find"
  <2>1. pc'[t] = "create" /\ index'[t] = index[t]
    BY <1>0, <1>4 DEF ErrorIgnored, At, Goto, LocalsOK, locals
  <2> QED BY <1>3, <1>4, <2>1 DEF Placing, Handles, Registers
<1>5. CASE FindContainer(t)
  <2>1. /\ pc[t] = "find" /\ index'[t] = index[t] /\ UNCHANGED <<request, containers>>
        /\ ProjectOf(t)' = ProjectOf(t) /\ Current(t)' = Current(t)
    BY <1>5 DEF FindContainer, At, dvars, ProjectOf, Current
  <2>2. CASE pc'[t] = "create"
    BY <1>3, <2>1, <2>2 DEF Placing, Handles, Registers
  <2>3. ASSUME NEW id \in Dock!WithName(ContainerName(ProjectOf(t), Current(t).name)),
               target' = [target EXCEPT ![t] = id],
               IF UpToDate(containers[id], Current(t))
               THEN /\ endpoint' = [endpoint EXCEPT ![t] = containers[id].port]
                    /\ Goto(t, IF containers[id].running THEN "register" ELSE "start")
               ELSE /\ endpoint' = [endpoint EXCEPT ![t] = NoPort]
                    /\ Goto(t, "replace")
        PROVE  Deploys(t)'
    <3>1. /\ target'[t] = id /\ id \in Dock!Existing /\ id \in Dock!Existing'
          /\ containers[id].name = NameOf(t, Current(t))
          /\ NameOf(t, Current(t)) = NameOf(t, Current(t))'
      BY <1>0, <2>1, <2>3 DEF LocalsOK, Dock!WithName, Dock!Existing, NameOf
    <3>2. CASE UpToDate(containers[id], Current(t))
      <4>1. /\ endpoint'[t] = containers[id].port
            /\ pc'[t] \in {"register", "start"}
            /\ pc'[t] = "register" => containers[id].running
        BY <1>0, <2>3, <3>2 DEF LocalsOK, Goto
      <4>2. Handles(t)'
        BY <2>1, <3>1, <3>2, <4>1 DEF Handles, Fits, UpToDate, NameOf
      <4> QED BY <1>3, <2>1, <4>1, <4>2 DEF Placing, Registers
    <3>3. CASE ~UpToDate(containers[id], Current(t))
      <4>1. pc'[t] = "replace"
        BY <1>0, <2>3, <3>3 DEF LocalsOK, Goto
      <4>2. Handles(t)'
        BY <2>1, <3>1, <3>3, <4>1 DEF Handles, NameOf, UpToDate
      <4> QED BY <1>3, <2>1, <4>1, <4>2 DEF Placing, Registers
    <3> QED BY <3>2, <3>3
  <2>4. Goto(t, "create") => pc'[t] = "create"
    BY <1>0 DEF Goto, LocalsOK
  <2> QED BY <1>5, <2>2, <2>3, <2>4 DEF FindContainer
<1>6. CASE RemoveContainer(t)
  <2>1. pc[t] = "replace" /\ pc'[t] = "create" /\ index'[t] = index[t]
    BY <1>0, <1>6 DEF RemoveContainer, At, Goto, LocalsOK, locals
  <2> QED BY <1>3, <2>1 DEF Placing, Handles, Registers
<1>7. CASE CreateContainer(t)
  <2>1. PICK id \in Ids, port \in Ports \cup {NoPort} :
           /\ Dock!ContainerCreate(id, NewContainer(t, port))
           /\ target' = [target EXCEPT ![t] = id]
           /\ endpoint' = [endpoint EXCEPT ![t] = port]
    BY <1>7 DEF CreateContainer
  <2>2. /\ pc[t] = "create" /\ pc'[t] = "start" /\ index'[t] = index[t] /\ UNCHANGED request
        /\ ProjectOf(t)' = ProjectOf(t) /\ Current(t)' = Current(t)
    BY <1>0, <1>7 DEF CreateContainer, At, Goto, LocalsOK, ProjectOf, Current
  <2>3. /\ target'[t] = id /\ endpoint'[t] = port
        /\ containers'[id] = NewContainer(t, port)
    BY <1>0, <2>1 DEF LocalsOK, Dock!TypeOK, Dock!ContainerCreate
  <2>4. id \in Dock!Existing'
    <3>1. Dock!TypeOK'
      BY <1>0, NextDock
    <3>2. NewContainer(t, port) # Gone
      <4>1. Current(t) \in Service /\ netLive[t] \in BOOLEAN
        BY <1>0, RequestTypes DEF LocalsOK
      <4>2. NewContainer(t, port) \in Dock!Container
        BY <1>0, <4>1 DEF NewContainer, Dock!Container, Names, Service
      <4> QED BY <4>2, ConstantsAssumption
    <3> QED BY <2>3, <3>2 DEF Dock!Existing
  <2>5. Handles(t)'
    BY <2>2, <2>3, <2>4 DEF Handles, Fits, NameOf, NewContainer
  <2> QED BY <1>3, <2>2, <2>5 DEF Placing, Registers
<1>8. CASE StartContainer(t)
  <2>1. /\ pc[t] = "start" /\ pc'[t] = "register" /\ index'[t] = index[t]
        /\ target'[t] = target[t] /\ endpoint'[t] = endpoint[t]
        /\ Dock!ContainerStart(target[t]) /\ UNCHANGED request
        /\ ProjectOf(t)' = ProjectOf(t) /\ Current(t)' = Current(t)
    BY <1>0, <1>8 DEF StartContainer, At, Goto, LocalsOK, locals, ProjectOf, Current
  <2>2. Fits(t, Current(t), target[t]) /\ containers[target[t]].port = endpoint[t]
    BY <1>0, <2>1 DEF Handles
  <2>3. Stays(target[t]) /\ containers'[target[t]].running
    <3>1. containers[target[t]] \in Dock!Container /\ target[t] \in Ids
      BY <1>0, <2>2 DEF Fits, Dock!Existing, Dock!TypeOK
    <3>2. containers'[target[t]] = [containers[target[t]] EXCEPT !.running = TRUE]
      BY <1>0, <2>1, <3>1 DEF Dock!ContainerStart, Dock!TypeOK
    <3>3. [containers[target[t]] EXCEPT !.running = TRUE] \in Dock!Container
      BY <3>1 DEF Dock!Container
    <3> QED BY <3>1, <3>2, <3>3, ConstantsAssumption DEF Stays, Dock!Container, Dock!Existing
  <2>4. Handles(t)'
    BY <2>1, <2>2, <2>3 DEF Handles, Fits, NameOf, Stays
  <2> QED BY <1>3, <2>1, <2>4 DEF Placing, Registers
<1>9. CASE RegisterRoute(t)
  <2>1. /\ pc[t] = "register" /\ pc'[t] = "registering" /\ index'[t] = index[t]
        /\ target'[t] = target[t] /\ endpoint'[t] = endpoint[t]
        /\ UNCHANGED <<request, containers>>
        /\ ProjectOf(t)' = ProjectOf(t) /\ Current(t)' = Current(t)
        /\ IngressOf(t)' = IngressOf(t)
    BY <1>0, <1>9
       DEF RegisterRoute, At, Goto, LocalsOK, locals, dvars, ProjectOf, Current, IngressOf
  <2>2. Handles(t)'
    BY <1>0, <2>1 DEF Handles, Fits, NameOf, Dock!Existing
  <2>3. Registers(t)'
    <3>1. IngP!TypeOK
      BY <1>0 DEF CInv, IngP!TInv
    <3>2. /\ ingress'[t] = IngressOf(t)
          /\ \/ ipc'[t] \in {"match", "failed"}
             \/ ipc'[t] = "registered" /\ IngressOf(t).domains = {}
      BY <1>9, <3>1 DEF RegisterRoute, Ing!RegisterRoute, Ing!Goto, IngP!TypeOK
    <3> QED BY <2>1, <3>2 DEF Registers, IngressOf, IngressFor
  <2> QED BY <1>3, <2>1, <2>2, <2>3 DEF Placing
<1>10. CASE RouteRegistered(t)
  <2>1. /\ pc[t] = "registering" /\ ipc[t] = "registered"
        /\ UNCHANGED <<request, containers, routes>>
        /\ IF LastService(t) THEN pc'[t] = "save" /\ index'[t] = index[t]
                             ELSE pc'[t] = "find" /\ index'[t] = index[t] + 1
    BY <1>0, <1>10 DEF RouteRegistered, At, Goto, LocalsOK, dvars, Ing!Return, LastService
  <2>2. /\ request'[t] = request[t] /\ Cleared(t)' /\ ~RemoveContainer(t)
        /\ \A i \in 1 .. Len(request[t].services) :
              InPlace(t, request[t].services[i]) => InPlace(t, request[t].services[i])'
    BY <2>1, PlacingSteps DEF Purged, Placing, Placed, RemoveContainer, At
  <2>3. InPlace(t, Current(t))
    <3>1. /\ Fits(t, Current(t), target[t])
          /\ ExitsMidway \/ containers[target[t]].running
          /\ containers[target[t]].project = ProjectOf(t)
          /\ containers[target[t]].port = endpoint[t]
      BY <1>0, <2>1 DEF Handles, Fits, Remembers
    <3> QED BY <1>0, <2>1, <3>1 DEF InPlace, Registers, Fits
  <2>4. \A i \in 1 .. Len(request[t].services) :
           i <= index[t] => InPlace(t, request[t].services[i])
    BY <1>0, <2>1, <2>3 DEF Walked, Placing, Current
  <2>5. Walked(t)'
    <3>1. CASE LastService(t)
      <4>1. pc'[t] = "save" /\ \A i \in 1 .. Len(request[t].services) : i <= index[t]
        BY <1>0, <2>1, <3>1 DEF LastService
      <4> QED BY <1>0, <2>2, <2>4, <4>1 DEF Walked, Purged, Placing, Placed
    <3>2. CASE ~LastService(t)
      <4>1. /\ pc'[t] = "find"
            /\ \A i \in 1 .. index'[t] - 1 : i \in 1 .. Len(request[t].services) /\ i <= index[t]
        BY <1>0, <2>1, <3>2
      <4> QED BY <1>0, <2>2, <2>4, <4>1 DEF Walked, Purged, Placing, Placed
    <3> QED BY <3>1, <3>2
  <2>6. pc'[t] \in {"find", "save"}
    BY <2>1
  <2> QED BY <2>2, <2>5, <2>6 DEF Deploys, Handles, Registers, Saves
<1>11. CASE SaveProject(t)
  <2>1. /\ pc[t] = "save" /\ pc'[t] = "applied" /\ UNCHANGED request
        /\ saved'[ProjectOf(t)] = request[t].services
    BY <1>0, <1>11 DEF SaveProject, At, Goto, LocalsOK
  <2>2. /\ request'[t] = request[t] /\ Cleared(t)' /\ ~RemoveContainer(t)
        /\ \A i \in 1 .. Len(request[t].services) :
              InPlace(t, request[t].services[i]) => InPlace(t, request[t].services[i])'
    BY <2>1, PlacingSteps DEF Purged, Placing, Placed, RemoveContainer, At
  <2>3. Walked(t)'
    BY <1>0, <2>1, <2>2 DEF Walked, Purged, Placing, Placed
  <2> QED BY <2>1, <2>2, <2>3 DEF Deploys, Handles, Registers, Saves, ProjectOf
<1>12. ~CreateRefused(t)
  BY <1>0 DEF CreateRefused, Goto, LocalsOK
<1>13. ErrorIgnored(t) => pc[t] \in {"inspectNetwork", "find"}
  BY <1>0 DEF ErrorIgnored, At, RequestFits, DeleteLabels
<1> QED BY <1>1, <1>2, <1>4, <1>5, <1>6, <1>7, <1>8, <1>9, <1>10, <1>11, <1>12, <1>13
        DEF ApplyStep

(***************************************************************************)
(* The invariant holds                                                     *)
(***************************************************************************)

\* No request is under way at first.
LEMMA InitDInv == Init => DInv
<1> SUFFICES ASSUME Init PROVE DInv
  OBVIOUS
<1>1. UniqueNames
  BY DEF Init, Dock!Init, UniqueNames, Dock!Existing
<1>2. \A t \in Threads : request[t] \notin Applies /\ pc[t] # "applied"
  BY ConstantsAssumption DEF Init
<1> QED BY <1>1, <1>2, InitBase DEF DInv

\* Every step keeps what a request has achieved.
LEMMA NextDeploys ==
    ASSUME Assumptions, DInv, IngP!RemovalComplete, [Next]_vars,
           NEW t \in Threads, request'[t] \in Applies, pc'[t] \notin {"idle", "failed"}
    PROVE  Deploys(t)'
<1>0. Base /\ SInv /\ CInv /\ LocalsOK /\ RequestFits(t)
  BY DEF DInv, Base, SInv, CInv
<1>1. CASE Waits(t)
  <2>1. request[t] \in Applies /\ Deploys(t)
    BY <1>1 DEF Waits, DInv
  <2> QED BY <1>0, <1>1, <2>1, WaitDeploys
<1>2. CASE Client(t)
  <2>1. CASE \E config \in Applies : Apply(t, config)
    <3>1. pc'[t] = "inspectNetwork" /\ index'[t] = 1
      BY <1>0, <2>1 DEF Apply, At, Goto, LocalsOK, RequestFits, locals
    <3> QED BY <3>1, EarlyDeploys
  <2>2. ASSUME NEW p \in Projects, Delete(t, p) PROVE FALSE
    <3>1. [project |-> p, services |-> <<>>] \in Deletes
      BY DEF Deletes
    <3>2. request'[t] = [project |-> p, services |-> <<>>]
      BY <1>0, <2>2 DEF Delete, LocalsOK
    <3> QED BY <3>1, <3>2, Configurations
  <2> QED BY <1>2, <2>1, <2>2 DEF Client
<1>3. CASE ApplyStep(t) \/ CleanStep(t) \/ ErrorIgnored(t)
  <2>1. UNCHANGED request
    BY <1>3
       DEF ApplyStep, ErrorIgnored, InspectNetwork, CreateNetwork, FindContainer,
           RemoveContainer, CreateContainer, CreateRefused, StartContainer, RegisterRoute,
           RouteRegistered, SaveProject, CleanStep, RemoveUnusedRoutes, UnusedRoutesRemoved,
           ListContainers, RemoveUnusedContainer, UnusedContainersRemoved, DeleteNetwork,
           RemoveProject
  <2>2. request[t] \in Applies /\ Deploys(t)
    BY <2>1 DEF DInv
  <2> QED BY <1>0, <1>3, <2>2, CleaningDeploys, ApplyingDeploys
<1> QED BY <1>0, <1>1, <1>2, <1>3, OwnSteps

\* A request that is answered as applied is an apply.
LEMMA NextAnswered ==
    ASSUME CInv, [Next]_vars, NEW t \in Threads, pc'[t] = "applied",
           pc[t] = "applied" => request[t] \in Applies
    PROVE  request'[t] \in Applies
<1>0. LocalsOK /\ RequestFits(t)
  BY DEF CInv
<1> USE <1>0 DEF LocalsOK, At, Goto
<1>1. CASE Waits(t)
  BY <1>1 DEF Waits
<1>2. ~Client(t)
  BY DEF Client, Apply, Delete
<1>3. CASE ApplyStep(t)
  <2>1. ~FindContainer(t)
    BY DEF FindContainer
  <2>2. SaveProject(t)
    BY <1>3, <2>1
       DEF ApplyStep, InspectNetwork, CreateNetwork, RemoveContainer, CreateContainer,
           CreateRefused, StartContainer, RegisterRoute, RouteRegistered
  <2> QED BY <2>2 DEF SaveProject, RequestFits, ApplyLabels
<1>4. ~CleanStep(t)
  BY DEF CleanStep, RemoveUnusedRoutes, UnusedRoutesRemoved, ListContainers,
         RemoveUnusedContainer, UnusedContainersRemoved, DeleteNetwork, RemoveProject
<1>5. ~ErrorIgnored(t)
  BY DEF ErrorIgnored
<1> QED BY <1>1, <1>2, <1>3, <1>4, <1>5, OwnSteps

\* Every step keeps the invariant.
LEMMA NextDInv ==
    ASSUME Assumptions PROVE DInv /\ IngP!RemovalComplete /\ [OrderlyNext]_vars => DInv'
<1> SUFFICES ASSUME DInv, IngP!RemovalComplete, [OrderlyNext]_vars PROVE DInv'
  OBVIOUS
<1>1. Base /\ CInv /\ UniqueNames /\ [Next]_vars
  BY OrderlyIsNext DEF DInv, Base, SInv
<1>2. Base' /\ CInv' /\ UniqueNames'
  BY <1>1, NextBase, NextUnique DEF Base, SInv
<1>3. ASSUME NEW t \in Threads, request'[t] \in Applies PROVE Deploys(t)'
  <2>1. pc'[t] # "idle"
    BY <1>2, <1>3, Configurations DEF CInv, RequestFits
  <2>2. CASE pc'[t] = "failed"
    BY <2>2 DEF Deploys, Cleared, Walked, Handles, Registers, Saves, Unrouted, Purged,
                Placing, Placed
  <2> QED BY <1>1, <1>3, <2>1, <2>2, NextDeploys
<1>4. ASSUME NEW t \in Threads, pc'[t] = "applied" PROVE request'[t] \in Applies
  BY <1>1, <1>4, NextAnswered DEF DInv
<1> QED BY <1>2, <1>3, <1>4 DEF DInv

(***************************************************************************)
(* What is in place when a request is answered                             *)
(***************************************************************************)

\* The containers that service s of the request of thread t asks for, and those
\* of them that run
HasOf(t, s) == {id \in Dock!Existing : /\ containers[id].project = ProjectOf(t)
                                       /\ containers[id].name = NameOf(t, s)
                                       /\ containers[id].hash = s.hash}

RunsOf(t, s) == {id \in Dock!ContainerList(ProjectOf(t)) :
                    /\ containers[id].name = ContainerName(ProjectOf(t), s.name)
                    /\ containers[id].hash = s.hash}

\* When all services are in place there is nothing else: a name of the
\* configuration has one container, and it is the one in place.
LEMMA PlacedRouted ==
    ASSUME UniqueNames, NEW t \in Threads, request[t] \in Applies, pc[t] \in Placed,
           Cleared(t), Walked(t)
    PROVE  /\ \A s \in ToSet(request[t].services) : \E id \in HasOf(t, s) :
                 /\ ExitsMidway \/ containers[id].running
                 /\ \A d \in s.domains : RoutedTo(d, t, s, containers[id].port)
           /\ Ing!RoutesOfProject(ProjectOf(t)) = WantedDomains(t)
           /\ Dock!ContainerList(ProjectOf(t))
                 \subseteq UNION {HasOf(t, s) : s \in ToSet(request[t].services)}
<1>0. DOMAIN request[t].services = 1 .. Len(request[t].services)
  BY Configurations
<1>1. ASSUME NEW s \in ToSet(request[t].services)
      PROVE  \E id \in HasOf(t, s) :
                /\ ExitsMidway \/ containers[id].running
                /\ \A d \in s.domains : RoutedTo(d, t, s, containers[id].port)
  <2>1. PICK i \in 1 .. Len(request[t].services) : s = request[t].services[i]
    BY <1>0 DEF ToSet
  <2>2. InPlace(t, s)
    BY <1>0, <2>1 DEF Walked
  <2> QED BY <2>2 DEF InPlace, Fits, HasOf
<1>2. Ing!RoutesOfProject(ProjectOf(t)) = WantedDomains(t)
  <2>1. Ing!RoutesOfProject(ProjectOf(t)) \subseteq WantedDomains(t)
    BY DEF Cleared, Unrouted, Purged, IngP!RoutesOfProject, Ing!RoutesOfProject
  <2>2. ASSUME NEW s \in ToSet(request[t].services), NEW d \in s.domains
        PROVE  d \in Ing!RoutesOfProject(ProjectOf(t))
    <3>1. d \in Domains
      BY Configurations DEF Service
    <3> QED BY <1>1, <3>1 DEF RoutedTo, Ing!RoutesOfProject
  <2> QED BY <2>1, <2>2 DEF WantedDomains
<1>3. ASSUME NEW id \in Dock!ContainerList(ProjectOf(t))
      PROVE  \E s \in ToSet(request[t].services) : id \in HasOf(t, s)
  <2>1. PICK s \in ToSet(request[t].services) : containers[id].name = NameOf(t, s)
    BY DEF Cleared, Purged, WantedNames, NameOf
  <2>2. PICK j \in HasOf(t, s) : TRUE
    BY <1>1
  <2>3. j = id
    BY <2>1, <2>2 DEF HasOf, UniqueNames, Dock!ContainerList, Dock!RunningContainers
  <2> QED BY <2>2, <2>3
<1> QED BY <1>1, <1>2, <1>3

LEMMA PlacedDeployed ==
    ASSUME UniqueNames, ~ExitsMidway, NEW t \in Threads, request[t] \in Applies,
           pc[t] \in Placed, Cleared(t), Walked(t)
    PROVE  /\ \A s \in ToSet(request[t].services) : \E id \in RunsOf(t, s) :
                 \A d \in s.domains : RoutedTo(d, t, s, containers[id].port)
           /\ Ing!RoutesOfProject(ProjectOf(t)) = WantedDomains(t)
           /\ Dock!ContainerList(ProjectOf(t))
                 = UNION {RunsOf(t, s) : s \in ToSet(request[t].services)}
<1>1. \A s : RunsOf(t, s) = HasOf(t, s) \cap Dock!ContainerList(ProjectOf(t))
  BY DEF RunsOf, HasOf, NameOf, Dock!ContainerList, Dock!RunningContainers
<1>2. \A s : \A id \in HasOf(t, s) :
         containers[id].running => id \in Dock!ContainerList(ProjectOf(t))
  BY DEF HasOf, Dock!ContainerList, Dock!RunningContainers
<1>3. /\ \A s \in ToSet(request[t].services) : \E id \in HasOf(t, s) :
            /\ ExitsMidway \/ containers[id].running
            /\ \A d \in s.domains : RoutedTo(d, t, s, containers[id].port)
      /\ Ing!RoutesOfProject(ProjectOf(t)) = WantedDomains(t)
      /\ Dock!ContainerList(ProjectOf(t))
            \subseteq UNION {HasOf(t, s) : s \in ToSet(request[t].services)}
  BY PlacedRouted
<1>4. \A s \in ToSet(request[t].services) : \E id \in RunsOf(t, s) :
         \A d \in s.domains : RoutedTo(d, t, s, containers[id].port)
  BY <1>1, <1>2, <1>3
<1>5. Dock!ContainerList(ProjectOf(t))
         = UNION {RunsOf(t, s) : s \in ToSet(request[t].services)}
  BY <1>1, <1>3
<1> QED BY <1>3, <1>4, <1>5

\* What there is when containers may exit while the request is served: the
\* wanted containers exist, their services are routed to them, and nothing else
\* of the project is routed or runs.
Routed(config) ==
    LET p == config.project
        Wanted == ToSet(config.services)
        Has(s) == {id \in Dock!Existing : /\ containers[id].project = p
                                          /\ containers[id].name = ContainerName(p, s.name)
                                          /\ containers[id].hash = s.hash}
    IN  /\ \A s \in Wanted : \E id \in Has(s) : \A d \in s.domains :
              /\ routes[d] # NoRoute
              /\ routes[d].project = p /\ routes[d].service = s.name
              /\ routes[d].endpoint = containers[id].port
        /\ Ing!RoutesOfProject(p) = UNION {s.domains : s \in Wanted}
        /\ Dock!ContainerList(p) \subseteq UNION {Has(s) : s \in Wanted}
        /\ saved[p] = config.services

\* An apply that is answered with success has created its containers and routed
\* its domains to them, whatever failed, crashed or stopped meanwhile.
AppliedIsRouted == \A t \in Threads : At(t, "applied") => Routed(request[t])

\* What the invariant says of a request that is answered with success is that
\* its configuration is in place.
LEMMA DInvAnswered ==
    ASSUME DInv, NEW t \in Threads, At(t, "applied")
    PROVE  /\ UniqueNames /\ request[t] \in Applies /\ pc[t] \in Placed
           /\ Cleared(t) /\ Walked(t)
           /\ saved[ProjectOf(t)] = request[t].services
BY DEF DInv, At, Deploys, Saves, Placed

LEMMA DInvRouted == DInv => AppliedIsRouted
<1> SUFFICES ASSUME DInv, NEW t \in Threads, At(t, "applied")
             PROVE  Routed(request[t])
  BY DEF AppliedIsRouted
<1>1. /\ \A s \in ToSet(request[t].services) : \E id \in HasOf(t, s) :
            \A d \in s.domains : RoutedTo(d, t, s, containers[id].port)
      /\ Ing!RoutesOfProject(ProjectOf(t)) = WantedDomains(t)
      /\ Dock!ContainerList(ProjectOf(t))
            \subseteq UNION {HasOf(t, s) : s \in ToSet(request[t].services)}
      /\ saved[ProjectOf(t)] = request[t].services
  BY DInvAnswered, PlacedRouted
<1> QED BY <1>1 DEF Routed, HasOf, NameOf, RoutedTo, ProjectOf, WantedDomains

LEMMA DInvDeployed == ASSUME ~ExitsMidway PROVE DInv => AppliedIsDeployed
<1> SUFFICES ASSUME DInv, NEW t \in Threads, At(t, "applied")
             PROVE  Deployed(request[t])
  BY DEF AppliedIsDeployed
<1>1. /\ \A s \in ToSet(request[t].services) : \E id \in RunsOf(t, s) :
            \A d \in s.domains : RoutedTo(d, t, s, containers[id].port)
      /\ Ing!RoutesOfProject(ProjectOf(t)) = WantedDomains(t)
      /\ Dock!ContainerList(ProjectOf(t))
            = UNION {RunsOf(t, s) : s \in ToSet(request[t].services)}
      /\ saved[ProjectOf(t)] = request[t].services
  BY DInvAnswered, PlacedDeployed
<1> QED BY <1>1 DEF Deployed, RunsOf, RoutedTo, ProjectOf, WantedDomains

(***************************************************************************)
(* The theorems                                                            *)
(***************************************************************************)

\* The invariant holds in every state that orderly clients reach.
LEMMA DInvAlways == ASSUME Assumptions PROVE OrderlySpec => []DInv
<1>1. OrderlySpec => []IngP!RemovalComplete
  <2>1. IngP!OrderlySpec => []IngP!RemovalComplete
    BY IngConstants, IngP!CompleteRemoval DEF IngP!IngressesAssumption
  <2> QED BY <2>1, CallsIngress
<1> QED BY <1>1, InitDInv, NextDInv, PTL DEF OrderlySpec

\* For orderly clients, an apply that is answered with success has created its
\* containers and routed exactly its domains to them, through any failures,
\* crashes and exits of containers.
THEOREM Routing == ASSUME Assumptions PROVE OrderlySpec => []AppliedIsRouted
BY DInvAlways, DInvRouted, PTL

\* When containers do not exit while a request is served, all of these
\* containers run: the configuration is in place.
THEOREM Deployment ==
    ASSUME Assumptions, ~ExitsMidway PROVE OrderlySpec => []AppliedIsDeployed
BY DInvAlways, DInvDeployed, PTL
=============================================================================
