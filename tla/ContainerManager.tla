-------------------------- MODULE ContainerManager --------------------------
(***************************************************************************)
(* Applying and deleting projects: the container manager                   *)
(* (src/manager/container.go), called by the HTTP handlers of              *)
(* src/server/routes.go, over the Docker daemon, the ingress manager and   *)
(* the projects bucket of the database.                                    *)
(*                                                                         *)
(* A request runs on a thread of its own.  It is interrupted between any   *)
(* two calls to Docker or to the database, and can fail or die there.      *)
(***************************************************************************)
EXTENDS Naturals, Sequences, SequencesExt

CONSTANTS
    Threads,       \* goroutines that serve requests
    Projects,      \* project names, as sequences of words joined by "_"
    Services,      \* service names, likewise
    Domains,
    Hashes,        \* configuration hashes
    Applies,       \* the configurations clients apply
    Ids, Ports, NoPort, Gone,    \* see Docker
    NoRoute, None,               \* see Ingress
    NotSaved,      \* marks a project without an entry in the database
    AcmeConfigured,
    MaxMishaps,    \* bound on crashes, failing calls and container exits
    ExitsMidway    \* whether a container may exit while a request is served

\* A service of a configuration: the options that do not matter to the manager
\* are in the hash, exposed says that there is a container port.
Service == [name : Services, hash : Hashes, exposed : BOOLEAN, domains : SUBSET Domains]

\* What validate() lets through: at least one service, and a container port
\* for every service with domains.
Valid(config) ==
    /\ config \in [project : Projects, services : Seq(Service) \ {<<>>}]
    /\ \A s \in ToSet(config.services) : s.domains # {} => s.exposed

VARIABLES
    routes, ipc, ingress, project, excluded, todo,   \* the ingress manager
    containers, networks,                            \* the Docker daemon
    saved,      \* the projects bucket: project -> services applied
    pc,         \* pc[t]: the next step of the request of thread t
    request,    \* request[t]: the configuration, or the project to delete
    index,      \* index[t]: the service that ApplyProject has come to
    netLive,    \* netLive[t]: the network whose id ApplyProject holds still exists
    target,     \* target[t]: the container ApplyService works on
    endpoint,   \* endpoint[t]: the port that container is published on
    pending,    \* pending[t]: the listed containers still to be removed
    mishaps     \* how many mishaps there were

ivars == <<routes, ipc, ingress, project, excluded, todo>>
dvars == <<containers, networks>>
locals == <<index, netLive, target, endpoint, pending>>
vars == <<ivars, dvars, saved, pc, request, locals, mishaps>>

\* container.go:143, fmt.Sprintf("%s_%s", ...): the words of both names.
ContainerName(p, service) == p \o service

Names == {ContainerName(p, s) : p \in Projects, s \in Services}

\* The ingress of a service whose container is published on the given port.
\* NoPort doubles as the empty endpoint.
IngressFor(p, service, port) == [domains  |-> service.domains,
                                 project  |-> p,
                                 service  |-> service.name,
                                 endpoint |-> port]

\* What ApplyService can call the ingress manager with
Ingresses ==
    UNION {{IngressFor(config.project, service, port) :
               service \in ToSet(config.services), port \in Ports \cup {NoPort}} :
           config \in Applies}

Ing == INSTANCE Ingress WITH Endpoints <- Ports, NoEndpoint <- NoPort
Dock == INSTANCE Docker

Deletes == [project : Projects, services : {<<>>}]

\* Clients apply what validate() lets through, and the marks are no values.
ASSUME ConstantsAssumption ==
    /\ \A config \in Applies : Valid(config) /\ config.services # NotSaved
    /\ Ids \subseteq Nat
    /\ Ports \subseteq Nat \ {NoPort}
    /\ None \notin Projects /\ None \notin Ids
    /\ None \notin Applies /\ None \notin Deletes /\ None \notin Ingresses
    /\ NoRoute \notin Ingresses
    /\ Gone \notin Dock!Container
    /\ AcmeConfigured \in BOOLEAN
    /\ MaxMishaps \in Nat

Goals == {"applied", "deleted", "failed"}
Labels == Goals \cup {"idle", "inspectNetwork", "createNetwork", "unroute", "unrouting",
                      "list", "purge", "find", "replace", "create", "start", "register",
                      "registering", "save", "deleteNetwork", "forget"}

TypeOK ==
    /\ Ing!TypeOK
    /\ Dock!TypeOK
    /\ DOMAIN saved = Projects
    /\ \A p \in Projects : saved[p] = NotSaved \/ ToSet(saved[p]) \subseteq Service
    /\ pc \in [Threads -> Labels]
    /\ request \in [Threads -> Applies \cup Deletes \cup {None}]
    /\ index \in [Threads -> Nat]
    /\ netLive \in [Threads -> BOOLEAN]
    /\ target \in [Threads -> Ids \cup {None}]
    /\ endpoint \in [Threads -> Ports \cup {NoPort}]
    /\ pending \in [Threads -> SUBSET Ids]
    /\ mishaps \in 0 .. MaxMishaps

Init ==
    /\ Ing!Init
    /\ Dock!Init
    /\ saved = [p \in Projects |-> NotSaved]
    /\ pc = [t \in Threads |-> "idle"]
    /\ request = [t \in Threads |-> None]
    /\ index = [t \in Threads |-> 1]
    /\ netLive = [t \in Threads |-> FALSE]
    /\ target = [t \in Threads |-> None]
    /\ endpoint = [t \in Threads |-> NoPort]
    /\ pending = [t \in Threads |-> {}]
    /\ mishaps = 0

At(t, label) == pc[t] = label
Goto(t, label) == pc' = [pc EXCEPT ![t] = label]

IsApply(t) == request[t].services # <<>>
ProjectOf(t) == request[t].project
Current(t) == request[t].services[index[t]]
WantedNames(t) == {ContainerName(ProjectOf(t), s.name) : s \in ToSet(request[t].services)}
WantedDomains(t) == UNION {s.domains : s \in ToSet(request[t].services)}

(***************************************************************************)
(* The requests                                                            *)
(***************************************************************************)

Apply(t, config) ==
    /\ At(t, "idle")
    /\ request' = [request EXCEPT ![t] = config]
    /\ Goto(t, "inspectNetwork")
    /\ UNCHANGED <<ivars, dvars, saved, locals, mishaps>>

\* The handler answers with an error when the project is not in the database.
DoesProjectExist(p) == saved[p] # NotSaved

Delete(t, p) ==
    /\ At(t, "idle")
    /\ DoesProjectExist(p)
    /\ request' = [request EXCEPT ![t] = [project |-> p, services |-> <<>>]]
    /\ Goto(t, "unroute")
    /\ UNCHANGED <<ivars, dvars, saved, locals, mishaps>>

(***************************************************************************)
(* Steps both requests begin with                                          *)
(***************************************************************************)

\* CreateNetworkIfNotExists asks first and creates then.  An inspection that
\* fails is taken for a network that does not exist.
InspectNetwork(t) ==
    /\ At(t, "inspectNetwork")
    /\ netLive' = [netLive EXCEPT ![t] = ProjectOf(t) \in networks]
    /\ Goto(t, IF ProjectOf(t) \in networks THEN "unroute" ELSE "createNetwork")
    /\ UNCHANGED <<ivars, dvars, saved, request, index, target, endpoint, pending, mishaps>>

CreateNetwork(t) ==
    /\ At(t, "createNetwork")
    /\ \/ /\ Dock!NetworkCreate(ProjectOf(t))
          /\ netLive' = [netLive EXCEPT ![t] = TRUE]
          /\ Goto(t, "unroute")
       \/ /\ ProjectOf(t) \in networks
          /\ Goto(t, "failed")
          /\ UNCHANGED <<dvars, netLive>>
    /\ UNCHANGED <<ivars, saved, request, index, target, endpoint, pending, mishaps>>

RemoveUnusedRoutes(t) ==
    /\ At(t, "unroute")
    /\ Ing!RemoveUnusedRoutes(t, ProjectOf(t), WantedDomains(t))
    /\ Goto(t, "unrouting")
    /\ UNCHANGED <<dvars, saved, request, locals, mishaps>>

\* Mutant: the error of the ingress manager is ignored.
UnusedRoutesAssumedRemoved(t) ==
    /\ At(t, "unrouting")
    /\ Ing!Return(t)
    /\ Goto(t, "list")
    /\ UNCHANGED <<dvars, saved, request, locals, mishaps>>

UnusedRoutesRemoved(t) ==
    /\ At(t, "unrouting")
    /\ Ing!Return(t)
    /\ Goto(t, IF ipc[t] = "removed" THEN "list" ELSE "failed")
    /\ UNCHANGED <<dvars, saved, request, locals, mishaps>>

\* Mutant: the list is not filtered by the label of the project.
UnusedOfAnyProject(t) == {id \in Dock!RunningContainers :
                             containers[id].name \notin WantedNames(t)}

\* RemoveUnusedContainers lists the running containers of the project once and
\* removes those whose name is not wanted.
Unused(t) == {id \in Dock!ContainerList(ProjectOf(t)) :
                 containers[id].name \notin WantedNames(t)}

ListContainers(t) ==
    /\ At(t, "list")
    /\ pending' = [pending EXCEPT ![t] = Unused(t)]
    /\ Goto(t, "purge")
    /\ UNCHANGED <<ivars, dvars, saved, request, index, netLive, target, endpoint, mishaps>>

RemoveUnusedContainer(t) ==
    /\ At(t, "purge")
    /\ \E id \in pending[t] :
          /\ pending' = [pending EXCEPT ![t] = @ \ {id}]
          /\ \/ Dock!ContainerRemove(id) /\ UNCHANGED pc
             \/ id \notin Dock!Existing /\ Goto(t, "failed") /\ UNCHANGED dvars
    /\ UNCHANGED <<ivars, saved, request, index, netLive, target, endpoint, mishaps>>

UnusedContainersRemoved(t) ==
    /\ At(t, "purge")
    /\ pending[t] = {}
    /\ Goto(t, IF IsApply(t) THEN "find" ELSE "deleteNetwork")
    /\ UNCHANGED <<ivars, dvars, saved, request, locals, mishaps>>

(***************************************************************************)
(* ApplyService                                                            *)
(***************************************************************************)

\* The ingress of the service at hand, and the port its container is published on
IngressOf(t) == IngressFor(ProjectOf(t), Current(t), endpoint[t])

\* Mutant: a container is rebuilt whenever its service is applied.
NeverUpToDate(container, service) == FALSE

UpToDate(container, service) == container.hash = service.hash

\* Mutant: a container that exists is taken for running.
FindContainerNoRestart(t) ==
    LET found == Dock!WithName(ContainerName(ProjectOf(t), Current(t).name)) IN
    /\ At(t, "find")
    /\ \/ /\ found = {}
          /\ Goto(t, "create")
          /\ UNCHANGED <<target, endpoint>>
       \/ \E id \in found :
             /\ target' = [target EXCEPT ![t] = id]
             /\ IF UpToDate(containers[id], Current(t))
                THEN /\ endpoint' = [endpoint EXCEPT ![t] = containers[id].port]
                     /\ Goto(t, "register")
                ELSE /\ endpoint' = [endpoint EXCEPT ![t] = NoPort]
                     /\ Goto(t, "replace")
    /\ UNCHANGED <<ivars, dvars, saved, request, index, netLive, pending, mishaps>>

\* The container is looked up by name; what happens next depends on its hash
\* and its status at this moment.
FindContainer(t) ==
    LET found == Dock!WithName(ContainerName(ProjectOf(t), Current(t).name)) IN
    /\ At(t, "find")
    /\ \/ /\ found = {}
          /\ Goto(t, "create")
          /\ UNCHANGED <<target, endpoint>>
       \/ \E id \in found :
             /\ target' = [target EXCEPT ![t] = id]
             /\ IF UpToDate(containers[id], Current(t))
                THEN /\ endpoint' = [endpoint EXCEPT ![t] = containers[id].port]
                     /\ Goto(t, IF containers[id].running THEN "register" ELSE "start")
                ELSE /\ endpoint' = [endpoint EXCEPT ![t] = NoPort]
                     /\ Goto(t, "replace")
    /\ UNCHANGED <<ivars, dvars, saved, request, index, netLive, pending, mishaps>>

RemoveContainer(t) ==
    /\ At(t, "replace")
    /\ \/ Dock!ContainerRemove(target[t]) /\ Goto(t, "create")
       \/ target[t] \notin Dock!Existing /\ Goto(t, "failed") /\ UNCHANGED dvars
    /\ UNCHANGED <<ivars, saved, request, locals, mishaps>>

\* An id no container has and no thread remembers; the first one will do.
NewId(id) ==
    LET Free(i) == i \notin Dock!Existing /\ \A t \in Threads : i # target[t] /\ i \notin pending[t]
    IN  Free(id) /\ \A i \in Ids : Free(i) => id <= i

\* Mutant: the container gets no project label.
UnlabelledContainer(t, port) ==
    [name     |-> ContainerName(ProjectOf(t), Current(t).name),
     project  |-> None,
     hash     |-> Current(t).hash,
     port     |-> port,
     running  |-> FALSE,
     attached |-> netLive[t]]

NewContainer(t, port) ==
    [name     |-> ContainerName(ProjectOf(t), Current(t).name),
     project  |-> ProjectOf(t),
     hash     |-> Current(t).hash,
     port     |-> port,
     running  |-> FALSE,
     attached |-> netLive[t]]

\* The port is the first one that is free now; Docker binds it at the start.
PortFor(t, port) ==
    IF Current(t).exposed THEN Dock!AvailablePort(port) ELSE port = NoPort

CreateContainer(t) ==
    /\ At(t, "create")
    /\ \E id \in Ids, port \in Ports \cup {NoPort} :
          /\ NewId(id)
          /\ PortFor(t, port)
          /\ Dock!ContainerCreate(id, NewContainer(t, port))
          /\ target' = [target EXCEPT ![t] = id]
          /\ endpoint' = [endpoint EXCEPT ![t] = port]
    /\ Goto(t, "start")
    /\ UNCHANGED <<ivars, saved, request, index, netLive, pending, mishaps>>

\* No port is available, or the name is taken.
CreateRefused(t) ==
    /\ At(t, "create")
    /\ \/ Current(t).exposed /\ \A port \in Ports : ~Dock!AvailablePort(port)
       \/ Dock!WithName(ContainerName(ProjectOf(t), Current(t).name)) # {}
    /\ Goto(t, "failed")
    /\ UNCHANGED <<ivars, dvars, saved, request, locals, mishaps>>

StartContainer(t) ==
    /\ At(t, "start")
    /\ \/ Dock!ContainerStart(target[t]) /\ Goto(t, "register")
       \/ ~Dock!CanStart(target[t]) /\ Goto(t, "failed") /\ UNCHANGED dvars
    /\ UNCHANGED <<ivars, saved, request, locals, mishaps>>

RegisterRoute(t) ==
    /\ At(t, "register")
    /\ Ing!RegisterRoute(t, IngressOf(t))
    /\ Goto(t, "registering")
    /\ UNCHANGED <<dvars, saved, request, locals, mishaps>>

LastService(t) == index[t] = Len(request[t].services)

\* Mutant: the error of the ingress manager is ignored.
RouteAssumedRegistered(t) ==
    /\ At(t, "registering")
    /\ Ing!Return(t)
    /\ Goto(t, IF LastService(t) THEN "save" ELSE "find")
    /\ index' = [index EXCEPT ![t] = IF LastService(t) THEN @ ELSE @ + 1]
    /\ target' = [target EXCEPT ![t] = None]
    /\ endpoint' = [endpoint EXCEPT ![t] = NoPort]
    /\ UNCHANGED <<dvars, saved, request, netLive, pending, mishaps>>

RouteRegistered(t) ==
    /\ At(t, "registering")
    /\ Ing!Return(t)
    /\ Goto(t, IF ipc[t] # "registered" THEN "failed"
               ELSE IF LastService(t) THEN "save" ELSE "find")
    /\ index' = [index EXCEPT ![t] = IF LastService(t) THEN @ ELSE @ + 1]
    /\ target' = [target EXCEPT ![t] = None]
    /\ endpoint' = [endpoint EXCEPT ![t] = NoPort]
    /\ UNCHANGED <<dvars, saved, request, netLive, pending, mishaps>>

SaveProject(t) ==
    /\ At(t, "save")
    /\ saved' = [saved EXCEPT ![ProjectOf(t)] = request[t].services]
    /\ Goto(t, "applied")
    /\ UNCHANGED <<ivars, dvars, request, locals, mishaps>>

(***************************************************************************)
(* The end of RemoveProject                                                *)
(***************************************************************************)

\* The id that other threads hold of the network is worth nothing afterwards.
\* A network that cannot be removed is only logged.
DeleteNetwork(t) ==
    /\ At(t, "deleteNetwork")
    /\ \/ /\ Dock!NetworkRemove(ProjectOf(t))
          /\ netLive' = [u \in Threads |->
                            netLive[u] /\ request[u].project # ProjectOf(t)]
       \/ /\ ~Dock!CanRemoveNetwork(ProjectOf(t))
          /\ UNCHANGED <<dvars, netLive>>
    /\ Goto(t, "forget")
    /\ UNCHANGED <<ivars, saved, request, index, target, endpoint, pending, mishaps>>

RemoveProject(t) ==
    /\ At(t, "forget")
    /\ saved' = [saved EXCEPT ![ProjectOf(t)] = NotSaved]
    /\ Goto(t, "deleted")
    /\ UNCHANGED <<ivars, dvars, request, locals, mishaps>>

(***************************************************************************)
(* Mishaps                                                                 *)
(***************************************************************************)
Mishap == mishaps < MaxMishaps /\ mishaps' = mishaps + 1

\* An inspection that fails finds nothing; a network that is not removed for
\* whatever reason is left behind.
ErrorIgnored(t) ==
    /\ Mishap
    /\ \/ At(t, "inspectNetwork") /\ Goto(t, "createNetwork")
       \/ At(t, "find") /\ Goto(t, "create")
       \/ At(t, "deleteNetwork") /\ Goto(t, "forget")
    /\ UNCHANGED <<ivars, dvars, saved, request, locals>>

\* The call of this step fails, or the one before it took effect and reported
\* an error all the same (the client went away and its context is cancelled,
\* the image cannot be pulled, the daemon cannot be reached).
CallFails(t) ==
    /\ Mishap
    /\ pc[t] \in {"createNetwork", "unroute", "list", "purge", "replace", "create",
                  "start", "register", "save", "forget"}
    /\ Goto(t, "failed")
    /\ UNCHANGED <<ivars, dvars, saved, request, locals>>

RouteWriteFails(t) ==
    /\ Mishap
    /\ Ing!DatabaseError(t)
    /\ UNCHANGED <<dvars, saved, pc, request, locals>>

Idle == \A t \in Threads : At(t, "idle")

ContainerExits(id) ==
    /\ Mishap
    /\ Idle \/ ExitsMidway
    /\ Dock!ContainerExit(id)
    /\ UNCHANGED <<ivars, saved, pc, request, locals>>

\* The daemon dies and systemd starts it again: every request is gone, the
\* database, the containers and the networks are as they were.
Crash ==
    /\ Mishap
    /\ ~Idle
    /\ Ing!Crash
    /\ pc' = [t \in Threads |-> "idle"]
    /\ request' = [t \in Threads |-> None]
    /\ index' = [t \in Threads |-> 1]
    /\ netLive' = [t \in Threads |-> FALSE]
    /\ target' = [t \in Threads |-> None]
    /\ endpoint' = [t \in Threads |-> NoPort]
    /\ pending' = [t \in Threads |-> {}]
    /\ UNCHANGED <<dvars, saved>>

\* The response is sent.
Reply(t) ==
    /\ pc[t] \in Goals
    /\ Goto(t, "idle")
    /\ request' = [request EXCEPT ![t] = None]
    /\ index' = [index EXCEPT ![t] = 1]
    /\ netLive' = [netLive EXCEPT ![t] = FALSE]
    /\ target' = [target EXCEPT ![t] = None]
    /\ endpoint' = [endpoint EXCEPT ![t] = NoPort]
    /\ pending' = [pending EXCEPT ![t] = {}]
    /\ UNCHANGED <<ivars, dvars, saved, mishaps>>

(***************************************************************************)
(* The specification                                                       *)
(***************************************************************************)

\* Inside the ingress manager
IngressStep(t) ==
    /\ \/ Ing!MatchDomain(t) \/ Ing!SaveIngressRoute(t) \/ Ing!Certify(t)
       \/ Ing!RemoveIngressRoute(t) \/ Ing!RoutesRemoved(t)
    /\ UNCHANGED <<dvars, saved, pc, request, locals, mishaps>>

ApplyStep(t) ==
    \/ InspectNetwork(t) \/ CreateNetwork(t)
    \/ FindContainer(t) \/ RemoveContainer(t) \/ CreateContainer(t) \/ CreateRefused(t)
    \/ StartContainer(t) \/ RegisterRoute(t) \/ RouteRegistered(t) \/ SaveProject(t)

CleanStep(t) ==
    \/ RemoveUnusedRoutes(t) \/ UnusedRoutesRemoved(t)
    \/ ListContainers(t) \/ RemoveUnusedContainer(t) \/ UnusedContainersRemoved(t)
    \/ DeleteNetwork(t) \/ RemoveProject(t)

Step(t) == IngressStep(t) \/ ApplyStep(t) \/ CleanStep(t) \/ Reply(t)

Client(t) ==
    \/ \E config \in Applies : Apply(t, config)
    \/ \E p \in Projects : Delete(t, p)

Fault ==
    \/ \E t \in Threads : ErrorIgnored(t) \/ CallFails(t) \/ RouteWriteFails(t)
    \/ \E id \in Ids : ContainerExits(id)
    \/ Crash

Next == (\E t \in Threads : Client(t) \/ Step(t)) \/ Fault

Spec == Init /\ [][Next]_vars

\* Clients that never have two requests for one project under way
Unserved(p) == \A u \in Threads : request[u] # None => ProjectOf(u) # p

OrderlyClient(t) ==
    \/ \E config \in Applies : Unserved(config.project) /\ Apply(t, config)
    \/ \E p \in Projects : Unserved(p) /\ Delete(t, p)

OrderlyNext == (\E t \in Threads : OrderlyClient(t) \/ Step(t)) \/ Fault

OrderlySpec == Init /\ [][OrderlyNext]_vars

\* A request that is being served makes progress: Go runs every goroutine, and
\* the calls to Docker and to the database return.
Fairness == \A t \in Threads : WF_vars(Step(t))

\* Every configuration is applied again and again, whatever the outcome, and
\* nothing is deleted.
RetrySpec ==
    /\ Init
    /\ [][(\E t \in Threads : Step(t) \/ \E config \in Applies : Apply(t, config)) \/ Fault]_vars
    /\ Fairness
    /\ \A config \in Applies : SF_vars(\E t \in Threads : Apply(t, config))

(***************************************************************************)
(* Properties                                                              *)
(***************************************************************************)

\* What the system looks like when a configuration is in place: each service
\* has a running container of the wanted hash, its domains are routed to the
\* port of that container, the project has no other route and no other running
\* container, and the database knows its services.
Deployed(config) ==
    LET p == config.project
        Wanted == ToSet(config.services)
        Runs(s) == {id \in Dock!ContainerList(p) :
                       /\ containers[id].name = ContainerName(p, s.name)
                       /\ containers[id].hash = s.hash}
    IN  /\ \A s \in Wanted : \E id \in Runs(s) : \A d \in s.domains :
              /\ routes[d] # NoRoute
              /\ routes[d].project = p /\ routes[d].service = s.name
              /\ routes[d].endpoint = containers[id].port
        /\ Ing!RoutesOfProject(p) = UNION {s.domains : s \in Wanted}
        /\ Dock!ContainerList(p) = UNION {Runs(s) : s \in Wanted}
        /\ saved[p] = config.services

\* An apply that is answered with success has put its configuration in place,
\* whatever failed or crashed before it.
AppliedIsDeployed == \A t \in Threads : At(t, "applied") => Deployed(request[t])

\* A configuration that is in place stays in place, through requests for other
\* projects, applies of itself that succeed, fail or are cut off by a crash:
\* applying it again disturbs nothing. Only a container of its own that exits, or
\* a request that asks for something else, changes that.
StaysDeployed ==
    [][\A config \in Applies :
          /\ Deployed(config)
          /\ \A t \in Threads : request[t] # None /\ ProjectOf(t) = config.project
                                   => request[t] = config
          => \/ Deployed(config)'
             \/ \E id \in Dock!ContainerList(config.project) : Dock!ContainerExit(id)]_vars

\* A project leaves the database only when none of its routes and none of its
\* running containers is left: a delete that fails midway can be repeated.
ForgottenWhenClean ==
    [][\A p \in Projects :
          DoesProjectExist(p) /\ ~DoesProjectExist(p)'
             => Ing!RoutesOfProject(p) = {} /\ Dock!ContainerList(p) = {}]_vars

\* Thread t takes the step: only a crash moves several threads at once.
Acts(t) == pc'[t] # pc[t] \/ pending'[t] # pending[t]

\* The request that removes a container is one for the project the container
\* belongs to: of two requests that are served at once, for whatever projects,
\* neither removes a container of the other's.
OthersUntouched ==
    [][\A id \in Ids, t \in Threads :
          containers[id] # Gone /\ containers'[id] = Gone /\ Acts(t)
             => request[t] # None /\ containers[id].project = ProjectOf(t)]_vars

\* A client that repeats the same apply until it succeeds gets there, however
\* often earlier attempts failed or crashed, and the configuration stays.
RetriesConverge == \A config \in Applies : <>[]Deployed(config)

\* The projects as their clients see them
PhaseOf(p) ==
    IF Unserved(p) THEN "idle"
    ELSE IF \E t \in Threads : pc[t] \in Goals /\ ProjectOf(t) = p THEN "done"
    ELSE "working"

DeploymentOf(p) ==
    [routed  |-> {<<d, routes[d].service>> : d \in Ing!RoutesOfProject(p)},
     running |-> {sh \in Services \X Hashes :
                     \E id \in Dock!ContainerList(p) :
                        /\ containers[id].name = ContainerName(p, sh[1])
                        /\ containers[id].hash = sh[2]}]

Promise == INSTANCE Projects
              WITH phase <- [p \in Projects |-> PhaseOf(p)],
                   deployment <- [p \in Projects |-> DeploymentOf(p)]

\* For clients that have one request per project under way, requests for
\* different projects do not affect each other, and the database tells the
\* truth at every moment it is written: the manager implements Projects.
ImplementsProjects == Promise!Spec
=============================================================================
