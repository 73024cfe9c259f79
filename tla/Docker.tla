------------------------------- MODULE Docker -------------------------------
(***************************************************************************)
(* The Docker daemon as src/manager/docker uses it: named containers,      *)
(* one network per project and the host ports that published containers    *)
(* are bound to.  Each operator is one API call, which Docker performs in  *)
(* one step; a caller makes several of them.                               *)
(***************************************************************************)
EXTENDS Naturals

CONSTANTS
    Ids,        \* container ids; Docker never hands one out twice
    Names,      \* container names
    Projects,   \* project names: the project label, and the network's name
    Hashes,     \* configuration hashes: the hash label
    Ports,      \* the range GetAvailablePort searches, a set of numbers
    NoPort,     \* the container is not published
    Gone        \* marks an id that no container has

VARIABLES
    containers,   \* containers[id]: the container, or Gone
    networks      \* the projects whose network exists

dvars == <<containers, networks>>

\* attached: the network the container was created in still exists.  A network
\* is referred to by its id, so a new one of the same name is another network.
Container == [name     : Names,
              project  : Projects,
              hash     : Hashes,
              port     : Ports \cup {NoPort},
              running  : BOOLEAN,
              attached : BOOLEAN]

TypeOK ==
    /\ containers \in [Ids -> Container \cup {Gone}]
    /\ networks \in SUBSET Projects

Init ==
    /\ containers = [id \in Ids |-> Gone]
    /\ networks = {}

Existing == {id \in Ids : containers[id] # Gone}
RunningContainers == {id \in Existing : containers[id].running}

NetworkCreate(p) ==
    /\ p \notin networks
    /\ networks' = networks \cup {p}
    /\ UNCHANGED containers

\* Docker refuses while a running container is connected.  A container that is
\* not running is no obstacle, and cannot be started any more.
CanRemoveNetwork(p) ==
    /\ p \in networks
    /\ \A id \in RunningContainers : ~(containers[id].project = p /\ containers[id].attached)

NetworkRemove(p) ==
    /\ CanRemoveNetwork(p)
    /\ networks' = networks \ {p}
    /\ containers' = [id \in Ids |->
                        IF id \in Existing /\ containers[id].project = p
                        THEN [containers[id] EXCEPT !.attached = FALSE]
                        ELSE containers[id]]

\* ContainerInspect: names are unique.
WithName(n) == {id \in Existing : containers[id].name = n}

\* A port is bound on the host only while its container runs.
BoundPorts == {containers[id].port : id \in RunningContainers} \ {NoPort}

\* GetAvailablePort: the first port nothing listens on now.
AvailablePort(port) ==
    /\ port \in Ports \ BoundPorts
    /\ \A q \in Ports \ BoundPorts : port <= q

\* ContainerCreate reserves the name, and nothing else.
ContainerCreate(id, container) ==
    /\ id \notin Existing
    /\ WithName(container.name) = {}
    /\ containers' = [containers EXCEPT ![id] = container]
    /\ UNCHANGED networks

\* Starting binds the port and connects the container to its network.
CanStart(id) ==
    /\ id \in Existing
    /\ containers[id].attached
    /\ containers[id].running \/ containers[id].port \notin BoundPorts

ContainerStart(id) ==
    /\ CanStart(id)
    /\ containers' = [containers EXCEPT ![id].running = TRUE]
    /\ UNCHANGED networks

ContainerRemove(id) ==
    /\ id \in Existing
    /\ containers' = [containers EXCEPT ![id] = Gone]
    /\ UNCHANGED networks

\* ContainerList with a project label lists running containers only.
ContainerList(p) == {id \in RunningContainers : containers[id].project = p}

\* The operator stops a container.  One that ends by itself is started again by
\* Docker (its restart policy is "always") and counts as running all the while.
ContainerExit(id) ==
    /\ id \in RunningContainers
    /\ containers' = [containers EXCEPT ![id].running = FALSE]
    /\ UNCHANGED networks
=============================================================================
