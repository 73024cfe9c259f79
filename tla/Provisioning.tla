---------------------------- MODULE Provisioning ----------------------------
(***************************************************************************)
(* Images and volumes: how the first half of ApplyProject turns a git      *)
(* repository into an image (src/manager/source), and how CreateContainer  *)
(* finds the image and the volumes of a service again                      *)
(* (src/manager/docker/client.go).  All images are built before the first  *)
(* container is created from one, by name.                                 *)
(*                                                                         *)
(* What ContainerManager models (networks, routes, starting) is left out:  *)
(* here a container is removed and created, and has an image and mounts.   *)
(***************************************************************************)
EXTENDS Naturals, Sequences, SequencesExt, FiniteSets

CONSTANTS
    Threads,      \* goroutines that serve requests
    Projects,     \* project names, as sequences of characters
    Names,        \* service names, likewise
    Recipes,      \* a Dockerfile for type "git", an image name for type "docker"
    VolumeNames,  \* names of volumes as configurations give them, likewise
    Applies,      \* the configurations clients apply
    MaxCommit,    \* bound on the commits that are pushed to the repository
    None,
    MaxMishaps    \* bound on failing calls, crashes and images that are pruned

Service == [name : Names, type : {"git", "docker"}, recipe : Recipes, volumes : Seq(VolumeNames)]

\* validate() asks for names, but does not compare them.
Valid(config) ==
    /\ config.project \in Projects
    /\ config.services \in Seq(Service) \ {<<>>}

NamesDiffer(config) ==
    \A i, j \in DOMAIN config.services :
        config.services[i].name = config.services[j].name => i = j

ASSUME ConstantsAssumption ==
    /\ \A config \in Applies : Valid(config) /\ NamesDiffer(config)
    /\ IsFiniteSet(Threads)
    /\ MaxCommit \in Nat
    /\ MaxMishaps \in Nat
    /\ None \notin Applies

Commits == 0 .. MaxCommit

VARIABLES
    head,         \* the newest commit of the repository's branch
    images,       \* images[tag]: the content of the image with that tag, or None
    volumes,      \* the volumes of the Docker daemon
    containers,   \* containers[name]: the container of that name, or None
    directories,  \* how many build directories there are
    pc, request, index,
    commit,       \* commit[t]: what the build of thread t has checked out
    tags,         \* tags[t]: the images of the services looked at so far
    mounts,       \* mounts[t]: the volumes found for the current service
    mishaps

locals == <<commit, tags, mounts>>
world == <<head, images, volumes, containers, directories>>
vars == <<world, pc, request, index, locals, mishaps>>

At(t, label) == pc[t] = label
Goto(t, label) == pc' = [pc EXCEPT ![t] = label]
ProjectOf(t) == request[t].project
Current(t) == request[t].services[index[t]]
CurrentTag(t) == tags[t][index[t]]
LastService(t) == index[t] = Len(request[t].services)

\* An image that the configuration names is pulled from a registry.
RegistryTag(s) == [type |-> "docker", project |-> None, name |-> s.recipe, commit |-> 0]

\* Mutant: the name of the service is left out.
ProjectTag(p, s, c) ==
    IF s.type = "docker" THEN RegistryTag(s)
    ELSE [type |-> "git", project |-> p, name |-> None, commit |-> c]

\* Mutant: the tag does not tell commits apart.
LatestTag(p, s, c) ==
    IF s.type = "docker" THEN RegistryTag(s)
    ELSE [type |-> "git", project |-> p, name |-> s.name, commit |-> 0]

\* conter/<project>/<service>:<commit> for an image that is built.  Dockerfile
\* and branch are not part of it.
Tag(p, s, c) ==
    IF s.type = "docker" THEN RegistryTag(s)
    ELSE [type |-> "git", project |-> p, name |-> s.name, commit |-> c]

\* What the image should contain; the images of the registry do not change.
Content(s, c) == [recipe |-> s.recipe, commit |-> IF s.type = "docker" THEN 0 ELSE c]

AllServices == UNION {ToSet(config.services) : config \in Applies}
Tags == {Tag(p, s, c) : p \in Projects, s \in AllServices, c \in Commits}
Contents == {Content(s, c) : s \in AllServices, c \in Commits}

\* <project>.<service>-<volume>
VolumeName(p, n, v) == p \o <<".">> \o n \o <<"-">> \o v

VolumesOf(p, s) == {VolumeName(p, s.name, v) : v \in ToSet(s.volumes)}
Volumes ==
    UNION {UNION {VolumesOf(config.project, s) : s \in ToSet(config.services)} : config \in Applies}

\* The name filter of the Docker daemon searches for a regular expression: it
\* finds longer names too, and its "." is any character.
Matches(volume, name) ==
    \E i \in 0 .. Len(volume) - Len(name) :
        \A j \in 1 .. Len(name) : name[j] \in {".", volume[i + j]}

\* <project>_<service>, and so the same for services of different projects if
\* names with underscores meet.
ContainerName(p, n) == p \o <<"_">> \o n

NamesTellServicesApart ==
    \A p, q \in Projects, m, n \in Names :
        ContainerName(p, m) = ContainerName(q, n) => p = q /\ m = n

Container ==
    [project : Projects, service : AllServices, tag : Tags, content : Contents, mounts : Seq(Volumes)]

ASSUME NoneIsNoContainer == None \notin Container

Keys == {ContainerName(p, n) : p \in Projects, n \in Names}
Key(t) == ContainerName(ProjectOf(t), Current(t).name)

Building == {"clone", "build", "read"}
Labels == Building \cup {"idle", "image", "find", "pull", "mount", "createVolume",
                         "applied", "failed"}

TypeOK ==
    /\ head \in Commits
    /\ images \in [Tags -> Contents \cup {None}]
    /\ volumes \subseteq Volumes
    /\ containers \in [Keys -> Container \cup {None}]
    /\ directories \in Nat
    /\ pc \in [Threads -> Labels]
    /\ request \in [Threads -> Applies \cup {None}]
    /\ index \in [Threads -> Nat \ {0}]
    /\ commit \in [Threads -> Commits]
    /\ tags \in [Threads -> Seq(Tags)]
    /\ mounts \in [Threads -> Seq(Volumes)]
    /\ mishaps \in 0 .. MaxMishaps

Init ==
    /\ head = 0
    /\ images = [tag \in Tags |-> None]
    /\ volumes = {}
    /\ containers = [k \in Keys |-> None]
    /\ directories = 0
    /\ pc = [t \in Threads |-> "idle"]
    /\ request = [t \in Threads |-> None]
    /\ index = [t \in Threads |-> 1]
    /\ commit = [t \in Threads |-> 0]
    /\ tags = [t \in Threads |-> <<>>]
    /\ mounts = [t \in Threads |-> <<>>]
    /\ mishaps = 0

Push ==
    /\ head < MaxCommit
    /\ head' = head + 1
    /\ UNCHANGED <<images, volumes, containers, directories, pc, request, index, locals, mishaps>>

\* Clients never have two requests for one project under way.
Unserved(p) == \A t \in Threads : request[t] # None => ProjectOf(t) # p

Apply(t, config) ==
    /\ At(t, "idle")
    /\ Unserved(config.project)
    /\ request' = [request EXCEPT ![t] = config]
    /\ Goto(t, "image")
    /\ UNCHANGED <<world, index, locals, mishaps>>

(***************************************************************************)
(* The first loop of ApplyProject: an image for every service              *)
(***************************************************************************)

\* The image of the current service is known.
HaveImage(t, tag) ==
    /\ tags' = [tags EXCEPT ![t] = Append(@, tag)]
    /\ Goto(t, IF LastService(t) THEN "find" ELSE "image")
    /\ index' = [index EXCEPT ![t] = IF LastService(t) THEN 1 ELSE @ + 1]

\* A build begins with a new directory.
GetImageFromSource(t) ==
    /\ At(t, "image")
    /\ \/ /\ Current(t).type = "docker"
          /\ HaveImage(t, RegistryTag(Current(t)))
          /\ UNCHANGED directories
       \/ /\ Current(t).type = "git"
          /\ Goto(t, "clone")
          /\ directories' = directories + 1
          /\ UNCHANGED <<tags, index>>
    /\ UNCHANGED <<head, images, volumes, containers, request, commit, mounts, mishaps>>

\* Mutant: an older clone is used again.
CloneFromCache(t) ==
    /\ At(t, "clone")
    /\ \E c \in 0 .. head : commit' = [commit EXCEPT ![t] = c]
    /\ Goto(t, "build")
    /\ UNCHANGED <<world, request, index, tags, mounts, mishaps>>

Clone(t) ==
    /\ At(t, "clone")
    /\ commit' = [commit EXCEPT ![t] = head]
    /\ Goto(t, "build")
    /\ UNCHANGED <<world, request, index, tags, mounts, mishaps>>

DockerBuild(t) ==
    /\ At(t, "build")
    /\ images' = [images EXCEPT ![Tag(ProjectOf(t), Current(t), commit[t])] =
                                  Content(Current(t), commit[t])]
    /\ Goto(t, "read")
    /\ UNCHANGED <<head, volumes, containers, directories, request, index, locals, mishaps>>

\* Mutant: the directory is left behind.
ReadImageNoCleanup(t) ==
    /\ At(t, "read")
    /\ HaveImage(t, Tag(ProjectOf(t), Current(t), commit[t]))
    /\ UNCHANGED <<world, request, commit, mounts, mishaps>>

\* The script has written the tag to a file; the directory is removed.
ReadImage(t) ==
    /\ At(t, "read")
    /\ HaveImage(t, Tag(ProjectOf(t), Current(t), commit[t]))
    /\ directories' = directories - 1
    /\ UNCHANGED <<head, images, volumes, containers, request, commit, mounts, mishaps>>

(***************************************************************************)
(* The second loop: ApplyService                                           *)
(***************************************************************************)
\* Mutant: a new image is no reason to create the container again.
HashOfSource(s, tag) == [type |-> s.type, recipe |-> s.recipe, volumes |-> s.volumes]

\* The label that containers carry.  The name of the service is not part of it.
Hash(s, tag) == [type |-> s.type, recipe |-> s.recipe, volumes |-> s.volumes, image |-> tag]

UpToDate(t) ==
    LET c == containers[Key(t)]
    IN  c # None /\ Hash(c.service, c.tag) = Hash(Current(t), CurrentTag(t))

NextService(t) ==
    /\ Goto(t, IF LastService(t) THEN "applied" ELSE "find")
    /\ index' = [index EXCEPT ![t] = IF LastService(t) THEN @ ELSE @ + 1]

FindContainer(t) ==
    /\ At(t, "find")
    /\ \/ UpToDate(t) /\ NextService(t) /\ UNCHANGED containers
       \/ /\ ~UpToDate(t)
          /\ containers' = [containers EXCEPT ![Key(t)] = None]
          /\ Goto(t, "pull")
          /\ UNCHANGED index
    /\ UNCHANGED <<head, images, volumes, directories, request, locals, mishaps>>

\* An image that is there is not pulled.  No registry has the images built here.
PullImageIfNotExists(t) ==
    /\ At(t, "pull")
    /\ \/ images[CurrentTag(t)] # None /\ Goto(t, "mount") /\ UNCHANGED images
       \/ /\ images[CurrentTag(t)] = None
          /\ Current(t).type = "docker"
          /\ images' = [images EXCEPT ![CurrentTag(t)] = Content(Current(t), 0)]
          /\ Goto(t, "mount")
       \/ /\ images[CurrentTag(t)] = None
          /\ Current(t).type = "git"
          /\ Goto(t, "failed")
          /\ UNCHANGED images
    /\ UNCHANGED <<head, volumes, containers, directories, request, index, locals, mishaps>>

Mounted(t) == Len(mounts[t]) = Len(Current(t).volumes)

\* Mutant: volumes belong to the project.
ProjectVolume(t) == ProjectOf(t) \o <<".">> \o Current(t).volumes[Len(mounts[t]) + 1]

NextVolume(t) ==
    VolumeName(ProjectOf(t), Current(t).name, Current(t).volumes[Len(mounts[t]) + 1])
Found(t) == {volume \in volumes : Matches(volume, NextVolume(t))}

\* The first volume of the answer is taken, whatever its name.
ListVolumes(t) ==
    /\ At(t, "mount")
    /\ ~Mounted(t)
    /\ \/ \E volume \in Found(t) :
             /\ mounts' = [mounts EXCEPT ![t] = Append(@, volume)]
             /\ UNCHANGED pc
       \/ Found(t) = {} /\ Goto(t, "createVolume") /\ UNCHANGED mounts
    /\ UNCHANGED <<world, request, index, commit, tags, mishaps>>

\* Docker answers with the volume of that name if there is one by now.
CreateVolume(t) ==
    /\ At(t, "createVolume")
    /\ volumes' = volumes \cup {NextVolume(t)}
    /\ mounts' = [mounts EXCEPT ![t] = Append(@, NextVolume(t))]
    /\ Goto(t, "mount")
    /\ UNCHANGED <<head, images, containers, directories, request, index, commit, tags, mishaps>>

NewContainer(t) ==
    [project |-> ProjectOf(t), service |-> Current(t), tag |-> CurrentTag(t),
     content |-> images[CurrentTag(t)], mounts |-> mounts[t]]

CreateContainer(t) ==
    /\ At(t, "mount")
    /\ Mounted(t)
    /\ \/ /\ images[CurrentTag(t)] # None
          /\ containers' = [containers EXCEPT ![Key(t)] = NewContainer(t)]
          /\ NextService(t)
       \/ /\ images[CurrentTag(t)] = None
          /\ Goto(t, "failed")
          /\ UNCHANGED <<containers, index>>
    /\ mounts' = [mounts EXCEPT ![t] = <<>>]
    /\ UNCHANGED <<head, images, volumes, directories, request, commit, tags, mishaps>>

Reset(who) ==
    /\ pc' = [t \in Threads |-> IF t \in who THEN "idle" ELSE pc[t]]
    /\ request' = [t \in Threads |-> IF t \in who THEN None ELSE request[t]]
    /\ index' = [t \in Threads |-> IF t \in who THEN 1 ELSE index[t]]
    /\ commit' = [t \in Threads |-> IF t \in who THEN 0 ELSE commit[t]]
    /\ tags' = [t \in Threads |-> IF t \in who THEN <<>> ELSE tags[t]]
    /\ mounts' = [t \in Threads |-> IF t \in who THEN <<>> ELSE mounts[t]]

Reply(t) ==
    /\ pc[t] \in {"applied", "failed"}
    /\ Reset({t})
    /\ UNCHANGED <<world, mishaps>>

(***************************************************************************)
(* Mishaps                                                                 *)
(***************************************************************************)
Mishap == mishaps < MaxMishaps /\ mishaps' = mishaps + 1

\* Mutant: every failure removes a directory, also where there is none.
CallFailsCleanUp(t) ==
    /\ Mishap
    /\ ~At(t, "idle") /\ pc[t] \notin {"applied", "failed"}
    /\ Goto(t, "failed")
    /\ directories' = directories - 1
    /\ UNCHANGED <<head, images, volumes, containers, request, index, locals>>

\* A script that fails, if only at its end, leaves its directory with the log.
\* The directory is removed when the script cannot be written, or the file with
\* the tag not be read.
CallFails(t) ==
    /\ Mishap
    /\ ~At(t, "idle") /\ pc[t] \notin {"applied", "failed"}
    /\ Goto(t, "failed")
    /\ \/ UNCHANGED directories
       \/ pc[t] \in {"clone", "read"} /\ directories' = directories - 1
    /\ UNCHANGED <<head, images, volumes, containers, request, index, locals>>

\* The operator prunes images that no container uses.
Prune(tag) ==
    /\ Mishap
    /\ images[tag] # None
    /\ \A k \in Keys : containers[k] # None => containers[k].tag # tag
    /\ images' = [images EXCEPT ![tag] = None]
    /\ UNCHANGED <<head, volumes, containers, directories, pc, request, index, locals>>

\* Directories of builds under way stay behind.
Crash ==
    /\ Mishap
    /\ Reset(Threads)
    /\ UNCHANGED world

(***************************************************************************)
(* The specification                                                       *)
(***************************************************************************)
Step(t) ==
    \/ GetImageFromSource(t) \/ Clone(t) \/ DockerBuild(t) \/ ReadImage(t)
    \/ FindContainer(t) \/ PullImageIfNotExists(t) \/ ListVolumes(t) \/ CreateVolume(t)
    \/ CreateContainer(t) \/ Reply(t)

Next ==
    \/ Push
    \/ \E t \in Threads : (\E config \in Applies : Apply(t, config)) \/ Step(t) \/ CallFails(t)
    \/ \E tag \in Tags : Prune(tag)
    \/ Crash

Spec == Init /\ [][Next]_vars

\* Every call returns, and clients apply their configurations again and again,
\* for instance whenever they have pushed a commit.
RepeatingSpec ==
    /\ Spec
    /\ \A t \in Threads : WF_vars(Step(t))
    /\ \A config \in Applies : SF_vars(\E t \in Threads : Apply(t, config))

(***************************************************************************)
(* Properties                                                              *)
(***************************************************************************)

\* Every container runs what its own source says: the commit of its tag, built
\* by its own Dockerfile.  The image was built by name before other builds of
\* the same apply, and is looked up by name after them.
BuiltFromItsSource ==
    \A k \in Keys : containers[k] # None =>
        LET c == containers[k]
        IN  c.content = Content(c.service, c.tag.commit)

\* The volumes whose name, as a filter, finds no other volume.
Distinctive == {v \in Volumes : \A w \in Volumes : Matches(w, v) => w = v}

\* Every container has a mount for each of its volumes, which is the volume of
\* its own service if the name of that is distinctive: it finds its data again
\* after every rebuild, and nobody else's.  Nothing is said where it is not: the
\* code mounts what Docker lists first, be it of another service.
OwnVolumes ==
    \A k \in Keys : containers[k] # None =>
        LET c == containers[k]
            own == [i \in DOMAIN c.service.volumes |->
                       VolumeName(c.project, c.service.name, c.service.volumes[i])]
        IN  /\ DOMAIN c.mounts = DOMAIN own
            /\ \A i \in DOMAIN own : own[i] \in Distinctive => c.mounts[i] = own[i]

\* However builds and applies end, a build directory stays behind only when
\* something went wrong.
NoStrayDirectories ==
    mishaps = 0 => directories = Cardinality({t \in Threads : pc[t] \in Building})

\* When an apply succeeds, every service of the configuration has a container of
\* the image that this apply built for it: one that was found up to date is of
\* that very image, and nothing that went on meanwhile has replaced any.
AppliedIsCurrent ==
    \A t \in Threads : At(t, "applied") =>
        \A i \in DOMAIN request[t].services :
            LET s == request[t].services[i]
                c == containers[ContainerName(ProjectOf(t), s.name)]
            IN  c # None /\ c.service = s /\ c.tag = tags[t][i]

\* A container is only ever removed for an image of the same or a later commit,
\* although the commit was read before all images were built, and containers
\* may stem from applies that failed, or did not survive a crash.
NeverDowngraded ==
    \A t \in Threads : At(t, "find") =>
        LET c == containers[Key(t)]
        IN  (c # None /\ c.tag.type = "git" /\ CurrentTag(t).type = "git")
                => c.tag.commit <= CurrentTag(t).commit

\* Whoever pushes and applies again ends up with the newest commit in all
\* containers, whatever failed or was pruned in between.
NewestIsDeployed ==
    <>[](\A config \in Applies : \A s \in ToSet(config.services) :
            LET c == containers[ContainerName(config.project, s.name)]
            IN  /\ c # None
                /\ c.service = s
                /\ s.type = "git" => c.content.commit = head)
=============================================================================
