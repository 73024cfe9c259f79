------------------------- MODULE ProvisioningProofs -------------------------
(***************************************************************************)
(* Theorems about Provisioning, for any sets of threads, projects and      *)
(* configurations, and any number of commits and mishaps.                  *)
(***************************************************************************)
EXTENDS Provisioning, FiniteSetTheorems, TLAPS

\* What the configurations consist of
LEMMA Configurations ==
    ASSUME NEW config \in Applies
    PROVE  /\ config.project \in Projects
           /\ config.services \in Seq(Service)
           /\ Len(config.services) \in Nat \ {0}
           /\ NamesDiffer(config)
           /\ config # None
           /\ \A i \in 1 .. Len(config.services) :
                 /\ config.services[i] \in AllServices
                 /\ config.services[i] \in Service
<1>1. Valid(config) /\ NamesDiffer(config) /\ config # None
  BY ConstantsAssumption
<1>2. /\ config.project \in Projects
      /\ config.services \in Seq(Service)
      /\ config.services # <<>>
  BY <1>1 DEF Valid
<1>3. Len(config.services) \in Nat \ {0}
  BY <1>2
<1>4. ASSUME NEW i \in 1 .. Len(config.services)
      PROVE  config.services[i] \in AllServices /\ config.services[i] \in Service
  <2>1. config.services[i] \in ToSet(config.services) /\ config.services[i] \in Service
    BY <1>2 DEF ToSet
  <2> QED BY <2>1 DEF AllServices
<1> QED BY <1>1, <1>2, <1>3, <1>4

\* Tags, contents and volume names of services are of the declared types.
LEMMA Derived ==
    ASSUME NEW p \in Projects, NEW s \in AllServices, NEW c \in Commits
    PROVE  /\ Tag(p, s, c) \in Tags
           /\ Content(s, c) \in Contents
           /\ s.type = "docker" => /\ RegistryTag(s) = Tag(p, s, 0)
                                   /\ RegistryTag(s) \in Tags
                                   /\ Content(s, 0) \in Contents
<1>1. 0 \in Commits
  BY ConstantsAssumption DEF Commits
<1> QED BY <1>1 DEF Tags, Contents, Tag

(***************************************************************************)
(* Type correctness: what the request of a thread is at each label, how    *)
(* far its lists of images and mounts have come, and that there is a       *)
(* directory for every build under way.                                    *)
(***************************************************************************)
Fits(t) ==
    /\ pc[t] # "idle" => request[t] \in Applies
    /\ pc[t] = "idle" => /\ request[t] = None /\ index[t] = 1
                         /\ tags[t] = <<>> /\ mounts[t] = <<>>
    /\ request[t] \in Applies => /\ index[t] \in 1 .. Len(request[t].services)
                                 /\ Len(tags[t]) <= Len(request[t].services)
    /\ pc[t] \in Building \cup {"image"} => Len(tags[t]) = index[t] - 1
    /\ pc[t] \in Building => Current(t).type = "git"
    /\ pc[t] \in {"find", "pull", "mount", "createVolume"}
          => Len(tags[t]) = Len(request[t].services)
    /\ pc[t] \in Building \cup {"image", "find", "pull"} => mounts[t] = <<>>
    /\ pc[t] = "mount" => Len(mounts[t]) <= Len(Current(t).volumes)
    /\ pc[t] = "createVolume" => Len(mounts[t]) < Len(Current(t).volumes)

Builds == {t \in Threads : pc[t] \in Building}

DirectoryPerBuild ==
    /\ directories \in Nat
    /\ Cardinality(Builds) <= directories
    /\ mishaps = 0 => directories = Cardinality(Builds)

PInv == TypeOK /\ (\A t \in Threads : Fits(t)) /\ DirectoryPerBuild

\* A thread whose own variables stay as they are still fits.
LEMMA Untouched ==
    ASSUME NEW t \in Threads, Fits(t),
           pc'[t] = pc[t], request'[t] = request[t], index'[t] = index[t],
           tags'[t] = tags[t], mounts'[t] = mounts[t]
    PROVE  Fits(t)'
BY DEF Fits, Current, Building

\* What the handlers use of the invariant
LEMMA AtWork ==
    ASSUME NEW t \in Threads, TypeOK, Fits(t), pc[t] # "idle"
    PROVE  /\ request[t] \in Applies
           /\ ProjectOf(t) \in Projects
           /\ Current(t) \in AllServices
           /\ Current(t) \in Service
           /\ Key(t) \in Keys
           /\ Len(request[t].services) \in Nat
           /\ index[t] \in 1 .. Len(request[t].services)
<1>1. request[t] \in Applies /\ index[t] \in 1 .. Len(request[t].services)
  BY DEF Fits
<1>2. /\ ProjectOf(t) \in Projects
      /\ Current(t) \in AllServices
      /\ Current(t) \in Service
      /\ Len(request[t].services) \in Nat
  BY <1>1, Configurations DEF ProjectOf, Current
<1>3. Key(t) \in Keys
  BY <1>2 DEF Key, Keys, Service
<1> QED BY <1>1, <1>2, <1>3

LEMMA NextVolumeTyped ==
    ASSUME NEW t \in Threads, TypeOK, Fits(t), pc[t] \in {"mount", "createVolume"},
           Len(mounts[t]) # Len(Current(t).volumes)
    PROVE  NextVolume(t) \in Volumes
<1>1. /\ request[t] \in Applies
      /\ index[t] \in 1 .. Len(request[t].services)
      /\ Current(t) \in Service
  BY AtWork
<1>2. Current(t) \in ToSet(request[t].services)
  BY <1>1, Configurations DEF Current, ToSet
<1>3. /\ Current(t).volumes \in Seq(VolumeNames)
      /\ Len(mounts[t]) \in Nat
  BY <1>1 DEF Service, TypeOK
<1>4. Len(mounts[t]) + 1 \in 1 .. Len(Current(t).volumes)
  BY <1>3 DEF Fits
<1>5. Current(t).volumes[Len(mounts[t]) + 1] \in ToSet(Current(t).volumes)
  BY <1>3, <1>4 DEF ToSet
<1>6. NextVolume(t) \in VolumesOf(request[t].project, Current(t))
  BY <1>5 DEF NextVolume, VolumesOf, ProjectOf
<1>7. NextVolume(t) \in
         UNION {VolumesOf(request[t].project, s) : s \in ToSet(request[t].services)}
  BY <1>2, <1>6
<1> QED BY <1>1, <1>7 DEF Volumes

\* How a step of one thread changes the number of builds under way
LEMMA BuildsCounted ==
    ASSUME NEW t \in Threads, TypeOK, NEW label \in Labels,
           pc' = [pc EXCEPT ![t] = label]
    PROVE  /\ Cardinality(Builds) \in Nat
           /\ (pc[t] \in Building <=> label \in Building)
                 => Cardinality(Builds') = Cardinality(Builds)
           /\ pc[t] \notin Building /\ label \in Building
                 => Cardinality(Builds') = Cardinality(Builds) + 1
           /\ pc[t] \in Building /\ label \notin Building
                 => /\ Cardinality(Builds') = Cardinality(Builds) - 1
                    /\ Cardinality(Builds) > 0
<1>1. IsFiniteSet(Builds)
  BY ConstantsAssumption, FS_Subset, Builds \subseteq Threads DEF Builds
<1>2. Cardinality(Builds) \in Nat
  BY <1>1, FS_CardinalityType
<1>3. \A u \in Threads : pc'[u] = IF u = t THEN label ELSE pc[u]
  BY DEF TypeOK
<1>4. CASE pc[t] \in Building <=> label \in Building
  <2>1. Builds' = Builds
    BY <1>3, <1>4 DEF Builds
  <2> QED BY <1>2, <1>4, <2>1
<1>5. CASE pc[t] \notin Building /\ label \in Building
  <2>1. Builds' = Builds \cup {t} /\ t \notin Builds
    BY <1>3, <1>5 DEF Builds
  <2> QED BY <1>1, <1>2, <1>5, <2>1, FS_AddElement
<1>6. CASE pc[t] \in Building /\ label \notin Building
  <2>1. Builds' = Builds \ {t} /\ t \in Builds
    BY <1>3, <1>6 DEF Builds
  <2>2. Cardinality(Builds') = Cardinality(Builds) - 1
    BY <1>1, <2>1, FS_RemoveElement
  <2>3. Cardinality(Builds) # 0
    BY <1>1, <2>1, FS_EmptySet
  <2> QED BY <1>2, <1>6, <2>2, <2>3
<1> QED BY <1>4, <1>5, <1>6

\* The image of the current service is added to the list.
LEMMA ImageFound ==
    ASSUME NEW t \in Threads, TypeOK, Fits(t), NEW tag \in Tags,
           pc[t] \in Building \cup {"image"},
           HaveImage(t, tag), request' = request, mounts' = mounts
    PROVE  /\ tags' \in [Threads -> Seq(Tags)]
           /\ index' \in [Threads -> Nat \ {0}]
           /\ pc'[t] \in {"find", "image"}
           /\ pc' \in [Threads -> Labels]
           /\ Fits(t)'
<1>1. /\ request[t] \in Applies
      /\ Len(request[t].services) \in Nat
      /\ index[t] \in 1 .. Len(request[t].services)
  BY AtWork DEF Building
<1>2. tags[t] \in Seq(Tags) /\ Len(tags[t]) = index[t] - 1 /\ mounts[t] = <<>>
  BY DEF TypeOK, Fits
<1>3. /\ tags' = [tags EXCEPT ![t] = Append(tags[t], tag)]
      /\ pc' = [pc EXCEPT ![t] = IF LastService(t) THEN "find" ELSE "image"]
      /\ index' = [index EXCEPT ![t] = IF LastService(t) THEN 1 ELSE index[t] + 1]
  BY DEF HaveImage, Goto
<1>4. Append(tags[t], tag) \in Seq(Tags) /\ Len(Append(tags[t], tag)) = index[t]
  BY <1>1, <1>2
<1>5. /\ tags' \in [Threads -> Seq(Tags)]
      /\ pc' \in [Threads -> Labels]
      /\ index' \in [Threads -> Nat \ {0}]
  BY <1>1, <1>3, <1>4 DEF TypeOK, Labels
<1>6. /\ tags'[t] = Append(tags[t], tag)
      /\ pc'[t] = IF LastService(t) THEN "find" ELSE "image"
      /\ index'[t] = IF LastService(t) THEN 1 ELSE index[t] + 1
  BY <1>3 DEF TypeOK
<1>7. Fits(t)'
  BY <1>1, <1>2, <1>4, <1>6, Configurations DEF Fits, LastService, Building, Current
<1> QED BY <1>5, <1>6, <1>7

\* A step of one thread leaves the other threads as they are.
LEMMA OthersFit ==
    ASSUME NEW t \in Threads, TypeOK, \A u \in Threads : Fits(u),
           \/ Step(t) \/ CallFails(t) \/ (\E config \in Applies : Apply(t, config))
    PROVE  \A u \in Threads \ {t} : Fits(u)'
<1> SUFFICES ASSUME NEW u \in Threads \ {t} PROVE Fits(u)'
  OBVIOUS
<1>1. /\ pc'[u] = pc[u] /\ request'[u] = request[u] /\ index'[u] = index[u]
      /\ tags'[u] = tags[u] /\ mounts'[u] = mounts[u]
  <2>1. CASE GetImageFromSource(t) \/ Clone(t) \/ DockerBuild(t) \/ ReadImage(t)
    BY <2>1 DEF GetImageFromSource, Clone, DockerBuild, ReadImage, HaveImage, Goto, At, world,
                locals, TypeOK
  <2>2. CASE FindContainer(t) \/ PullImageIfNotExists(t)
    BY <2>2 DEF FindContainer, PullImageIfNotExists, NextService, Goto, At, locals, TypeOK
  <2>3. CASE ListVolumes(t) \/ CreateVolume(t) \/ CreateContainer(t)
    BY <2>3 DEF ListVolumes, CreateVolume, CreateContainer, NextService, Goto, world, TypeOK
  <2>4. CASE Reply(t)
    BY <2>4 DEF Reply, Reset
  <2>5. CASE CallFails(t)
    BY <2>5 DEF CallFails, Goto, locals, TypeOK
  <2>6. CASE \E config \in Applies : Apply(t, config)
    BY <2>6 DEF Apply, Goto, locals, TypeOK
  <2> QED BY <2>1, <2>2, <2>3, <2>4, <2>5, <2>6 DEF Step
<1>2. Fits(u)
  OBVIOUS
<1> QED BY <1>1, <1>2, Untouched

LEMMA PInitial ==
    ASSUME Init PROVE PInv
<1>1. Builds = {}
  BY DEF Init, Builds, Building
<1>2. Cardinality(Builds) = 0
  BY <1>1, FS_EmptySet
<1>3. TypeOK
  BY ConstantsAssumption DEF Init, TypeOK, Labels, Commits
<1>4. ASSUME NEW t \in Threads PROVE Fits(t)
  BY ConstantsAssumption DEF Init, Fits, Building
<1> QED BY <1>2, <1>3, <1>4 DEF PInv, DirectoryPerBuild, Init

(***************************************************************************)
(* One lemma per group of handlers                                         *)
(***************************************************************************)
LEMMA BuildKeepsPInv ==
    ASSUME NEW t \in Threads, PInv,
           GetImageFromSource(t) \/ Clone(t) \/ DockerBuild(t) \/ ReadImage(t)
    PROVE  PInv'
<1>1. TypeOK /\ Fits(t) /\ (\A u \in Threads : Fits(u)) /\ DirectoryPerBuild
  BY DEF PInv
<1>2. \A u \in Threads \ {t} : Fits(u)'
  BY <1>1, OthersFit DEF Step
<1>3. pc[t] # "idle"
  BY DEF GetImageFromSource, Clone, DockerBuild, ReadImage, At
<1>4. /\ request[t] \in Applies
      /\ ProjectOf(t) \in Projects
      /\ Current(t) \in AllServices
  BY <1>1, <1>3, AtWork
<1>5. commit[t] \in Commits /\ mishaps \in 0 .. MaxMishaps
  BY <1>1 DEF TypeOK
<1>6. Tag(ProjectOf(t), Current(t), commit[t]) \in Tags
      /\ Content(Current(t), commit[t]) \in Contents
  BY <1>4, <1>5, Derived
<1>7. CASE GetImageFromSource(t)
  <2>1. CASE Current(t).type = "docker" /\ HaveImage(t, RegistryTag(Current(t)))
             /\ UNCHANGED directories
    <3>1. RegistryTag(Current(t)) \in Tags
      BY <1>4, <1>5, <2>1, Derived
    <3>2. /\ tags' \in [Threads -> Seq(Tags)]
          /\ index' \in [Threads -> Nat \ {0}]
          /\ pc'[t] \in {"find", "image"}
          /\ pc' \in [Threads -> Labels]
          /\ Fits(t)'
      <4>1. pc[t] \in Building \cup {"image"} /\ request' = request /\ mounts' = mounts
        BY <1>7 DEF GetImageFromSource, At
      <4> QED BY <1>1, <2>1, <3>1, <4>1, ImageFound
    <3> DEFINE label == IF LastService(t) THEN "find" ELSE "image"
    <3>3. label \in Labels /\ label \notin Building /\ pc' = [pc EXCEPT ![t] = label]
      BY <2>1 DEF HaveImage, Goto, Labels, Building
    <3>4. Cardinality(Builds') = Cardinality(Builds)
      <4>1. pc[t] \notin Building
        BY <1>7 DEF GetImageFromSource, At, Building
      <4> QED BY <1>1, <3>3, <4>1, BuildsCounted
    <3>5. DirectoryPerBuild'
      BY <1>1, <1>7, <2>1, <3>4 DEF DirectoryPerBuild, GetImageFromSource
    <3>6. TypeOK'
      BY <1>1, <1>7, <2>1, <3>2 DEF TypeOK, GetImageFromSource
    <3> QED BY <1>2, <3>2, <3>5, <3>6 DEF PInv
  <2>2. CASE /\ Current(t).type = "git" /\ Goto(t, "clone")
             /\ directories' = directories + 1 /\ UNCHANGED <<tags, index>>
    <3>1. pc' = [pc EXCEPT ![t] = "clone"] /\ pc[t] = "image"
      BY <1>7, <2>2 DEF Goto, GetImageFromSource, At
    <3>2. Cardinality(Builds') = Cardinality(Builds) + 1 /\ Cardinality(Builds) \in Nat
      BY <1>1, <3>1, BuildsCounted DEF Labels, Building
    <3>3. DirectoryPerBuild'
      BY <1>1, <1>7, <2>2, <3>2 DEF DirectoryPerBuild, GetImageFromSource
    <3>4. TypeOK'
      BY <1>1, <1>7, <2>2, <3>1 DEF TypeOK, GetImageFromSource, Labels, Building
    <3>5. Fits(t)'
      BY <1>1, <1>4, <1>7, <2>2, <3>1, ConstantsAssumption
         DEF Fits, TypeOK, GetImageFromSource, Building, Current
    <3> QED BY <1>2, <3>3, <3>4, <3>5 DEF PInv
  <2> QED BY <1>7, <2>1, <2>2 DEF GetImageFromSource
<1>8. CASE Clone(t)
  <2>1. pc' = [pc EXCEPT ![t] = "build"] /\ pc[t] = "clone"
    BY <1>8 DEF Clone, Goto, At
  <2>2. Cardinality(Builds') = Cardinality(Builds)
    BY <1>1, <2>1, BuildsCounted DEF Labels, Building
  <2>3. DirectoryPerBuild'
    BY <1>1, <1>8, <2>2 DEF DirectoryPerBuild, Clone, world
  <2>4. TypeOK'
    BY <1>1, <1>8, <2>1 DEF TypeOK, Clone, world, Labels, Building
  <2>5. Fits(t)'
    BY <1>1, <1>4, <1>8, <2>1, ConstantsAssumption DEF Fits, TypeOK, Clone, Building, Current
  <2> QED BY <1>2, <2>3, <2>4, <2>5 DEF PInv
<1>9. CASE DockerBuild(t)
  <2>1. pc' = [pc EXCEPT ![t] = "read"] /\ pc[t] = "build"
    BY <1>9 DEF DockerBuild, Goto, At
  <2>2. Cardinality(Builds') = Cardinality(Builds)
    BY <1>1, <2>1, BuildsCounted DEF Labels, Building
  <2>3. DirectoryPerBuild'
    BY <1>1, <1>9, <2>2 DEF DirectoryPerBuild, DockerBuild
  <2>4. images' \in [Tags -> Contents \cup {None}]
    BY <1>1, <1>6, <1>9 DEF TypeOK, DockerBuild
  <2>5. TypeOK'
    BY <1>1, <1>9, <2>1, <2>4 DEF TypeOK, DockerBuild, locals, Labels, Building
  <2>6. Fits(t)'
    BY <1>1, <1>4, <1>9, <2>1, ConstantsAssumption
       DEF Fits, TypeOK, DockerBuild, locals, Building, Current
  <2> QED BY <1>2, <2>3, <2>5, <2>6 DEF PInv
<1>10. CASE ReadImage(t)
  <2>1. HaveImage(t, Tag(ProjectOf(t), Current(t), commit[t])) /\ pc[t] = "read"
    BY <1>10 DEF ReadImage, At
  <2>2. /\ tags' \in [Threads -> Seq(Tags)]
        /\ index' \in [Threads -> Nat \ {0}]
        /\ pc'[t] \in {"find", "image"}
        /\ pc' \in [Threads -> Labels]
        /\ Fits(t)'
    <3>1. pc[t] \in Building /\ request' = request /\ mounts' = mounts
      BY <1>10, <2>1 DEF ReadImage, Building
    <3> QED BY <1>1, <1>6, <2>1, <3>1, ImageFound
  <2> DEFINE label == IF LastService(t) THEN "find" ELSE "image"
  <2>3. label \in Labels /\ label \notin Building /\ pc' = [pc EXCEPT ![t] = label]
    BY <2>1 DEF HaveImage, Goto, Labels, Building
  <2>4. /\ Cardinality(Builds') = Cardinality(Builds) - 1
        /\ Cardinality(Builds) > 0 /\ Cardinality(Builds) \in Nat
    <3>1. pc[t] \in Building
      BY <2>1 DEF Building
    <3> QED BY <1>1, <2>3, <3>1, BuildsCounted
  <2>5. DirectoryPerBuild' /\ directories' \in Nat
    BY <1>1, <1>10, <2>4 DEF DirectoryPerBuild, ReadImage
  <2>6. TypeOK'
    BY <1>1, <1>10, <2>2, <2>5 DEF TypeOK, ReadImage
  <2> QED BY <1>2, <2>2, <2>5, <2>6 DEF PInv
<1> QED BY <1>7, <1>8, <1>9, <1>10

LEMMA ServiceKeepsPInv ==
    ASSUME NEW t \in Threads, PInv,
           \/ FindContainer(t) \/ PullImageIfNotExists(t) \/ ListVolumes(t)
           \/ CreateVolume(t) \/ CreateContainer(t)
    PROVE  PInv'
<1>1. TypeOK /\ Fits(t) /\ (\A u \in Threads : Fits(u)) /\ DirectoryPerBuild
  BY DEF PInv
<1>2. \A u \in Threads \ {t} : Fits(u)'
  BY <1>1, OthersFit DEF Step
<1>3. pc[t] \in {"find", "pull", "mount", "createVolume"}
  BY DEF FindContainer, PullImageIfNotExists, ListVolumes, CreateVolume, CreateContainer, At
<1>4. /\ request[t] \in Applies
      /\ ProjectOf(t) \in Projects
      /\ Current(t) \in AllServices
      /\ Current(t) \in Service
      /\ Key(t) \in Keys
      /\ Len(request[t].services) \in Nat
      /\ index[t] \in 1 .. Len(request[t].services)
  BY <1>1, <1>3, AtWork
<1>5. /\ Len(tags[t]) = Len(request[t].services)
      /\ CurrentTag(t) \in Tags
      /\ mounts[t] \in Seq(Volumes)
      /\ Len(Current(t).volumes) \in Nat
  BY <1>1, <1>3, <1>4 DEF Fits, TypeOK, CurrentTag, Service
<1>6. None \notin Applies
  BY ConstantsAssumption
<1>7. ASSUME NEW label \in Labels \ Building, pc' = [pc EXCEPT ![t] = label],
             directories' = directories, mishaps' = mishaps
      PROVE  DirectoryPerBuild'
  <2>1. Cardinality(Builds') = Cardinality(Builds)
    BY <1>1, <1>3, <1>7, BuildsCounted DEF Building
  <2> QED BY <1>1, <1>7, <2>1 DEF DirectoryPerBuild
<1>8. ASSUME NextService(t), directories' = directories, mishaps' = mishaps
      PROVE  DirectoryPerBuild' /\ pc' \in [Threads -> Labels]
             /\ index' \in [Threads -> Nat \ {0}]
             /\ pc'[t] = (IF LastService(t) THEN "applied" ELSE "find")
             /\ index'[t] = (IF LastService(t) THEN index[t] ELSE index[t] + 1)
  <2> DEFINE label == IF LastService(t) THEN "applied" ELSE "find"
  <2>1. label \in Labels \ Building /\ pc' = [pc EXCEPT ![t] = label]
    BY <1>8 DEF NextService, Goto, Labels, Building
  <2>2. DirectoryPerBuild'
    BY <1>7, <1>8, <2>1
  <2>3. pc' \in [Threads -> Labels] /\ pc'[t] = label
    BY <1>1, <2>1 DEF TypeOK
  <2>4. /\ index' \in [Threads -> Nat \ {0}]
        /\ index'[t] = (IF LastService(t) THEN index[t] ELSE index[t] + 1)
    BY <1>1, <1>4, <1>8 DEF NextService, TypeOK
  <2> QED BY <2>2, <2>3, <2>4
<1>9. CASE FindContainer(t)
  <2>1. CASE UpToDate(t) /\ NextService(t) /\ UNCHANGED containers
    <3>1. TypeOK' /\ DirectoryPerBuild'
      BY <1>1, <1>8, <1>9, <2>1 DEF TypeOK, FindContainer, locals
    <3>2. Fits(t)'
      BY <1>1, <1>3, <1>4, <1>5, <1>6, <1>8, <1>9, <2>1
         DEF Fits, FindContainer, locals, LastService, Building, At
    <3> QED BY <1>2, <3>1, <3>2 DEF PInv
  <2>2. CASE /\ containers' = [containers EXCEPT ![Key(t)] = None]
             /\ Goto(t, "pull") /\ UNCHANGED index
    <3>1. pc' = [pc EXCEPT ![t] = "pull"] /\ "pull" \in Labels \ Building
      BY <2>2 DEF Goto, Labels, Building
    <3>2. TypeOK' /\ DirectoryPerBuild'
      BY <1>1, <1>4, <1>7, <1>9, <2>2, <3>1 DEF TypeOK, FindContainer, locals
    <3>3. Fits(t)'
      BY <1>1, <1>3, <1>4, <1>5, <1>6, <1>9, <2>2, <3>1
         DEF Fits, TypeOK, FindContainer, locals, Building, At, Current
    <3> QED BY <1>2, <3>2, <3>3 DEF PInv
  <2> QED BY <1>9, <2>1, <2>2 DEF FindContainer
<1>10. CASE PullImageIfNotExists(t)
  <2> DEFINE label == IF Goto(t, "mount") THEN "mount" ELSE "failed"
  <2>1. label \in Labels \ Building /\ pc' = [pc EXCEPT ![t] = label]
    BY <1>10 DEF PullImageIfNotExists, Goto, Labels, Building
  <2>2. images' \in [Tags -> Contents \cup {None}]
    <3>1. Current(t).type = "docker" => Content(Current(t), 0) \in Contents
      <4>1. commit[t] \in Commits
        BY <1>1 DEF TypeOK
      <4> QED BY <1>4, <4>1, Derived
    <3> QED BY <1>1, <1>5, <1>10, <3>1 DEF PullImageIfNotExists, TypeOK
  <2>3. TypeOK' /\ DirectoryPerBuild'
    BY <1>1, <1>7, <1>10, <2>1, <2>2 DEF TypeOK, PullImageIfNotExists, locals
  <2>4. Fits(t)'
    <3>1. pc'[t] = label /\ pc[t] = "pull"
      BY <1>1, <1>10, <2>1 DEF TypeOK, PullImageIfNotExists, At
    <3> QED BY <1>1, <1>4, <1>5, <1>6, <1>10, <3>1
            DEF Fits, PullImageIfNotExists, locals, Building, Current
  <2> QED BY <1>2, <2>3, <2>4 DEF PInv
<1>11. ASSUME NEW name \in Volumes, mounts' = [mounts EXCEPT ![t] = Append(mounts[t], name)]
       PROVE  /\ mounts' \in [Threads -> Seq(Volumes)]
              /\ Len(mounts'[t]) = Len(mounts[t]) + 1
  <2>1. Append(mounts[t], name) \in Seq(Volumes)
        /\ Len(Append(mounts[t], name)) = Len(mounts[t]) + 1
    BY <1>5, <1>11
  <2>2. mounts'[t] = Append(mounts[t], name)
    BY <1>1, <1>11 DEF TypeOK
  <2> QED BY <1>1, <1>11, <2>1, <2>2 DEF TypeOK
<1>12. CASE ListVolumes(t)
  <2>1. pc[t] = "mount" /\ Len(mounts[t]) # Len(Current(t).volumes)
    BY <1>12 DEF ListVolumes, At, Mounted
  <2>2. Len(mounts[t]) < Len(Current(t).volumes)
    BY <1>1, <1>5, <2>1 DEF Fits
  <2>3. CASE \E volume \in Found(t) :
                /\ mounts' = [mounts EXCEPT ![t] = Append(@, volume)]
                /\ UNCHANGED pc
    <3>1. PICK volume \in Found(t) : mounts' = [mounts EXCEPT ![t] = Append(mounts[t], volume)]
      BY <2>3
    <3>2. volume \in Volumes
      BY <1>1, <3>1 DEF Found, TypeOK
    <3>3. mounts' \in [Threads -> Seq(Volumes)] /\ Len(mounts'[t]) = Len(mounts[t]) + 1
      BY <1>11, <3>1, <3>2
    <3>4. TypeOK'
      BY <1>1, <1>12, <2>3, <3>3 DEF TypeOK, ListVolumes, world
    <3>5. DirectoryPerBuild'
      BY <1>1, <1>12, <2>3 DEF DirectoryPerBuild, Builds, ListVolumes, world
    <3>6. Fits(t)'
      BY <1>1, <1>4, <1>5, <1>6, <1>12, <2>1, <2>2, <2>3, <3>3
         DEF Fits, ListVolumes, Building, Current
    <3> QED BY <1>2, <3>4, <3>5, <3>6 DEF PInv
  <2>4. CASE Goto(t, "createVolume") /\ UNCHANGED mounts
    <3>1. pc' = [pc EXCEPT ![t] = "createVolume"] /\ "createVolume" \in Labels \ Building
      BY <2>4 DEF Goto, Labels, Building
    <3>2. TypeOK' /\ DirectoryPerBuild'
      BY <1>1, <1>7, <1>12, <2>4, <3>1 DEF TypeOK, ListVolumes, world
    <3>3. pc'[t] = "createVolume"
      BY <1>1, <3>1 DEF TypeOK
    <3>4. Fits(t)'
      BY <1>1, <1>3, <1>4, <1>5, <1>6, <1>12, <2>2, <2>4, <3>3
         DEF Fits, ListVolumes, Building, Current
    <3> QED BY <1>2, <3>2, <3>4 DEF PInv
  <2> QED BY <1>12, <2>3, <2>4 DEF ListVolumes
<1>13. CASE CreateVolume(t)
  <2>1. pc[t] = "createVolume" /\ Len(mounts[t]) < Len(Current(t).volumes)
    BY <1>1, <1>13 DEF CreateVolume, At, Fits
  <2>2. NextVolume(t) \in Volumes
    <3>1. Len(mounts[t]) # Len(Current(t).volumes)
      BY <1>5, <2>1
    <3> QED BY <1>1, <2>1, <3>1, NextVolumeTyped
  <2>3. mounts' \in [Threads -> Seq(Volumes)] /\ Len(mounts'[t]) = Len(mounts[t]) + 1
    BY <1>11, <1>13, <2>2 DEF CreateVolume
  <2>4. pc' = [pc EXCEPT ![t] = "mount"] /\ "mount" \in Labels \ Building
    BY <1>13 DEF CreateVolume, Goto, Labels, Building
  <2>5. TypeOK' /\ DirectoryPerBuild'
    BY <1>1, <1>7, <1>13, <2>2, <2>3, <2>4 DEF TypeOK, CreateVolume
  <2>6. pc'[t] = "mount"
    BY <1>1, <2>4 DEF TypeOK
  <2>7. Fits(t)'
    BY <1>1, <1>4, <1>5, <1>6, <1>13, <2>1, <2>3, <2>6
       DEF Fits, CreateVolume, Building, Current
  <2> QED BY <1>2, <2>5, <2>7 DEF PInv
<1>14. CASE CreateContainer(t)
  <2>1. pc[t] = "mount" /\ mounts' = [mounts EXCEPT ![t] = <<>>]
        /\ mounts'[t] = <<>> /\ mounts' \in [Threads -> Seq(Volumes)]
    BY <1>1, <1>14 DEF CreateContainer, At, TypeOK
  <2>2. CASE /\ images[CurrentTag(t)] # None
             /\ containers' = [containers EXCEPT ![Key(t)] = NewContainer(t)]
             /\ NextService(t)
    <3>1. NewContainer(t) \in Container
      BY <1>1, <1>4, <1>5, <2>2 DEF NewContainer, Container, TypeOK
    <3>2. containers' \in [Keys -> Container \cup {None}]
      BY <1>1, <1>4, <2>2, <3>1 DEF TypeOK
    <3>3. TypeOK' /\ DirectoryPerBuild'
      BY <1>1, <1>8, <1>14, <2>1, <2>2, <3>2 DEF TypeOK, CreateContainer
    <3>4. Fits(t)'
      BY <1>1, <1>3, <1>4, <1>5, <1>6, <1>8, <1>14, <2>1, <2>2
         DEF Fits, CreateContainer, LastService, Building
    <3> QED BY <1>2, <3>3, <3>4 DEF PInv
  <2>3. CASE Goto(t, "failed") /\ UNCHANGED <<containers, index>>
    <3>1. pc' = [pc EXCEPT ![t] = "failed"] /\ "failed" \in Labels \ Building
      BY <2>3 DEF Goto, Labels, Building
    <3>2. TypeOK' /\ DirectoryPerBuild'
      BY <1>1, <1>7, <1>14, <2>1, <2>3, <3>1 DEF TypeOK, CreateContainer
    <3>3. pc'[t] = "failed"
      BY <1>1, <3>1 DEF TypeOK
    <3>4. Fits(t)'
      BY <1>1, <1>3, <1>4, <1>5, <1>6, <1>14, <2>3, <3>3 DEF Fits, CreateContainer, Building
    <3> QED BY <1>2, <3>2, <3>4 DEF PInv
  <2> QED BY <1>14, <2>2, <2>3 DEF CreateContainer
<1> QED BY <1>9, <1>10, <1>12, <1>13, <1>14

LEMMA ClientKeepsPInv ==
    ASSUME NEW t \in Threads, PInv,
           Reply(t) \/ CallFails(t) \/ (\E config \in Applies : Apply(t, config))
    PROVE  PInv'
<1>1. TypeOK /\ Fits(t) /\ (\A u \in Threads : Fits(u)) /\ DirectoryPerBuild
  BY DEF PInv
<1>2. \A u \in Threads \ {t} : Fits(u)'
  BY <1>1, OthersFit DEF Step
<1>3. CASE \E config \in Applies : Apply(t, config)
  <2>1. PICK config \in Applies : Apply(t, config)
    BY <1>3
  <2>2. pc' = [pc EXCEPT ![t] = "image"] /\ pc[t] = "idle"
    BY <2>1 DEF Apply, Goto, At
  <2>3. Cardinality(Builds') = Cardinality(Builds)
    <3>1. "image" \in Labels /\ "image" \notin Building /\ pc[t] \notin Building
      BY <2>2 DEF Labels, Building
    <3> QED BY <1>1, <2>2, <3>1, BuildsCounted
  <2>4. TypeOK' /\ DirectoryPerBuild'
    BY <1>1, <2>1, <2>2, <2>3 DEF TypeOK, DirectoryPerBuild, Apply, world, locals, Labels
  <2>5. request'[t] = config /\ pc'[t] = "image"
    BY <1>1, <2>1, <2>2 DEF TypeOK, Apply
  <2>6. Fits(t)'
    BY <1>1, <2>1, <2>2, <2>5, Configurations DEF Fits, Apply, locals, Building
  <2> QED BY <1>2, <2>4, <2>6 DEF PInv
<1>4. CASE Reply(t)
  <2>1. pc' = [pc EXCEPT ![t] = "idle"] /\ pc[t] \notin Building
    BY <1>1, <1>4 DEF Reply, Reset, Building, TypeOK
  <2>2. Cardinality(Builds') = Cardinality(Builds)
    <3>1. "idle" \in Labels /\ "idle" \notin Building
      BY DEF Labels, Building
    <3> QED BY <1>1, <2>1, <3>1, BuildsCounted
  <2>3. TypeOK' /\ DirectoryPerBuild'
    BY <1>1, <1>4, <2>1, <2>2, ConstantsAssumption
       DEF TypeOK, DirectoryPerBuild, Reply, Reset, world, Labels, Commits
  <2>4. Fits(t)'
    BY <1>4, ConstantsAssumption DEF Fits, Reply, Reset, Building
  <2> QED BY <1>2, <2>3, <2>4 DEF PInv
<1>5. CASE CallFails(t)
  <2>1. /\ pc' = [pc EXCEPT ![t] = "failed"]
        /\ mishaps' \in 0 .. MaxMishaps /\ mishaps' # 0
    BY <1>1, <1>5, ConstantsAssumption DEF CallFails, Mishap, Goto, TypeOK
  <2>2. /\ Cardinality(Builds') <= Cardinality(Builds)
        /\ pc[t] \in Building => Cardinality(Builds') = Cardinality(Builds) - 1
        /\ Cardinality(Builds) \in Nat /\ Cardinality(Builds') \in Nat
    <3>1. "failed" \in Labels /\ "failed" \notin Building
      BY DEF Labels, Building
    <3>2. /\ Cardinality(Builds) \in Nat
          /\ pc[t] \notin Building => Cardinality(Builds') = Cardinality(Builds)
          /\ pc[t] \in Building => /\ Cardinality(Builds') = Cardinality(Builds) - 1
                                  /\ Cardinality(Builds) > 0
      BY <1>1, <2>1, <3>1, BuildsCounted
    <3> QED BY <3>2
  <2>3. DirectoryPerBuild'
    <3>1. CASE pc[t] \in {"clone", "read"} /\ directories' = directories - 1
      BY <1>1, <2>1, <2>2, <3>1 DEF DirectoryPerBuild, Building
    <3>2. CASE directories' = directories
      BY <1>1, <2>1, <2>2, <3>2 DEF DirectoryPerBuild
    <3> QED BY <1>5, <3>1, <3>2 DEF CallFails
  <2>4. TypeOK'
    BY <1>1, <1>5, <2>1, <2>3 DEF TypeOK, CallFails, DirectoryPerBuild, locals, Labels
  <2>5. pc'[t] = "failed" /\ pc[t] # "idle"
    BY <1>1, <1>5, <2>1 DEF TypeOK, CallFails, At
  <2>6. Fits(t)'
    BY <1>1, <1>5, <2>5, ConstantsAssumption DEF Fits, CallFails, locals, Building
  <2> QED BY <1>2, <2>3, <2>4, <2>6 DEF PInv
<1> QED BY <1>3, <1>4, <1>5

LEMMA WorldKeepsPInv ==
    ASSUME PInv, Push \/ (\E tag \in Tags : Prune(tag)) \/ Crash \/ UNCHANGED vars
    PROVE  PInv'
<1>1. TypeOK /\ (\A u \in Threads : Fits(u)) /\ DirectoryPerBuild
  BY DEF PInv
<1>2. CASE Push \/ (\E tag \in Tags : Prune(tag)) \/ UNCHANGED vars
  <2>1. /\ pc' = pc /\ request' = request /\ index' = index
        /\ tags' = tags /\ mounts' = mounts /\ directories' = directories
        /\ mishaps' = mishaps \/ (mishaps' = mishaps + 1 /\ mishaps < MaxMishaps)
    BY <1>2 DEF Push, Prune, Mishap, vars, world, locals
  <2>2. \A u \in Threads : Fits(u)'
    BY <1>1, <2>1, Untouched
  <2>3. Builds' = Builds /\ mishaps' \in 0 .. MaxMishaps /\ (mishaps' = 0 => mishaps = 0)
    BY <1>1, <2>1, ConstantsAssumption DEF TypeOK, Builds
  <2>4. DirectoryPerBuild'
    BY <1>1, <2>1, <2>3 DEF DirectoryPerBuild
  <2>5. TypeOK'
    <3>1. CASE Push
      BY <1>1, <2>1, <2>3, <3>1, ConstantsAssumption DEF TypeOK, Push, locals, Commits
    <3>2. CASE \E tag \in Tags : Prune(tag)
      BY <1>1, <2>1, <2>3, <3>2 DEF TypeOK, Prune, locals
    <3>3. CASE UNCHANGED vars
      BY <1>1, <3>3 DEF TypeOK, vars, world, locals
    <3> QED BY <1>2, <3>1, <3>2, <3>3
  <2> QED BY <2>2, <2>4, <2>5 DEF PInv
<1>3. CASE Crash
  <2>1. Builds' = {}
    BY <1>3 DEF Crash, Reset, Builds, Building
  <2>2. Cardinality(Builds') = 0
    BY <2>1, FS_EmptySet
  <2>3. mishaps' \in 0 .. MaxMishaps /\ mishaps' # 0
    BY <1>1, <1>3, ConstantsAssumption DEF Crash, Mishap, TypeOK
  <2>4. DirectoryPerBuild'
    BY <1>1, <1>3, <2>2, <2>3 DEF DirectoryPerBuild, Crash, world
  <2>5. TypeOK'
    BY <1>1, <1>3, <2>3, ConstantsAssumption DEF TypeOK, Crash, Reset, world, Labels, Commits
  <2>6. \A u \in Threads : Fits(u)'
    BY <1>3, ConstantsAssumption DEF Fits, Crash, Reset, Building
  <2> QED BY <2>4, <2>5, <2>6 DEF PInv
<1> QED BY <1>2, <1>3

LEMMA PInductive ==
    ASSUME PInv, [Next]_vars PROVE PInv'
<1>1. ASSUME NEW t \in Threads, (\E config \in Applies : Apply(t, config)) \/ Step(t) \/ CallFails(t)
      PROVE  PInv'
  BY <1>1, BuildKeepsPInv, ServiceKeepsPInv, ClientKeepsPInv DEF Step
<1> QED BY <1>1, WorldKeepsPInv DEF Next

THEOREM PInvariant == Spec => []PInv
<1> QED BY PInitial, PInductive, PTL DEF Spec

\* Every variable stays within its type: whatever is looked up at a position of
\* a list of services, images or mounts is there.
THEOREM TypeCorrect == Spec => []TypeOK
<1>1. PInv => TypeOK
  BY DEF PInv
<1> QED BY <1>1, PInvariant, PTL

\* Builder.cleanup: without mishaps no build directory outlives its build,
\* however many builds run at once.
THEOREM DirectoriesRemoved == Spec => []NoStrayDirectories
<1>1. PInv => NoStrayDirectories
  BY DEF PInv, DirectoryPerBuild, Builds, NoStrayDirectories
<1> QED BY <1>1, PInvariant, PTL

(***************************************************************************)
(* Sources: the images of a request are what its services ask for, or gone *)
(***************************************************************************)

\* Requests under way are for different projects.
Exclusive ==
    \A t, u \in Threads :
        request[t] # None /\ request[u] # None /\ ProjectOf(t) = ProjectOf(u) => t = u

FromRegistry ==
    \A s \in AllServices :
        s.type = "docker" => images[RegistryTag(s)] \in {None, Content(s, 0)}

ImageFits(t, i) ==
    LET s == request[t].services[i]
        c == tags[t][i].commit
    IN  /\ tags[t][i] = Tag(ProjectOf(t), s, c)
        /\ images[tags[t][i]] \in {None, Content(s, c)}

BuildFits(t) ==
    images[Tag(ProjectOf(t), Current(t), commit[t])] \in {None, Content(Current(t), commit[t])}

ImagesFit(t) ==
    /\ \A i \in 1 .. Len(tags[t]) : ImageFits(t, i)
    /\ pc[t] = "read" => BuildFits(t)

SInv == Exclusive /\ FromRegistry /\ (\A t \in Threads : ImagesFit(t)) /\ BuiltFromItsSource

\* Equal tags: the same service of the same project, or the same registry image
LEMMA TagsTellApart ==
    ASSUME NEW p, NEW q, NEW s \in Service, NEW r \in Service, NEW c, NEW d,
           Tag(p, s, c) = Tag(q, r, d)
    PROVE  /\ s.type = r.type
           /\ s.type = "git" => p = q /\ s.name = r.name /\ c = d
           /\ s.type = "docker" => Content(s, c) = Content(r, d)
<1>1. s.type \in {"git", "docker"} /\ r.type \in {"git", "docker"}
  BY DEF Service
<1>2. Tag(p, s, c).type = s.type /\ Tag(q, r, d).type = r.type
  BY <1>1 DEF Tag, RegistryTag
<1>3. CASE s.type = "git"
  <2>1. Tag(p, s, c).project = p /\ Tag(p, s, c).name = s.name /\ Tag(p, s, c).commit = c
    BY <1>3 DEF Tag
  <2>2. Tag(q, r, d).project = q /\ Tag(q, r, d).name = r.name /\ Tag(q, r, d).commit = d
    BY <1>1, <1>2, <1>3 DEF Tag
  <2> QED BY <1>2, <1>3, <2>1, <2>2
<1>4. CASE s.type = "docker"
  <2>1. Tag(p, s, c) = RegistryTag(s) /\ Tag(q, r, d) = RegistryTag(r)
    BY <1>2, <1>4 DEF Tag
  <2>2. RegistryTag(s).name = s.recipe /\ RegistryTag(r).name = r.recipe
    BY DEF RegistryTag
  <2> QED BY <1>2, <1>4, <2>1, <2>2 DEF Content
<1> QED BY <1>1, <1>3, <1>4

\* What ImagesFit speaks of is within the types.
LEMMA ImagesTyped ==
    ASSUME PInv, NEW t \in Threads
    PROVE  /\ \A i \in 1 .. Len(tags[t]) :
                 /\ tags[t][i] \in Tags
                 /\ i \in 1 .. Len(request[t].services)
                 /\ request[t].services[i] \in AllServices
                 /\ request[t].services[i] \in Service
                 /\ request[t] \in Applies
           /\ pc[t] \in Building => /\ request[t] \in Applies
                                    /\ Current(t) \in AllServices
                                    /\ Current(t) \in Service
                                    /\ Current(t).type = "git"
                                    /\ Tag(ProjectOf(t), Current(t), commit[t]) \in Tags
<1>1. TypeOK /\ Fits(t)
  BY DEF PInv
<1>2. tags[t] \in Seq(Tags) /\ commit[t] \in Commits
  BY <1>1 DEF TypeOK
<1>3. ASSUME NEW i \in 1 .. Len(tags[t])
      PROVE  /\ tags[t][i] \in Tags
             /\ i \in 1 .. Len(request[t].services)
             /\ request[t].services[i] \in AllServices
             /\ request[t].services[i] \in Service
             /\ request[t] \in Applies
  <2>1. tags[t] # <<>> /\ tags[t][i] \in Tags
    BY <1>2
  <2>2. request[t] \in Applies /\ Len(tags[t]) <= Len(request[t].services)
    BY <1>1, <2>1 DEF Fits
  <2>3. Len(request[t].services) \in Nat /\ Len(tags[t]) \in Nat
    <3>1. Len(request[t].services) \in Nat
      BY <2>2, Configurations
    <3> QED BY <1>2, <3>1
  <2>4. i \in 1 .. Len(request[t].services)
    BY <2>2, <2>3
  <2> QED BY <2>1, <2>2, <2>4, Configurations
<1>4. CASE pc[t] \in Building
  <2>1. pc[t] # "idle" /\ Current(t).type = "git"
    BY <1>1, <1>4 DEF Building, Fits
  <2> QED BY <1>1, <1>2, <1>3, <2>1, AtWork, Derived
<1> QED BY <1>3, <1>4

\* Where images only disappear, or stay, a thread at rest keeps its images.
LEMMA ImagesStay ==
    ASSUME PInv, NEW t \in Threads, ImagesFit(t),
           \A tag \in Tags : images'[tag] \in {None, images[tag]},
           request'[t] = request[t], tags'[t] = tags[t],
           pc'[t] = "read" => /\ pc[t] = "read"
                              /\ index'[t] = index[t] /\ commit'[t] = commit[t]
    PROVE  ImagesFit(t)'
<1>1. ASSUME NEW i \in 1 .. Len(tags'[t]) PROVE ImageFits(t, i)'
  <2>1. tags[t][i] \in Tags /\ ImageFits(t, i)
    BY <1>1, ImagesTyped DEF ImagesFit
  <2> QED BY <2>1 DEF ImageFits, ProjectOf
<1>2. ASSUME pc'[t] = "read" PROVE BuildFits(t)'
  <2>1. Tag(ProjectOf(t), Current(t), commit[t]) \in Tags /\ BuildFits(t) /\ commit'[t] = commit[t]
    BY <1>2, ImagesTyped DEF Building, ImagesFit
  <2>2. ProjectOf(t)' = ProjectOf(t) /\ Current(t)' = Current(t)
    BY <1>2 DEF ProjectOf, Current
  <2> QED BY <2>1, <2>2 DEF BuildFits
<1> QED BY <1>1, <1>2 DEF ImagesFit

LEMMA RegistryImages ==
    ASSUME NEW s \in AllServices, s.type = "docker"
    PROVE  RegistryTag(s) \in Tags /\ s \in Service /\ \A p : RegistryTag(s) = Tag(p, s, 0)
<1>1. PICK config \in Applies : s \in ToSet(config.services)
  BY DEF AllServices
<1>2. PICK i \in DOMAIN config.services : s = config.services[i]
  BY <1>1 DEF ToSet
<1>3. config.services \in Seq(Service) /\ config.project \in Projects
  BY Configurations
<1>4. s \in Service
  BY <1>2, <1>3
<1>5. 0 \in Commits
  BY ConstantsAssumption DEF Commits
<1>6. RegistryTag(s) \in Tags
  BY <1>3, <1>5, Derived
<1> QED BY <1>4, <1>6 DEF Tag

LEMMA RegistryStays ==
    ASSUME FromRegistry, \A tag \in Tags : images'[tag] \in {None, images[tag]}
    PROVE  FromRegistry'
BY RegistryImages DEF FromRegistry

\* The image that a thread has just found fits.
LEMMA ImageAdded ==
    ASSUME PInv, NEW t \in Threads, ImagesFit(t), pc[t] \in Building \cup {"image"},
           NEW tag \in Tags, HaveImage(t, tag),
           tag = Tag(ProjectOf(t), Current(t), tag.commit),
           images[tag] \in {None, Content(Current(t), tag.commit)},
           images' = images, request' = request
    PROVE  ImagesFit(t)'
<1>1. TypeOK /\ Fits(t)
  BY DEF PInv
<1>2. /\ tags[t] \in Seq(Tags) /\ Len(tags[t]) = index[t] - 1
      /\ Len(tags[t]) \in Nat
  BY <1>1 DEF TypeOK, Fits
<1>3. tags'[t] = Append(tags[t], tag) /\ pc'[t] # "read"
  BY <1>1 DEF HaveImage, Goto, TypeOK
<1>4. /\ index[t] \in Nat \ {0}
      /\ index[t] = Len(tags[t]) + 1
  BY <1>1, <1>2 DEF TypeOK
<1>5. ASSUME NEW i \in 1 .. Len(tags'[t]) PROVE ImageFits(t, i)'
  <2>1. CASE i \in 1 .. Len(tags[t])
    <3>1. tags'[t][i] = tags[t][i] /\ ImageFits(t, i)
      BY <1>2, <1>3, <2>1 DEF ImagesFit
    <3> QED BY <3>1 DEF ImageFits, ProjectOf
  <2>2. CASE i = index[t]
    <3>1. tags'[t][i] = tag
      BY <1>2, <1>3, <1>4, <2>2
    <3> QED BY <2>2, <3>1 DEF ImageFits, ProjectOf, Current
  <2>3. i \in 1 .. Len(tags[t]) \/ i = index[t]
    <3>1. Len(tags'[t]) = Len(tags[t]) + 1
      BY <1>2, <1>3
    <3> QED BY <1>2, <1>4, <3>1
  <2> QED BY <2>1, <2>2, <2>3
<1> QED BY <1>3, <1>5 DEF ImagesFit

LEMMA ExclusiveKept ==
    ASSUME PInv, Exclusive, [Next]_vars PROVE Exclusive'
<1>1. TypeOK
  BY DEF PInv
<1>2. CASE request' = request
  BY <1>2 DEF Exclusive, ProjectOf
<1>3. CASE \E t \in Threads, config \in Applies : Apply(t, config)
  <2>1. PICK t \in Threads, config \in Applies : Apply(t, config)
    BY <1>3
  <2>2. \A u \in Threads : request'[u] = IF u = t THEN config ELSE request[u]
    BY <1>1, <2>1 DEF Apply, TypeOK
  <2>3. \A u \in Threads : request[u] # None => ProjectOf(u) # config.project
    BY <2>1 DEF Apply, Unserved
  <2> QED BY <2>2, <2>3 DEF Exclusive, ProjectOf
<1>4. CASE \E who \in SUBSET Threads : Reset(who)
  <2>1. \A u \in Threads : request'[u] \in {request[u], None}
    BY <1>4 DEF Reset
  <2> QED BY <2>1 DEF Exclusive, ProjectOf
<1>5. request' = request \/ (\E t \in Threads, config \in Applies : Apply(t, config))
      \/ (\E who \in SUBSET Threads : Reset(who))
  <2>1. ASSUME NEW t \in Threads, Step(t) \/ CallFails(t)
        PROVE  request' = request \/ (\E who \in SUBSET Threads : Reset(who))
    BY <2>1 DEF Step, GetImageFromSource, Clone, DockerBuild, ReadImage, FindContainer,
                PullImageIfNotExists, ListVolumes, CreateVolume, CreateContainer, Reply,
                CallFails, world, locals
  <2>2. ASSUME Push \/ Crash \/ (\E tag \in Tags : Prune(tag)) \/ UNCHANGED vars
        PROVE  request' = request \/ (\E who \in SUBSET Threads : Reset(who))
    BY <2>2 DEF Push, Crash, Prune, vars, world, locals
  <2> QED BY <2>1, <2>2 DEF Next
<1> QED BY <1>2, <1>3, <1>4, <1>5

\* A build overwrites the image of its own tag only, and no list has it.
LEMMA BuildKeepsImages ==
    ASSUME PInv, SInv, NEW t \in Threads, DockerBuild(t)
    PROVE  FromRegistry' /\ \A u \in Threads : ImagesFit(u)'
<1> DEFINE built == Tag(ProjectOf(t), Current(t), commit[t])
<1>1. /\ pc[t] = "build" /\ TypeOK /\ Fits(t)
      /\ images' = [images EXCEPT ![built] = Content(Current(t), commit[t])]
      /\ request' = request /\ tags' = tags /\ index' = index /\ commit' = commit
      /\ pc' = [pc EXCEPT ![t] = "read"]
  BY DEF DockerBuild, At, Goto, locals, PInv
<1>2. /\ request[t] \in Applies
      /\ Current(t) \in AllServices /\ Current(t) \in Service /\ Current(t).type = "git"
      /\ built \in Tags
  BY <1>1, ImagesTyped DEF Building
<1>3. /\ images'[built] = Content(Current(t), commit[t])
      /\ \A tag \in Tags : tag # built => images'[tag] = images[tag]
  BY <1>1, <1>2 DEF TypeOK
<1> HIDE DEF built
<1>4. FromRegistry'
  <2> SUFFICES ASSUME NEW s \in AllServices, s.type = "docker"
               PROVE  images'[RegistryTag(s)] \in {None, Content(s, 0)}
    BY DEF FromRegistry
  <2>1. RegistryTag(s) \in Tags /\ RegistryTag(s) # built
    BY <1>2, RegistryImages, TagsTellApart DEF built
  <2> QED BY <1>3, <2>1 DEF SInv, FromRegistry
<1>5. ASSUME NEW u \in Threads PROVE ImagesFit(u)'
  <2>1. ImagesFit(u)
    BY DEF SInv
  <2>2. ASSUME NEW i \in 1 .. Len(tags[u]) PROVE ImageFits(u, i)'
    <3>1. /\ ImageFits(u, i)
          /\ tags[u][i] \in Tags
          /\ request[u].services[i] \in Service
          /\ request[u] \in Applies
          /\ i \in 1 .. Len(request[u].services)
      BY <2>1, <2>2, ImagesTyped DEF ImagesFit
    <3>2. ASSUME tags[u][i] = built PROVE FALSE
      <4>1. /\ ProjectOf(u) = ProjectOf(t)
            /\ request[u].services[i].name = Current(t).name
        BY <1>2, <3>1, <3>2, TagsTellApart DEF ImageFits, built
      <4>2. u = t
        BY <1>2, <3>1, <4>1, ConstantsAssumption DEF SInv, Exclusive
      <4>3. /\ index[t] \in 1 .. Len(request[t].services)
            /\ Len(tags[t]) = index[t] - 1
        BY <1>1, <1>2 DEF Fits, Building
      <4>4. i = index[t]
        <5>1. request[t].services \in Seq(Service) /\ NamesDiffer(request[t])
          BY <1>2, Configurations
        <5> QED BY <3>1, <4>1, <4>2, <4>3, <5>1 DEF NamesDiffer, Current
      <4> QED BY <2>2, <4>2, <4>3, <4>4
    <3> QED BY <1>1, <1>3, <3>1, <3>2 DEF ImageFits, ProjectOf
  <2>3. ASSUME pc'[u] = "read" PROVE BuildFits(u)'
    <3>1. CASE u = t
      BY <1>1, <1>3, <3>1 DEF BuildFits, ProjectOf, Current, built
    <3>2. CASE u # t
      <4>1. pc[u] = "read"
        BY <1>1, <2>3, <3>2 DEF TypeOK
      <4>2. /\ BuildFits(u) /\ request[u] \in Applies
            /\ Current(u) \in Service /\ Current(u).type = "git"
            /\ Tag(ProjectOf(u), Current(u), commit[u]) \in Tags
        BY <2>1, <4>1, ImagesTyped DEF ImagesFit, Building
      <4>3. ProjectOf(u) # ProjectOf(t)
        BY <1>2, <3>2, <4>2, ConstantsAssumption DEF SInv, Exclusive
      <4>4. Tag(ProjectOf(u), Current(u), commit[u]) # built
        BY <1>2, <4>2, <4>3, TagsTellApart DEF built
      <4> QED BY <1>1, <1>3, <4>2, <4>4 DEF BuildFits, ProjectOf, Current
    <3> QED BY <3>1, <3>2
  <2> QED BY <1>1, <2>2, <2>3 DEF ImagesFit
<1> QED BY <1>4, <1>5

\* The tag of the service at hand
LEMMA CurrentImage ==
    ASSUME PInv, SInv, NEW t \in Threads, pc[t] \in {"find", "pull", "mount", "createVolume"}
    PROVE  /\ request[t] \in Applies
           /\ Key(t) \in Keys
           /\ Current(t) \in AllServices /\ Current(t) \in Service
           /\ CurrentTag(t) \in Tags
           /\ CurrentTag(t) = Tag(ProjectOf(t), Current(t), CurrentTag(t).commit)
           /\ images[CurrentTag(t)] \in {None, Content(Current(t), CurrentTag(t).commit)}
<1>1. TypeOK /\ Fits(t) /\ ImagesFit(t)
  BY DEF PInv, SInv
<1>2. /\ request[t] \in Applies /\ Key(t) \in Keys
      /\ Current(t) \in AllServices /\ Current(t) \in Service
      /\ index[t] \in 1 .. Len(request[t].services)
  BY <1>1, AtWork
<1>3. index[t] \in 1 .. Len(tags[t])
  BY <1>1, <1>2 DEF Fits
<1>4. ImageFits(t, index[t]) /\ tags[t][index[t]] \in Tags
  BY <1>1, <1>3, ImagesTyped DEF ImagesFit
<1> QED BY <1>2, <1>4 DEF ImageFits, CurrentTag, Current

\* An image of the registry fits every service that names it.
LEMMA PullKeepsImages ==
    ASSUME PInv, SInv, NEW t \in Threads, PullImageIfNotExists(t)
    PROVE  FromRegistry' /\ \A u \in Threads : ImagesFit(u)'
<1> DEFINE pulled == CurrentTag(t)
<1>1. /\ pc[t] = "pull" /\ TypeOK
      /\ request' = request /\ tags' = tags /\ index' = index /\ commit' = commit
      /\ \A u \in Threads : pc'[u] = "read" => pc[u] = "read"
  BY DEF PullImageIfNotExists, At, Goto, locals, PInv, TypeOK
<1>2. CASE images' = images
  <2>1. FromRegistry'
    BY <1>2, RegistryStays DEF SInv
  <2>2. ASSUME NEW u \in Threads PROVE ImagesFit(u)'
    BY <1>1, <1>2, ImagesStay DEF SInv
  <2> QED BY <2>1, <2>2
<1>3. CASE images' = [images EXCEPT ![pulled] = Content(Current(t), 0)]
           /\ Current(t).type = "docker"
  <2>1. /\ Current(t) \in AllServices /\ Current(t) \in Service
        /\ pulled \in Tags
        /\ pulled = Tag(ProjectOf(t), Current(t), pulled.commit)
    BY <1>1, CurrentImage
  <2>2. Content(Current(t), 0) = Content(Current(t), pulled.commit)
    BY <1>3 DEF Content
  <2>3. /\ images'[pulled] = Content(Current(t), pulled.commit)
        /\ \A tag \in Tags : tag # pulled => images'[tag] = images[tag]
    BY <1>1, <1>3, <2>1, <2>2 DEF TypeOK
  <2> HIDE DEF pulled
  <2>4. ASSUME NEW s \in Service, NEW p, NEW c, Tag(p, s, c) \in Tags,
               images[Tag(p, s, c)] \in {None, Content(s, c)}
        PROVE  images'[Tag(p, s, c)] \in {None, Content(s, c)}
    <3>1. CASE Tag(p, s, c) = pulled
      <4>1. Content(s, c) = Content(Current(t), pulled.commit)
        BY <1>3, <2>1, <3>1, TagsTellApart
      <4> QED BY <2>3, <3>1, <4>1
    <3> QED BY <2>3, <2>4, <3>1
  <2>5. FromRegistry'
    <3> SUFFICES ASSUME NEW s \in AllServices, s.type = "docker"
                 PROVE  images'[RegistryTag(s)] \in {None, Content(s, 0)}
      BY DEF FromRegistry
    <3>1. RegistryTag(s) \in Tags /\ s \in Service /\ RegistryTag(s) = Tag(0, s, 0)
      BY RegistryImages
    <3>2. images[RegistryTag(s)] \in {None, Content(s, 0)}
      BY DEF SInv, FromRegistry
    <3> QED BY <2>4, <3>1, <3>2
  <2>6. ASSUME NEW u \in Threads PROVE ImagesFit(u)'
    <3>1. ImagesFit(u)
      BY DEF SInv
    <3>2. ASSUME NEW i \in 1 .. Len(tags[u]) PROVE ImageFits(u, i)'
      <4>1. ImageFits(u, i) /\ tags[u][i] \in Tags /\ request[u].services[i] \in Service
        BY <3>1, <3>2, ImagesTyped DEF ImagesFit
      <4>2. images'[tags[u][i]] \in {None, Content(request[u].services[i], tags[u][i].commit)}
        BY <2>4, <4>1 DEF ImageFits
      <4> QED BY <1>1, <4>1, <4>2 DEF ImageFits, ProjectOf
    <3>3. ASSUME pc'[u] = "read" PROVE BuildFits(u)'
      <4>1. pc[u] = "read"
        BY <1>1, <3>3
      <4>2. BuildFits(u) /\ Current(u) \in Service
            /\ Tag(ProjectOf(u), Current(u), commit[u]) \in Tags
        BY <3>1, <4>1, ImagesTyped DEF ImagesFit, Building
      <4>3. images'[Tag(ProjectOf(u), Current(u), commit[u])]
               \in {None, Content(Current(u), commit[u])}
        BY <2>4, <4>2 DEF BuildFits
      <4> QED BY <1>1, <4>3 DEF BuildFits, ProjectOf, Current
    <3> QED BY <1>1, <3>2, <3>3 DEF ImagesFit
  <2> QED BY <2>5, <2>6
<1> QED BY <1>2, <1>3 DEF PullImageIfNotExists

\* The steps that do not write images
LEMMA OthersKeepImages ==
    ASSUME PInv, SInv, [Next]_vars,
           ~(\E t \in Threads : DockerBuild(t) \/ PullImageIfNotExists(t))
    PROVE  FromRegistry' /\ \A u \in Threads : ImagesFit(u)'
<1>1. TypeOK /\ (\A u \in Threads : Fits(u) /\ ImagesFit(u)) /\ FromRegistry
  BY DEF PInv, SInv
<1>2. ASSUME NEW t \in Threads,
             images' = images, request'[t] = request[t], tags'[t] = tags[t],
             pc'[t] = "read" => /\ pc[t] = "read"
                                /\ index'[t] = index[t] /\ commit'[t] = commit[t]
      PROVE  ImagesFit(t)'
  BY <1>1, <1>2, ImagesStay
<1>3. ASSUME NEW t \in Threads, tags'[t] = <<>>, pc'[t] # "read"
      PROVE  ImagesFit(t)'
  BY <1>3 DEF ImagesFit
<1>4. CASE \E t \in Threads : GetImageFromSource(t) \/ ReadImage(t)
  <2>1. PICK t \in Threads : GetImageFromSource(t) \/ ReadImage(t)
    BY <1>4
  <2>2. images' = images /\ request' = request /\ commit' = commit
    BY <2>1 DEF GetImageFromSource, ReadImage, world
  <2>3. FromRegistry'
    BY <1>1, <2>2, RegistryStays
  <2>4. ASSUME NEW u \in Threads \ {t} PROVE ImagesFit(u)'
    <3>1. tags'[u] = tags[u] /\ pc'[u] = pc[u] /\ index'[u] = index[u]
      BY <1>1, <2>1 DEF GetImageFromSource, ReadImage, HaveImage, Goto, TypeOK
    <3> QED BY <1>2, <2>2, <3>1
  <2>5. ImagesFit(t)'
    <3>1. request[t] \in Applies /\ Current(t) \in AllServices /\ commit[t] \in Commits
      <4>1. pc[t] # "idle"
        BY <2>1 DEF GetImageFromSource, ReadImage, At
      <4> QED BY <1>1, <4>1, AtWork DEF TypeOK
    <3>2. CASE ReadImage(t)
      <4> DEFINE tag == Tag(ProjectOf(t), Current(t), commit[t])
      <4>1. pc[t] = "read" /\ HaveImage(t, tag)
        BY <3>2 DEF ReadImage, At
      <4>2. tag \in Tags /\ Current(t).type = "git" /\ BuildFits(t)
        BY <1>1, <4>1, ImagesTyped DEF Building, ImagesFit
      <4>3. tag.commit = commit[t]
        BY <4>2 DEF Tag
      <4>4. images[tag] \in {None, Content(Current(t), commit[t])}
        BY <4>2 DEF BuildFits
      <4>5. pc[t] \in Building \cup {"image"}
        BY <4>1 DEF Building
      <4> HIDE DEF tag
      <4>6. tag = Tag(ProjectOf(t), Current(t), tag.commit)
        BY <4>3 DEF tag
      <4> QED BY <1>1, <2>2, <4>1, <4>2, <4>3, <4>4, <4>5, <4>6, ImageAdded
    <3>3. CASE /\ GetImageFromSource(t) /\ Current(t).type = "docker"
               /\ HaveImage(t, RegistryTag(Current(t)))
      <4>1. /\ RegistryTag(Current(t)) \in Tags
            /\ RegistryTag(Current(t)) = Tag(ProjectOf(t), Current(t), 0)
            /\ images[RegistryTag(Current(t))] \in {None, Content(Current(t), 0)}
        BY <1>1, <3>1, <3>3, RegistryImages DEF FromRegistry
      <4>2. RegistryTag(Current(t)).commit = 0
        BY DEF RegistryTag
      <4>3. pc[t] \in Building \cup {"image"}
        BY <3>3 DEF GetImageFromSource, At
      <4>4. RegistryTag(Current(t)) =
               Tag(ProjectOf(t), Current(t), RegistryTag(Current(t)).commit)
        BY <4>1, <4>2
      <4> QED BY <1>1, <2>2, <3>3, <4>1, <4>2, <4>3, <4>4, ImageAdded
    <3>4. CASE GetImageFromSource(t) /\ Goto(t, "clone") /\ UNCHANGED <<tags, index>>
      <4>1. pc'[t] # "read"
        BY <1>1, <3>4 DEF Goto, TypeOK
      <4> QED BY <1>2, <2>2, <3>4, <4>1
    <3> QED BY <2>1, <3>2, <3>3, <3>4 DEF GetImageFromSource
  <2> QED BY <2>3, <2>4, <2>5
<1>5. CASE \E t \in Threads :
              \/ Clone(t) \/ FindContainer(t) \/ ListVolumes(t) \/ CreateVolume(t)
              \/ CreateContainer(t) \/ CallFails(t)
  <2>1. PICK t \in Threads :
              \/ Clone(t) \/ FindContainer(t) \/ ListVolumes(t) \/ CreateVolume(t)
              \/ CreateContainer(t) \/ CallFails(t)
    BY <1>5
  <2>2. images' = images /\ request' = request /\ tags' = tags
    BY <2>1 DEF Clone, FindContainer, ListVolumes, CreateVolume, CreateContainer, CallFails,
                world, locals
  <2>3. pc'[t] # "read"
    BY <1>1, <2>1 DEF Clone, FindContainer, ListVolumes, CreateVolume, CreateContainer,
                      CallFails, NextService, Goto, At, TypeOK
  <2>4. \A u \in Threads \ {t} :
           pc'[u] = pc[u] /\ index'[u] = index[u] /\ commit'[u] = commit[u]
    BY <1>1, <2>1 DEF Clone, FindContainer, ListVolumes, CreateVolume, CreateContainer,
                      CallFails, NextService, Goto, TypeOK, locals
  <2> QED BY <1>1, <1>2, <2>2, <2>3, <2>4, RegistryStays
<1>6. CASE \E t \in Threads, config \in Applies : Apply(t, config)
  <2>1. PICK t \in Threads, config \in Applies : Apply(t, config)
    BY <1>6
  <2>2. images' = images /\ tags' = tags /\ index' = index /\ commit' = commit
    BY <2>1 DEF Apply, world, locals
  <2>3. pc'[t] = "image" /\ tags[t] = <<>>
    BY <1>1, <2>1 DEF Apply, Goto, At, TypeOK, Fits
  <2>4. \A u \in Threads \ {t} : pc'[u] = pc[u] /\ request'[u] = request[u]
    BY <1>1, <2>1 DEF Apply, Goto, TypeOK
  <2> QED BY <1>1, <1>2, <1>3, <2>2, <2>3, <2>4, RegistryStays
<1>7. CASE Crash \/ \E t \in Threads : Reply(t)
  <2>1. images' = images /\ \E who \in SUBSET Threads : Reset(who)
    BY <1>7 DEF Crash, Reply, world
  <2>2. PICK who \in SUBSET Threads : Reset(who)
    BY <2>1
  <2>3. \A u \in who : tags'[u] = <<>> /\ pc'[u] = "idle"
    BY <2>2 DEF Reset
  <2>4. \A u \in Threads \ who :
           /\ pc'[u] = pc[u] /\ index'[u] = index[u] /\ commit'[u] = commit[u]
           /\ request'[u] = request[u] /\ tags'[u] = tags[u]
    BY <2>2 DEF Reset
  <2> QED BY <1>1, <1>2, <1>3, <2>1, <2>3, <2>4, RegistryStays
<1>8. CASE Push \/ UNCHANGED vars \/ \E tag \in Tags : Prune(tag)
  <2>1. /\ pc' = pc /\ index' = index /\ commit' = commit
        /\ request' = request /\ tags' = tags
    BY <1>8 DEF Push, Prune, vars, world, locals
  <2>2. \A tag \in Tags : images'[tag] \in {None, images[tag]}
    BY <1>1, <1>8 DEF Push, Prune, vars, world, locals, TypeOK
  <2> QED BY <1>1, <2>1, <2>2, ImagesStay, RegistryStays
<1> QED BY <1>4, <1>5, <1>6, <1>7, <1>8 DEF Next, Step

\* Only CreateContainer makes containers.
LEMMA ContainersChange ==
    ASSUME TypeOK, [Next]_vars, NEW k \in Keys, ~(\E t \in Threads : CreateContainer(t))
    PROVE  containers'[k] \in {None, containers[k]}
<1>1. CASE \E t \in Threads : FindContainer(t)
  <2>1. PICK t \in Threads : FindContainer(t)
    BY <1>1
  <2>2. containers' = containers \/ containers' = [containers EXCEPT ![Key(t)] = None]
    BY <2>1 DEF FindContainer
  <2> QED BY <2>2 DEF TypeOK
<1>2. ASSUME ~(\E t \in Threads : FindContainer(t))
      PROVE  containers' = containers
  <2>1. ASSUME NEW t \in Threads,
               (\E config \in Applies : Apply(t, config)) \/ Step(t) \/ CallFails(t)
        PROVE  containers' = containers
    BY <1>2, <2>1 DEF Step, Apply, GetImageFromSource, Clone, DockerBuild, ReadImage,
         PullImageIfNotExists, ListVolumes, CreateVolume, Reply, CallFails, world
  <2> QED BY <2>1 DEF Next, Push, Prune, Crash, vars, world
<1> QED BY <1>1, <1>2

LEMMA CreatedFromSource ==
    ASSUME PInv, SInv, [Next]_vars PROVE BuiltFromItsSource'
<1> SUFFICES ASSUME NEW k \in Keys, containers'[k] # None
             PROVE  containers'[k].content =
                       Content(containers'[k].service, containers'[k].tag.commit)
  BY DEF BuiltFromItsSource
<1>1. TypeOK /\ BuiltFromItsSource
  BY DEF PInv, SInv
<1>2. CASE containers'[k] = containers[k]
  BY <1>1, <1>2 DEF BuiltFromItsSource
<1>3. CASE \E t \in Threads : CreateContainer(t)
  <2>1. PICK t \in Threads : CreateContainer(t)
    BY <1>3
  <2>2. pc[t] = "mount"
    BY <2>1 DEF CreateContainer, At
  <2>3. /\ Key(t) \in Keys
        /\ images[CurrentTag(t)] \in {None, Content(Current(t), CurrentTag(t).commit)}
    BY <2>2, CurrentImage
  <2>4. CASE containers' = [containers EXCEPT ![Key(t)] = NewContainer(t)]
             /\ images[CurrentTag(t)] # None
    <3>1. containers'[k] = IF k = Key(t) THEN NewContainer(t) ELSE containers[k]
      BY <1>1, <2>4 DEF TypeOK
    <3>2. NewContainer(t).content =
             Content(NewContainer(t).service, NewContainer(t).tag.commit)
      BY <2>3, <2>4 DEF NewContainer
    <3> QED BY <1>2, <3>1, <3>2
  <2> QED BY <1>2, <2>1, <2>4 DEF CreateContainer
<1> QED BY <1>1, <1>2, <1>3, ContainersChange

\* The inductive part of OwnSources, which later proofs use as well
LEMMA SInvariant == Spec => []SInv
<1>1. Init => SInv
  <2> SUFFICES ASSUME Init PROVE SInv
    OBVIOUS
  <2>1. ASSUME NEW s \in AllServices, s.type = "docker" PROVE images[RegistryTag(s)] = None
    BY <2>1, RegistryImages DEF Init
  <2> QED BY <2>1 DEF Init, SInv, Exclusive, FromRegistry, ImagesFit, BuiltFromItsSource
<1>2. PInv /\ SInv /\ [Next]_vars => SInv'
  <2> SUFFICES ASSUME PInv, SInv, [Next]_vars PROVE SInv'
    OBVIOUS
  <2>1. FromRegistry' /\ \A u \in Threads : ImagesFit(u)'
    BY BuildKeepsImages, PullKeepsImages, OthersKeepImages
  <2> QED BY <2>1, ExclusiveKept, CreatedFromSource DEF SInv
<1> QED BY <1>1, <1>2, PInvariant, PTL DEF Spec

\* The content of every container comes from its own service's source at the
\* commit of its tag, although images are looked up by name long after they
\* were built and may be pruned in between.
THEOREM OwnSources == Spec => []BuiltFromItsSource
BY SInvariant, PTL DEF SInv

(***************************************************************************)
(* Volumes: right where no other name of a volume matches                  *)
(***************************************************************************)
MountsFit(t) ==
    pc[t] \in {"mount", "createVolume"} =>
        \A i \in 1 .. Len(mounts[t]) :
            LET own == VolumeName(ProjectOf(t), Current(t).name, Current(t).volumes[i])
            IN  own \in Distinctive => mounts[t][i] = own

VInv == (\A t \in Threads : MountsFit(t)) /\ OwnVolumes

\* A step that finds or creates the next volume adds it to the mounts, or one
\* that the filter takes for it.
LEMMA VolumeAdded ==
    ASSUME PInv, NEW t \in Threads, MountsFit(t),
           ListVolumes(t) \/ CreateVolume(t)
    PROVE  MountsFit(t)'
<1>1. TypeOK /\ Fits(t) /\ pc[t] \in {"mount", "createVolume"}
  BY DEF PInv, ListVolumes, CreateVolume, At
<1>2. /\ ProjectOf(t) \in Projects /\ Current(t) \in Service
      /\ request' = request /\ index' = index
  BY <1>1, AtWork DEF ListVolumes, CreateVolume
<1>3. ProjectOf(t)' = ProjectOf(t) /\ Current(t)' = Current(t)
  BY <1>2 DEF ProjectOf, Current
<1>4. mounts[t] \in Seq(Volumes) /\ Len(Current(t).volumes) \in Nat
      /\ Len(mounts[t]) \in Nat
  BY <1>1, <1>2 DEF TypeOK, Service
<1>5. CASE mounts' = mounts
  BY <1>1, <1>3, <1>5 DEF MountsFit
<1>6. ASSUME NEW volume, mounts' = [mounts EXCEPT ![t] = Append(mounts[t], volume)],
             NextVolume(t) \in Distinctive => volume = NextVolume(t)
      PROVE  MountsFit(t)'
  <2>1. mounts'[t] = Append(mounts[t], volume)
    BY <1>1, <1>6 DEF TypeOK
  <2>2. ASSUME NEW i \in 1 .. Len(mounts'[t]), NEW own, own \in Distinctive,
               own = VolumeName(ProjectOf(t), Current(t).name, Current(t).volumes[i])
        PROVE  mounts'[t][i] = own
    <3>1. CASE i \in 1 .. Len(mounts[t])
      BY <1>1, <1>4, <2>1, <2>2, <3>1 DEF MountsFit
    <3>2. CASE i = Len(mounts[t]) + 1
      BY <1>4, <1>6, <2>1, <2>2, <3>2 DEF NextVolume
    <3> QED BY <1>4, <2>1, <2>2, <3>1, <3>2
  <2> QED BY <1>3, <2>2 DEF MountsFit
<1>7. CASE ListVolumes(t)
  <2>1. CASE mounts' # mounts
    <3>1. PICK volume \in Found(t) : mounts' = [mounts EXCEPT ![t] = Append(mounts[t], volume)]
      BY <1>7, <2>1 DEF ListVolumes
    <3>2. volume \in Volumes /\ Matches(volume, NextVolume(t))
      BY <1>1, <3>1 DEF Found, TypeOK
    <3>3. NextVolume(t) \in Distinctive => volume = NextVolume(t)
      BY <3>2 DEF Distinctive
    <3> QED BY <1>6, <3>1, <3>3
  <2> QED BY <1>5, <2>1
<1>8. CASE CreateVolume(t)
  BY <1>6, <1>8 DEF CreateVolume
<1> QED BY <1>7, <1>8

LEMMA MountsKept ==
    ASSUME PInv, VInv, [Next]_vars
    PROVE  \A t \in Threads : MountsFit(t)'
<1> SUFFICES ASSUME NEW u \in Threads PROVE MountsFit(u)'
  OBVIOUS
<1>1. TypeOK /\ Fits(u) /\ MountsFit(u)
  BY DEF PInv, VInv
<1>2. ASSUME pc'[u] = pc[u], request'[u] = request[u], index'[u] = index[u],
             mounts'[u] = mounts[u]
      PROVE  MountsFit(u)'
  BY <1>1, <1>2 DEF MountsFit, ProjectOf, Current
<1>3. CASE pc'[u] \notin {"mount", "createVolume"}
  BY <1>3 DEF MountsFit
<1>4. CASE mounts'[u] = <<>>
  BY <1>4 DEF MountsFit
<1>5. CASE \E t \in Threads : ListVolumes(t) \/ CreateVolume(t)
  <2>1. PICK t \in Threads : ListVolumes(t) \/ CreateVolume(t)
    BY <1>5
  <2>2. CASE t = u
    BY <1>1, <2>1, <2>2, VolumeAdded
  <2>3. CASE t # u
    BY <1>1, <1>2, <2>1, <2>3 DEF ListVolumes, CreateVolume, Goto, TypeOK
  <2> QED BY <2>2, <2>3
<1>6. CASE \E t \in Threads :
              \/ GetImageFromSource(t) \/ Clone(t) \/ DockerBuild(t) \/ ReadImage(t)
              \/ FindContainer(t) \/ CallFails(t) \/ \E config \in Applies : Apply(t, config)
  <2>1. PICK t \in Threads :
              \/ GetImageFromSource(t) \/ Clone(t) \/ DockerBuild(t) \/ ReadImage(t)
              \/ FindContainer(t) \/ CallFails(t) \/ \E config \in Applies : Apply(t, config)
    BY <1>6
  <2>2. CASE t = u
    <3>1. pc'[u] \notin {"mount", "createVolume"}
      BY <1>1, <2>1, <2>2 DEF GetImageFromSource, Clone, DockerBuild, ReadImage, HaveImage,
           FindContainer, CallFails, Apply, NextService, Goto, TypeOK
    <3> QED BY <1>3, <3>1
  <2>3. CASE t # u
    <3>1. /\ pc'[u] = pc[u] /\ request'[u] = request[u] /\ index'[u] = index[u]
          /\ mounts'[u] = mounts[u]
      <4>1. CASE GetImageFromSource(t) \/ Clone(t) \/ DockerBuild(t) \/ ReadImage(t)
        BY <1>1, <2>3, <4>1 DEF GetImageFromSource, Clone, DockerBuild, ReadImage, HaveImage,
             Goto, TypeOK, locals
      <4>2. CASE FindContainer(t) \/ CallFails(t) \/ \E config \in Applies : Apply(t, config)
        BY <1>1, <2>3, <4>2 DEF FindContainer, CallFails, Apply, NextService, Goto, TypeOK, locals
      <4> QED BY <2>1, <4>1, <4>2
    <3> QED BY <1>2, <3>1
  <2> QED BY <2>2, <2>3
<1>7. CASE \E t \in Threads : PullImageIfNotExists(t) \/ CreateContainer(t)
  <2>1. PICK t \in Threads : PullImageIfNotExists(t) \/ CreateContainer(t)
    BY <1>7
  <2>2. CASE t = u
    <3>1. mounts'[u] = <<>>
      <4>1. CASE PullImageIfNotExists(t)
        BY <1>1, <2>2, <4>1 DEF PullImageIfNotExists, locals, At, Fits
      <4>2. CASE CreateContainer(t)
        BY <1>1, <2>2, <4>2 DEF CreateContainer, TypeOK
      <4> QED BY <2>1, <4>1, <4>2
    <3> QED BY <1>4, <3>1
  <2>3. CASE t # u
    BY <1>1, <1>2, <2>1, <2>3
       DEF PullImageIfNotExists, CreateContainer, NextService, Goto, TypeOK, locals
  <2> QED BY <2>2, <2>3
<1>8. CASE Crash \/ \E t \in Threads : Reply(t)
  <2>1. \E who \in SUBSET Threads : Reset(who)
    BY <1>8 DEF Crash, Reply
  <2>2. PICK who \in SUBSET Threads : Reset(who)
    BY <2>1
  <2>3. CASE u \in who
    BY <1>4, <2>2, <2>3 DEF Reset
  <2>4. CASE u \notin who
    BY <1>2, <2>2, <2>4 DEF Reset
  <2> QED BY <2>3, <2>4
<1>9. CASE Push \/ UNCHANGED vars \/ \E tag \in Tags : Prune(tag)
  BY <1>2, <1>9 DEF Push, Prune, vars, world, locals
<1> QED BY <1>5, <1>6, <1>7, <1>8, <1>9 DEF Next, Step

LEMMA VolumesKept ==
    ASSUME PInv, VInv, [Next]_vars PROVE OwnVolumes'
<1> DEFINE Own(c, i) == VolumeName(c.project, c.service.name, c.service.volumes[i])
           Fitting(c) == /\ DOMAIN c.mounts = DOMAIN c.service.volumes
                         /\ \A i \in DOMAIN c.service.volumes :
                               Own(c, i) \in Distinctive => c.mounts[i] = Own(c, i)
<1>1. OwnVolumes <=> \A k \in Keys : containers[k] # None => Fitting(containers[k])
  BY DEF OwnVolumes
<1>2. OwnVolumes' <=> \A k \in Keys : containers'[k] # None => Fitting(containers'[k])
  BY DEF OwnVolumes
<1>3. TypeOK /\ OwnVolumes
  BY DEF PInv, VInv
<1> HIDE DEF Fitting
<1>4. ASSUME NEW k \in Keys, containers'[k] # None PROVE Fitting(containers'[k])
  <2>1. CASE containers'[k] = containers[k]
    BY <1>1, <1>3, <1>4, <2>1
  <2>2. ASSUME NEW t \in Threads, CreateContainer(t) PROVE Fitting(containers'[k])
    <3>1. /\ pc[t] = "mount" /\ Len(mounts[t]) = Len(Current(t).volumes)
          /\ Fits(t) /\ MountsFit(t)
      BY <2>2 DEF CreateContainer, At, Mounted, PInv, VInv
    <3>2. Key(t) \in Keys /\ Current(t) \in Service
      BY <1>3, <3>1, AtWork
    <3>3. mounts[t] \in Seq(Volumes) /\ Current(t).volumes \in Seq(VolumeNames)
      BY <1>3, <3>2 DEF TypeOK, Service
    <3>4. /\ DOMAIN mounts[t] = 1 .. Len(mounts[t])
          /\ DOMAIN Current(t).volumes = 1 .. Len(mounts[t])
      BY <3>1, <3>3
    <3>5. /\ NewContainer(t).mounts = mounts[t] /\ NewContainer(t).service = Current(t)
          /\ NewContainer(t).project = ProjectOf(t)
      BY DEF NewContainer
    <3>6. Fitting(NewContainer(t))
      BY <3>1, <3>4, <3>5 DEF MountsFit, Fitting
    <3>7. CASE containers' = [containers EXCEPT ![Key(t)] = NewContainer(t)]
      <4>1. containers'[k] = IF k = Key(t) THEN NewContainer(t) ELSE containers[k]
        BY <1>3, <3>7 DEF TypeOK
      <4> QED BY <2>1, <3>6, <4>1
    <3> QED BY <2>1, <2>2, <3>7 DEF CreateContainer
  <2> QED BY <1>3, <1>4, <2>1, <2>2, ContainersChange
<1> QED BY <1>2, <1>4

\* Every container has a mount for each of its volumes, and mounts its own
\* service's volume wherever Docker's name filter, which CreateVolumeIfNotExists
\* relies on, finds no other one for that name.  Names that find others are
\* neither ruled out nor spoken of.
THEOREM OwnMounts == Spec => []OwnVolumes
<1>1. Init => VInv
  BY DEF Init, VInv, MountsFit, OwnVolumes
<1>2. PInv /\ VInv /\ [Next]_vars => VInv'
  BY MountsKept, VolumesKept DEF VInv
<1>3. VInv => OwnVolumes
  BY DEF VInv
<1> QED BY <1>1, <1>2, <1>3, PInvariant, PTL DEF Spec

(***************************************************************************)
(* Containers: those of a request are changed by its own thread only, so   *)
(* that what is done stays done, and nothing gets older                    *)
(***************************************************************************)

\* The steps in which thread t takes part
Acts(t) == Step(t) \/ CallFails(t) \/ Crash \/ \E config \in Applies : Apply(t, config)

LEMMA OthersRest ==
    ASSUME TypeOK, [Next]_vars, NEW u \in Threads, ~Acts(u)
    PROVE  /\ pc'[u] = pc[u] /\ request'[u] = request[u] /\ index'[u] = index[u]
           /\ tags'[u] = tags[u] /\ commit'[u] = commit[u]
<1>1. CASE Push \/ UNCHANGED vars \/ \E tag \in Tags : Prune(tag)
  BY <1>1 DEF Push, Prune, vars, world, locals
<1>2. ASSUME NEW t \in Threads \ {u},
             (\E config \in Applies : Apply(t, config)) \/ Step(t) \/ CallFails(t)
      PROVE  /\ pc'[u] = pc[u] /\ request'[u] = request[u] /\ index'[u] = index[u]
             /\ tags'[u] = tags[u] /\ commit'[u] = commit[u]
  <2>1. CASE GetImageFromSource(t) \/ Clone(t) \/ DockerBuild(t) \/ ReadImage(t)
    BY <2>1 DEF GetImageFromSource, Clone, DockerBuild, ReadImage, HaveImage, Goto, At, world,
                locals, TypeOK
  <2>2. CASE FindContainer(t) \/ PullImageIfNotExists(t)
    BY <2>2 DEF FindContainer, PullImageIfNotExists, NextService, Goto, At, locals, TypeOK
  <2>3. CASE ListVolumes(t) \/ CreateVolume(t) \/ CreateContainer(t)
    BY <2>3 DEF ListVolumes, CreateVolume, CreateContainer, NextService, Goto, world, TypeOK
  <2>4. CASE Reply(t)
    BY <2>4 DEF Reply, Reset
  <2>5. CASE CallFails(t)
    BY <2>5 DEF CallFails, Goto, locals, TypeOK
  <2>6. CASE \E config \in Applies : Apply(t, config)
    BY <2>6 DEF Apply, Goto, locals, TypeOK
  <2> QED BY <1>2, <2>1, <2>2, <2>3, <2>4, <2>5, <2>6 DEF Step
<1> QED BY <1>1, <1>2 DEF Next, Acts

\* What FindContainer and CreateContainer do to containers; nothing else does
\* anything to them.
LEMMA ContainersTouched ==
    ASSUME PInv, [Next]_vars
    PROVE  \/ containers' = containers
           \/ \E t \in Threads :
                 /\ pc[t] \in {"find", "mount"}
                 /\ Key(t) \in Keys
                 /\ \/ /\ FindContainer(t) /\ ~CreateContainer(t)
                       /\ containers' = [containers EXCEPT ![Key(t)] = None]
                    \/ /\ CreateContainer(t)
                       /\ containers' = [containers EXCEPT ![Key(t)] = NewContainer(t)]
<1>1. TypeOK /\ \A t \in Threads : Fits(t)
  BY DEF PInv
<1>2. ASSUME NEW t \in Threads, FindContainer(t), containers' # containers
      PROVE  /\ pc[t] = "find" /\ Key(t) \in Keys /\ ~CreateContainer(t)
             /\ containers' = [containers EXCEPT ![Key(t)] = None]
  <2>1. pc[t] = "find"
    BY <1>2 DEF FindContainer, At
  <2> QED BY <1>1, <1>2, <2>1, AtWork DEF FindContainer, CreateContainer, At
<1>3. ASSUME NEW t \in Threads, CreateContainer(t), containers' # containers
      PROVE  /\ pc[t] = "mount" /\ Key(t) \in Keys
             /\ containers' = [containers EXCEPT ![Key(t)] = NewContainer(t)]
  <2>1. pc[t] = "mount"
    BY <1>3 DEF CreateContainer, At
  <2> QED BY <1>1, <1>3, <2>1, AtWork DEF CreateContainer
<1>4. ASSUME ~(\E t \in Threads : FindContainer(t) \/ CreateContainer(t))
      PROVE  containers' = containers
  <2>1. ASSUME NEW t \in Threads,
               (\E config \in Applies : Apply(t, config)) \/ Step(t) \/ CallFails(t)
        PROVE  containers' = containers
    BY <1>4, <2>1 DEF Step, Apply, GetImageFromSource, Clone, DockerBuild, ReadImage,
         PullImageIfNotExists, ListVolumes, CreateVolume, Reply, CallFails, world
  <2> QED BY <2>1 DEF Next, Push, Prune, Crash, vars, world
<1> QED BY <1>2, <1>3, <1>4

\* While a request is under way, only its thread touches the containers of its
\* project, and only the one of the service at hand.
LEMMA OwnContainers ==
    ASSUME NamesTellServicesApart,
           PInv, Exclusive, [Next]_vars, NEW u \in Threads, request[u] \in Applies,
           NEW n \in Names, NEW k, k = ContainerName(ProjectOf(u), n),
           containers'[k] # containers[k]
    PROVE  /\ pc[u] \in {"find", "mount"} /\ n = Current(u).name
           /\ \/ /\ FindContainer(u)
                 /\ containers'[k] = None
              \/ /\ CreateContainer(u)
                 /\ containers'[k] = NewContainer(u)
<1>1. TypeOK /\ \A t \in Threads : Fits(t)
  BY DEF PInv
<1>2. PICK t \in Threads :
         /\ pc[t] \in {"find", "mount"}
         /\ Key(t) \in Keys
         /\ \/ /\ FindContainer(t)
               /\ containers' = [containers EXCEPT ![Key(t)] = None]
            \/ /\ CreateContainer(t)
               /\ containers' = [containers EXCEPT ![Key(t)] = NewContainer(t)]
  BY ContainersTouched
<1>3. ProjectOf(u) \in Projects
  BY Configurations DEF ProjectOf
<1>4. k \in Keys
  BY <1>3 DEF Keys
<1>5. k = Key(t)
  BY <1>1, <1>2, <1>4 DEF TypeOK
<1>6. request[t] \in Applies /\ ProjectOf(t) \in Projects /\ Current(t).name \in Names
  BY <1>1, <1>2, AtWork DEF Service
<1>7. ProjectOf(u) = ProjectOf(t) /\ n = Current(t).name
  <2>1. ContainerName(ProjectOf(u), n) = ContainerName(ProjectOf(t), Current(t).name)
    BY <1>5 DEF Key
  <2> QED BY <1>3, <1>6, <2>1 DEF NamesTellServicesApart
<1>8. t = u
  BY <1>6, <1>7, ConstantsAssumption DEF Exclusive
<1> QED BY <1>1, <1>2, <1>4, <1>5, <1>7, <1>8 DEF TypeOK

\* The services of a request are told apart by their names.
LEMMA ServicesDiffer ==
    ASSUME NEW t \in Threads, request[t] \in Applies,
           index[t] \in 1 .. Len(request[t].services),
           NEW i \in 1 .. Len(request[t].services)
    PROVE  /\ request[t].services[i].name \in Names
           /\ request[t].services[i].name = Current(t).name => i = index[t]
<1>1. /\ request[t].services \in Seq(Service)
      /\ NamesDiffer(request[t])
      /\ request[t].services[i] \in Service
  BY Configurations
<1> QED BY <1>1 DEF NamesDiffer, Current, Service

\* The services of the request of thread t that have been seen to
Made(t) ==
    CASE pc[t] = "applied" -> 1 .. Len(request[t].services)
      [] pc[t] \in {"find", "pull", "mount", "createVolume"} -> 1 .. (index[t] - 1)
      [] OTHER -> {}

IsMade(t, i) ==
    LET s == request[t].services[i]
        c == containers[ContainerName(ProjectOf(t), s.name)]
    IN  c # None /\ c.service = s /\ c.tag = tags[t][i]

\* Containers are kept under their names.
Named ==
    \A k \in Keys : containers[k] # None =>
        k = ContainerName(containers[k].project, containers[k].service.name)

MInv == Named /\ \A t \in Threads : \A i \in Made(t) : IsMade(t, i)

LEMMA MadeTyped ==
    ASSUME PInv, NEW t \in Threads, NEW i \in Made(t)
    PROVE  /\ request[t] \in Applies
           /\ i \in 1 .. Len(request[t].services)
           /\ request[t].services[i].name \in Names
           /\ index[t] \in 1 .. Len(request[t].services)
           /\ pc[t] # "applied" => i # index[t]
<1>1. TypeOK /\ Fits(t) /\ pc[t] # "idle"
  BY DEF PInv, Made
<1>2. /\ request[t] \in Applies
      /\ Len(request[t].services) \in Nat
      /\ index[t] \in 1 .. Len(request[t].services)
  BY <1>1, AtWork
<1>3. i \in 1 .. Len(request[t].services) /\ (pc[t] # "applied" => i # index[t])
  BY <1>2 DEF Made
<1> QED BY <1>2, <1>3, ServicesDiffer

\* What is done stays done while the request goes on.
LEMMA MadeStays ==
    ASSUME NamesTellServicesApart, PInv, Exclusive, [Next]_vars, NEW t \in Threads,
           NEW i \in Made(t), IsMade(t, i),
           request'[t] = request[t], tags'[t] = tags[t]
    PROVE  IsMade(t, i)'
<1> DEFINE s == request[t].services[i]
           k == ContainerName(ProjectOf(t), s.name)
<1>1. /\ request[t] \in Applies
      /\ i \in 1 .. Len(request[t].services)
      /\ s.name \in Names
      /\ index[t] \in 1 .. Len(request[t].services)
      /\ pc[t] # "applied" => i # index[t]
  BY MadeTyped
<1>2. containers'[k] = containers[k]
  <2> SUFFICES ASSUME containers'[k] # containers[k] PROVE FALSE
    OBVIOUS
  <2>1. pc[t] \in {"find", "mount"} /\ s.name = Current(t).name
    BY <1>1, OwnContainers
  <2> QED BY <1>1, <2>1, ServicesDiffer
<1>3. k' = k /\ s' = s
  BY DEF ProjectOf
<1> QED BY <1>2, <1>3 DEF IsMade

\* A thread that moves on to the next service has seen to the current one.
LEMMA MadeNext ==
    ASSUME NamesTellServicesApart, PInv, Exclusive, [Next]_vars, NEW t \in Threads,
           \A i \in Made(t) : IsMade(t, i),
           pc[t] \in {"find", "mount"}, NextService(t),
           request' = request, tags' = tags,
           LET c == containers'[Key(t)]
           IN  c # None /\ c.service = Current(t) /\ c.tag = CurrentTag(t)
    PROVE  \A i \in Made(t)' : IsMade(t, i)'
<1>1. TypeOK /\ Fits(t) /\ pc[t] # "idle"
  BY DEF PInv
<1>2. /\ request[t] \in Applies
      /\ Len(request[t].services) \in Nat
      /\ index[t] \in 1 .. Len(request[t].services)
  BY <1>1, AtWork
<1>3. /\ pc'[t] = IF LastService(t) THEN "applied" ELSE "find"
      /\ index'[t] = IF LastService(t) THEN index[t] ELSE index[t] + 1
  BY <1>1 DEF NextService, Goto, TypeOK
<1>4. Made(t)' = Made(t) \cup {index[t]}
  <2>1. Made(t) = 1 .. (index[t] - 1)
    BY DEF Made
  <2>2. Made(t)' = 1 .. index[t]
    <3>1. CASE LastService(t)
      BY <1>2, <1>3, <3>1 DEF Made, LastService
    <3>2. CASE ~LastService(t)
      <4>1. pc'[t] = "find" /\ index'[t] - 1 = index[t]
        BY <1>2, <1>3, <3>2
      <4> QED BY <4>1 DEF Made
    <3> QED BY <3>1, <3>2
  <2> QED BY <1>2, <2>1, <2>2
<1>5. ASSUME NEW i \in Made(t)', i = index[t] PROVE IsMade(t, i)'
  <2>1. /\ request'[t] = request[t] /\ tags'[t] = tags[t]
        /\ ProjectOf(t)' = ProjectOf(t)
    BY DEF ProjectOf
  <2> QED BY <1>5, <2>1 DEF IsMade, Key, Current, CurrentTag
<1>6. ASSUME NEW i \in Made(t) PROVE IsMade(t, i)'
  BY <1>6, MadeStays
<1> QED BY <1>4, <1>5, <1>6

LEMMA NewContainerTyped ==
    ASSUME PInv, NEW t \in Threads, pc[t] = "mount", images[CurrentTag(t)] # None
    PROVE  NewContainer(t) \in Container /\ CurrentTag(t) \in Tags
<1>1. TypeOK /\ Fits(t)
  BY DEF PInv
<1>2. /\ Current(t) \in AllServices /\ ProjectOf(t) \in Projects
      /\ index[t] \in 1 .. Len(request[t].services)
      /\ Len(tags[t]) = Len(request[t].services)
  BY <1>1, AtWork DEF Fits
<1>3. CurrentTag(t) \in Tags /\ mounts[t] \in Seq(Volumes)
  BY <1>1, <1>2 DEF TypeOK, CurrentTag
<1>4. images[CurrentTag(t)] \in Contents
  BY <1>1, <1>3 DEF TypeOK
<1> QED BY <1>2, <1>3, <1>4 DEF NewContainer, Container

LEMMA NamedKept ==
    ASSUME PInv, Named, [Next]_vars PROVE Named'
<1> SUFFICES ASSUME NEW k \in Keys, containers'[k] # None
             PROVE  k = ContainerName(containers'[k].project, containers'[k].service.name)
  BY DEF Named
<1>1. TypeOK
  BY DEF PInv
<1>2. CASE containers'[k] = containers[k]
  BY <1>2 DEF Named
<1>3. ASSUME NEW t \in Threads,
             containers' = [containers EXCEPT ![Key(t)] = NewContainer(t)]
      PROVE  k = ContainerName(containers'[k].project, containers'[k].service.name)
  <2>1. containers'[k] = IF k = Key(t) THEN NewContainer(t) ELSE containers[k]
    BY <1>1, <1>3 DEF TypeOK
  <2>2. /\ NewContainer(t).project = ProjectOf(t)
        /\ NewContainer(t).service.name = Current(t).name
    BY DEF NewContainer
  <2> QED BY <1>2, <2>1, <2>2 DEF Key
<1>4. ASSUME NEW t \in Threads, containers' = [containers EXCEPT ![Key(t)] = None]
      PROVE  containers'[k] = containers[k]
  BY <1>1, <1>4 DEF TypeOK
<1> QED BY <1>2, <1>3, <1>4, ContainersTouched

\* A container with the hash of a service is of that service: the hash does not
\* cover the name, but the container has been found by it.
LEMMA FoundUpToDate ==
    ASSUME NamesTellServicesApart, PInv, Named, NEW t \in Threads, pc[t] = "find", UpToDate(t)
    PROVE  LET c == containers[Key(t)]
           IN  c # None /\ c.service = Current(t) /\ c.tag = CurrentTag(t)
<1> DEFINE c == containers[Key(t)]
<1>1. /\ Key(t) \in Keys /\ ProjectOf(t) \in Projects
      /\ Current(t) \in Service
  BY AtWork DEF PInv
<1>2. c # None /\ c \in Container
  BY <1>1 DEF UpToDate, PInv, TypeOK
<1>3. c.project \in Projects /\ c.service \in Service
  <2>1. c.project \in Projects /\ c.service \in AllServices
    BY <1>2 DEF Container
  <2>2. PICK config \in Applies : c.service \in ToSet(config.services)
    BY <2>1 DEF AllServices
  <2>3. config.services \in Seq(Service)
    BY Configurations
  <2> QED BY <2>1, <2>2, <2>3 DEF ToSet
<1>4. Key(t) = ContainerName(c.project, c.service.name)
  BY <1>1, <1>2 DEF Named
<1>5. c.service.name = Current(t).name
  BY <1>1, <1>3, <1>4 DEF Key, NamesTellServicesApart, Service
<1>6. /\ c.service.type = Current(t).type
      /\ c.service.recipe = Current(t).recipe
      /\ c.service.volumes = Current(t).volumes
      /\ c.tag = CurrentTag(t)
  <2>1. Hash(c.service, c.tag) = Hash(Current(t), CurrentTag(t))
    BY DEF UpToDate
  <2> QED BY <2>1 DEF Hash
<1>7. c.service = Current(t)
  BY <1>1, <1>3, <1>5, <1>6 DEF Service
<1> QED BY <1>2, <1>6, <1>7

LEMMA MadeKept ==
    ASSUME NamesTellServicesApart, PInv, Exclusive, MInv, [Next]_vars PROVE MInv'
<1> SUFFICES ASSUME NEW t \in Threads PROVE \A i \in Made(t)' : IsMade(t, i)'
  BY NamedKept DEF MInv
<1>1. TypeOK /\ Fits(t) /\ Named /\ \A i \in Made(t) : IsMade(t, i)
  BY DEF PInv, MInv
<1>2. ASSUME Made(t)' \subseteq Made(t), request'[t] = request[t], tags'[t] = tags[t]
      PROVE  \A i \in Made(t)' : IsMade(t, i)'
  BY <1>1, <1>2, MadeStays
<1>3. CASE ~Acts(t)
  <2>1. /\ pc'[t] = pc[t] /\ request'[t] = request[t] /\ index'[t] = index[t]
        /\ tags'[t] = tags[t]
    BY <1>1, <1>3, OthersRest
  <2>2. Made(t)' = Made(t)
    BY <2>1 DEF Made
  <2> QED BY <1>2, <2>1, <2>2
<1>4. CASE \/ GetImageFromSource(t) \/ Clone(t) \/ DockerBuild(t) \/ ReadImage(t)
           \/ CallFails(t) \/ Reply(t) \/ Crash \/ \E config \in Applies : Apply(t, config)
  <2>1. \/ pc'[t] \in Building \cup {"idle", "image", "failed"}
        \/ pc'[t] = "find" /\ index'[t] = 1
    BY <1>1, <1>4 DEF GetImageFromSource, Clone, DockerBuild, ReadImage, HaveImage, CallFails,
         Reply, Crash, Reset, Apply, Goto, Building, TypeOK
  <2>2. Made(t)' = {}
    BY <2>1 DEF Made, Building
  <2> QED BY <2>2
<1>5. CASE PullImageIfNotExists(t) \/ ListVolumes(t) \/ CreateVolume(t)
  <2>1. /\ pc[t] \in {"pull", "mount", "createVolume"}
        /\ pc'[t] \in {"mount", "createVolume", "failed"}
        /\ request'[t] = request[t] /\ index'[t] = index[t] /\ tags'[t] = tags[t]
    BY <1>1, <1>5 DEF PullImageIfNotExists, ListVolumes, CreateVolume, Goto, At, locals, TypeOK
  <2>2. Made(t)' \subseteq Made(t)
    BY <2>1 DEF Made
  <2> QED BY <1>2, <2>1, <2>2
<1>6. CASE FindContainer(t)
  <2>1. pc[t] = "find" /\ request' = request /\ tags' = tags
    BY <1>6 DEF FindContainer, At, locals
  <2>2. CASE UpToDate(t) /\ NextService(t) /\ UNCHANGED containers
    <3>1. LET c == containers'[Key(t)]
          IN  c # None /\ c.service = Current(t) /\ c.tag = CurrentTag(t)
      BY <1>1, <2>1, <2>2, FoundUpToDate
    <3> QED BY <1>1, <2>1, <2>2, <3>1, MadeNext
  <2>3. CASE Goto(t, "pull") /\ UNCHANGED index
    <3>1. pc'[t] = "pull"
      BY <1>1, <2>3 DEF Goto, TypeOK
    <3>2. Made(t)' = Made(t)
      BY <2>1, <2>3, <3>1 DEF Made
    <3> QED BY <1>2, <2>1, <3>2
  <2> QED BY <1>6, <2>2, <2>3 DEF FindContainer
<1>7. CASE CreateContainer(t)
  <2>1. pc[t] = "mount" /\ request' = request /\ tags' = tags
    BY <1>7 DEF CreateContainer, At
  <2>2. CASE /\ images[CurrentTag(t)] # None /\ NextService(t)
             /\ containers' = [containers EXCEPT ![Key(t)] = NewContainer(t)]
    <3>1. Key(t) \in Keys
      BY <1>1, <2>1, AtWork
    <3>2. containers'[Key(t)] = NewContainer(t) /\ NewContainer(t) # None
      <4>1. containers'[Key(t)] = NewContainer(t)
        BY <1>1, <2>2, <3>1 DEF TypeOK
      <4>2. NewContainer(t) \in Container
        BY <2>1, <2>2, NewContainerTyped DEF CreateContainer
      <4> QED BY <4>1, <4>2, NoneIsNoContainer
    <3> QED BY <1>1, <2>1, <2>2, <3>2, MadeNext DEF NewContainer
  <2>3. CASE Goto(t, "failed")
    <3>1. pc'[t] = "failed"
      BY <1>1, <2>3 DEF Goto, TypeOK
    <3> QED BY <3>1 DEF Made
  <2> QED BY <1>7, <2>2, <2>3 DEF CreateContainer
<1> QED BY <1>3, <1>4, <1>5, <1>6, <1>7 DEF Acts, Step

\* A successful apply leaves a container of the very image it has got for each
\* service, including services that it passed by as up to date.  No name of a
\* container may stand for services of two projects: nothing in the code, which
\* joins the names of project and service, rules that out.
THEOREM AppliedContainers == NamesTellServicesApart => (Spec => []AppliedIsCurrent)
<1> SUFFICES ASSUME NamesTellServicesApart PROVE Spec => []AppliedIsCurrent
  OBVIOUS
<1>1. Init => MInv
  BY DEF Init, MInv, Made, Named
<1>2. PInv /\ SInv /\ MInv /\ [Next]_vars => MInv'
  BY MadeKept DEF SInv
<1>3. PInv /\ MInv => AppliedIsCurrent
  <2> SUFFICES ASSUME PInv, MInv, NEW t \in Threads, pc[t] = "applied",
                      NEW i \in DOMAIN request[t].services
               PROVE  IsMade(t, i)
    BY DEF AppliedIsCurrent, At, IsMade
  <2>1. request[t] \in Applies
    BY AtWork DEF PInv
  <2>2. i \in 1 .. Len(request[t].services)
    BY <2>1, Configurations
  <2> QED BY <2>2 DEF MInv, Made
<1> QED BY <1>1, <1>2, <1>3, PInvariant, SInvariant, PTL DEF Spec

(***************************************************************************)
(* Commits never go back                                                   *)
(***************************************************************************)
NotAhead(t, s, tag) ==
    LET c == containers[ContainerName(ProjectOf(t), s.name)]
    IN  (c # None /\ c.tag.type = "git" /\ tag.type = "git") => c.tag.commit <= tag.commit

\* Nothing is newer than the head of the branch.
Past ==
    /\ \A k \in Keys : containers[k] # None => containers[k].tag.commit <= head
    /\ \A t \in Threads : commit[t] <= head
    /\ \A t \in Threads : \A i \in 1 .. Len(tags[t]) : tags[t][i].commit <= head

\* The images of a request are no older than the containers they are for.
NoOlder(t) ==
    /\ \A i \in 1 .. Len(tags[t]) : NotAhead(t, request[t].services[i], tags[t][i])
    /\ pc[t] \in {"build", "read"}
          => NotAhead(t, Current(t), Tag(ProjectOf(t), Current(t), commit[t]))

AInv == Past /\ \A t \in Threads : NoOlder(t)

LEMMA TagCommits ==
    ASSUME NEW tag \in Tags PROVE tag.commit \in Nat
<1>1. PICK p \in Projects, s \in AllServices, c \in Commits : tag = Tag(p, s, c)
  BY DEF Tags
<1>2. c \in Nat /\ 0 \in Nat
  BY ConstantsAssumption DEF Commits
<1> QED BY <1>1, <1>2 DEF Tag, RegistryTag

\* The tags of a thread's list stay, or one is added, or all go.
LEMMA TagsChange ==
    ASSUME PInv, [Next]_vars, NEW t \in Threads
    PROVE  \/ tags'[t] = tags[t] /\ (request'[t] = request[t] \/ tags'[t] = <<>>)
           \/ tags'[t] = <<>>
           \/ /\ request'[t] = request[t] /\ containers' = containers /\ head' = head
              /\ pc'[t] \in {"find", "image"}
              /\ \/ /\ GetImageFromSource(t) /\ Current(t).type = "docker"
                    /\ tags'[t] = Append(tags[t], RegistryTag(Current(t)))
                 \/ /\ ReadImage(t)
                    /\ tags'[t] = Append(tags[t], Tag(ProjectOf(t), Current(t), commit[t]))
<1>1. TypeOK /\ Fits(t)
  BY DEF PInv
<1>2. CASE ~Acts(t)
  BY <1>1, <1>2, OthersRest
<1>3. CASE Clone(t) \/ DockerBuild(t) \/ FindContainer(t) \/ PullImageIfNotExists(t)
           \/ ListVolumes(t) \/ CreateVolume(t) \/ CreateContainer(t) \/ CallFails(t)
  BY <1>3 DEF Clone, DockerBuild, FindContainer, PullImageIfNotExists, ListVolumes, CreateVolume,
       CreateContainer, CallFails, locals
<1>4. CASE Reply(t) \/ Crash
  BY <1>4 DEF Reply, Crash, Reset
<1>5. CASE \E config \in Applies : Apply(t, config)
  BY <1>1, <1>5 DEF Apply, At, Fits, locals
<1>6. CASE GetImageFromSource(t)
  BY <1>1, <1>6 DEF GetImageFromSource, HaveImage, Goto, TypeOK
<1>7. CASE ReadImage(t)
  BY <1>1, <1>7 DEF ReadImage, HaveImage, Goto, TypeOK
<1> QED BY <1>2, <1>3, <1>4, <1>5, <1>6, <1>7 DEF Acts, Step

LEMMA PastKept ==
    ASSUME PInv, Past, [Next]_vars PROVE Past'
<1>1. TypeOK /\ \A t \in Threads : Fits(t)
  BY DEF PInv
<1>2. head \in Nat /\ head' \in Nat /\ head <= head'
  <2>1. head \in Nat
    BY <1>1, ConstantsAssumption DEF TypeOK, Commits
  <2>2. CASE Push
    BY <2>1, <2>2 DEF Push
  <2>3. ASSUME NEW t \in Threads,
               (\E config \in Applies : Apply(t, config)) \/ Step(t) \/ CallFails(t)
        PROVE  head' = head
    BY <2>3 DEF Step, Apply, GetImageFromSource, Clone, DockerBuild, ReadImage, FindContainer,
         PullImageIfNotExists, ListVolumes, CreateVolume, CreateContainer, Reply, CallFails, world
  <2>4. CASE Crash \/ UNCHANGED vars \/ \E tag \in Tags : Prune(tag)
    BY <2>1, <2>4 DEF Crash, Prune, vars, world
  <2> QED BY <2>1, <2>2, <2>3, <2>4 DEF Next
<1>3. ASSUME NEW n \in Nat, n <= head PROVE n <= head'
  BY <1>2, <1>3
<1>4. ASSUME NEW k \in Keys, containers'[k] # None PROVE containers'[k].tag.commit <= head'
  <2>1. CASE containers'[k] = containers[k]
    <3>1. containers[k].tag \in Tags
      BY <1>1, <1>4, <2>1 DEF TypeOK, Container
    <3> QED BY <1>3, <1>4, <2>1, <3>1, TagCommits DEF Past
  <2>2. ASSUME NEW t \in Threads, CreateContainer(t),
               containers' = [containers EXCEPT ![Key(t)] = NewContainer(t)],
               containers' # containers, k = Key(t)
        PROVE  containers'[k].tag.commit <= head'
    <3>1. pc[t] = "mount" /\ images[CurrentTag(t)] # None
      BY <2>2 DEF CreateContainer, At
    <3>2. CurrentTag(t) \in Tags
      BY <3>1, NewContainerTyped
    <3>3. index[t] \in 1 .. Len(tags[t])
      BY <1>1, <3>1, AtWork DEF Fits
    <3>4. CurrentTag(t).commit <= head
      BY <3>3 DEF Past, CurrentTag
    <3>5. containers'[k].tag = CurrentTag(t)
      BY <1>1, <2>2 DEF TypeOK, NewContainer
    <3> QED BY <1>3, <3>2, <3>4, <3>5, TagCommits
  <2>3. CASE containers'[k] # containers[k]
    BY <1>1, <1>4, <2>2, <2>3, ContainersTouched DEF TypeOK
  <2> QED BY <2>1, <2>3
<1>5. ASSUME NEW t \in Threads PROVE commit'[t] <= head'
  <2>1. commit[t] \in Nat /\ commit[t] <= head
    BY <1>1, ConstantsAssumption DEF TypeOK, Commits, Past
  <2>2. CASE ~Acts(t)
    BY <1>1, <1>3, <2>1, <2>2, OthersRest
  <2>3. CASE Clone(t)
    BY <1>1, <1>2, <2>3 DEF Clone, world, TypeOK
  <2>4. CASE Reply(t) \/ Crash
    BY <1>2, <2>4 DEF Reply, Crash, Reset
  <2>5. CASE \/ GetImageFromSource(t) \/ DockerBuild(t) \/ ReadImage(t) \/ FindContainer(t)
             \/ PullImageIfNotExists(t) \/ ListVolumes(t) \/ CreateVolume(t)
             \/ CreateContainer(t) \/ CallFails(t) \/ \E config \in Applies : Apply(t, config)
    BY <1>3, <2>1, <2>5 DEF GetImageFromSource, DockerBuild, ReadImage, FindContainer,
         PullImageIfNotExists, ListVolumes, CreateVolume, CreateContainer, CallFails, Apply, locals
  <2> QED BY <2>2, <2>3, <2>4, <2>5 DEF Acts, Step
<1>6. ASSUME NEW t \in Threads, NEW i \in 1 .. Len(tags'[t])
      PROVE  tags'[t][i].commit <= head'
  <2>1. tags[t] \in Seq(Tags) /\ commit[t] \in Nat /\ commit[t] <= head
    BY <1>1, ConstantsAssumption DEF TypeOK, Commits, Past
  <2>2. ASSUME i \in 1 .. Len(tags[t]) PROVE tags[t][i].commit <= head'
    <3>1. tags[t][i] \in Tags
      BY <2>1, <2>2
    <3> QED BY <1>3, <2>2, <3>1, TagCommits DEF Past
  <2>3. CASE tags'[t] = tags[t]
    BY <1>6, <2>2, <2>3
  <2>4. CASE tags'[t] = <<>>
    BY <1>6, <2>4
  <2>5. ASSUME NEW tag, tags'[t] = Append(tags[t], tag), tag.commit <= head'
        PROVE  tags'[t][i].commit <= head'
    BY <1>6, <2>1, <2>2, <2>5
  <2>6. CASE tags'[t] = Append(tags[t], RegistryTag(Current(t)))
    <3>1. RegistryTag(Current(t)).commit <= head'
      BY <1>2 DEF RegistryTag
    <3> QED BY <2>5, <2>6, <3>1
  <2>7. CASE tags'[t] = Append(tags[t], Tag(ProjectOf(t), Current(t), commit[t]))
    <3>1. Tag(ProjectOf(t), Current(t), commit[t]).commit <= head'
      BY <1>2, <1>3, <2>1 DEF Tag, RegistryTag
    <3> QED BY <2>5, <2>7, <3>1
  <2> QED BY <2>3, <2>4, <2>6, <2>7, TagsChange
<1> QED BY <1>4, <1>5, <1>6 DEF Past

\* The containers of a request change as its own thread changes them: they go,
\* or they get the image that is next.
LEMMA NotAheadStays ==
    ASSUME NamesTellServicesApart, PInv, Exclusive, [Next]_vars, NEW t \in Threads, request[t] \in Applies,
           NEW i \in 1 .. Len(request[t].services), NEW tag, NotAhead(t, request[t].services[i], tag),
           i <= Len(tags[t]) => tag = tags[t][i],
           request'[t] = request[t]
    PROVE  NotAhead(t, request[t].services[i], tag)'
<1> DEFINE s == request[t].services[i]
           k == ContainerName(ProjectOf(t), s.name)
<1>1. TypeOK /\ Fits(t)
  BY DEF PInv
<1>2. /\ k' = k /\ s' = s
  BY DEF ProjectOf
<1>3. CASE containers'[k] = containers[k]
  BY <1>2, <1>3 DEF NotAhead
<1>4. CASE containers'[k] # containers[k]
  <2>1. index[t] \in 1 .. Len(request[t].services)
    BY <1>1 DEF Fits
  <2>2. s.name \in Names
    BY <2>1, ServicesDiffer
  <2>3. /\ pc[t] \in {"find", "mount"} /\ s.name = Current(t).name
        /\ \/ containers'[k] = None
           \/ CreateContainer(t) /\ containers'[k] = NewContainer(t)
    BY <1>4, <2>2, OwnContainers
  <2>4. i = index[t]
    BY <2>1, <2>3, ServicesDiffer
  <2>5. Len(tags[t]) = Len(request[t].services) /\ Len(request[t].services) \in Nat
    BY <1>1, <2>3, Configurations DEF Fits
  <2>6. tag = CurrentTag(t)
    BY <2>4, <2>5 DEF CurrentTag
  <2>7. CASE containers'[k] = None
    BY <1>2, <2>7 DEF NotAhead
  <2>8. CASE CreateContainer(t) /\ containers'[k] = NewContainer(t) /\ containers'[k] # None
    <3>1. pc[t] = "mount" /\ images[CurrentTag(t)] # None
      <4>1. pc[t] = "mount"
        BY <2>8 DEF CreateContainer, At
      <4> QED BY <1>4, <2>8, <4>1 DEF CreateContainer
    <3>2. tag.commit \in Nat
      BY <2>6, <3>1, NewContainerTyped, TagCommits
    <3>3. containers'[k].tag = tag
      BY <2>6, <2>8 DEF NewContainer
    <3> QED BY <1>2, <3>2, <3>3 DEF NotAhead
  <2> QED BY <2>3, <2>7, <2>8
<1> QED BY <1>3, <1>4

LEMMA NoOlderKept ==
    ASSUME NamesTellServicesApart, PInv, Exclusive, AInv, [Next]_vars, NEW t \in Threads PROVE NoOlder(t)'
<1>1. TypeOK /\ Fits(t) /\ NoOlder(t)
  BY DEF PInv, AInv
<1>2. /\ tags[t] \in Seq(Tags) /\ Len(tags[t]) \in Nat
      /\ \A i \in 1 .. Len(tags[t]) : /\ request[t] \in Applies
                                      /\ i \in 1 .. Len(request[t].services)
  BY <1>1, ImagesTyped DEF TypeOK
<1>3. ASSUME NEW i \in 1 .. Len(tags[t]), NEW tag, tag = tags[t][i], tags'[t][i] = tag,
             request'[t] = request[t]
      PROVE  NotAhead(t, request[t].services[i], tags[t][i])'
  <2>1. NotAhead(t, request[t].services[i], tag)
    BY <1>1, <1>3 DEF NoOlder
  <2>2. NotAhead(t, request[t].services[i], tag)'
    BY <1>2, <1>3, <2>1, NotAheadStays
  <2> QED BY <1>3, <2>2
<1>4. ASSUME NEW i \in 1 .. Len(tags'[t])
      PROVE  NotAhead(t, request[t].services[i], tags[t][i])'
  <2>1. CASE tags'[t] = tags[t] /\ request'[t] = request[t]
    BY <1>3, <1>4, <2>1
  <2>2. CASE tags'[t] = <<>>
    BY <1>4, <2>2
  <2>3. ASSUME NEW tag, tags'[t] = Append(tags[t], tag), pc[t] \in Building \cup {"image"},
               NotAhead(t, Current(t), tag), containers' = containers, request'[t] = request[t]
        PROVE  NotAhead(t, request[t].services[i], tags[t][i])'
    <3>1. CASE i \in 1 .. Len(tags[t])
      BY <1>2, <1>3, <2>3, <3>1
    <3>2. CASE i = Len(tags[t]) + 1
      <4>1. tags'[t][i] = tag
        BY <1>2, <2>3, <3>2
      <4>2. i = index[t]
        BY <1>1, <1>2, <2>3, <3>2 DEF Fits, TypeOK
      <4> QED BY <2>3, <4>1, <4>2 DEF NotAhead, ProjectOf, Current
    <3> QED BY <1>2, <1>4, <2>3, <3>1, <3>2
  <2>4. CASE /\ GetImageFromSource(t) /\ Current(t).type = "docker"
             /\ request'[t] = request[t] /\ containers' = containers
             /\ tags'[t] = Append(tags[t], RegistryTag(Current(t)))
    <3>1. NotAhead(t, Current(t), RegistryTag(Current(t)))
      BY DEF NotAhead, RegistryTag
    <3>2. pc[t] = "image"
      BY <2>4 DEF GetImageFromSource, At
    <3> QED BY <2>3, <2>4, <3>1, <3>2
  <2>5. CASE /\ ReadImage(t) /\ request'[t] = request[t] /\ containers' = containers
             /\ tags'[t] = Append(tags[t], Tag(ProjectOf(t), Current(t), commit[t]))
    <3>1. pc[t] = "read"
      BY <2>5 DEF ReadImage, At
    <3> QED BY <1>1, <2>3, <2>5, <3>1 DEF NoOlder, Building
  <2> QED BY <2>1, <2>2, <2>4, <2>5, TagsChange
<1>5. ASSUME pc'[t] \in {"build", "read"}
      PROVE  NotAhead(t, Current(t), Tag(ProjectOf(t), Current(t), commit[t]))'
  <2>1. CASE /\ pc[t] \in {"build", "read"} /\ request'[t] = request[t]
             /\ index'[t] = index[t] /\ commit'[t] = commit[t]
    <3>1. /\ request[t] \in Applies
          /\ index[t] \in 1 .. Len(request[t].services)
          /\ Len(tags[t]) = index[t] - 1
      BY <1>1, <2>1, AtWork DEF Fits, Building
    <3>2. ASSUME NEW tag, tag = Tag(ProjectOf(t), Current(t), commit[t]),
                 NEW i, i = index[t]
          PROVE  NotAhead(t, Current(t), Tag(ProjectOf(t), Current(t), commit[t]))'
      <4>1. NotAhead(t, request[t].services[i], tag)
        BY <1>1, <2>1, <3>2 DEF NoOlder, Current
      <4>2. NotAhead(t, request[t].services[i], tag)'
        <5>1. i \in 1 .. Len(request[t].services) /\ ~(i <= Len(tags[t]))
          BY <1>2, <3>1, <3>2
        <5> QED BY <2>1, <3>1, <4>1, <5>1, NotAheadStays
      <4>3. Current(t)' = request'[t].services[i] /\ tag = Tag(ProjectOf(t), Current(t), commit[t])'
        BY <2>1, <3>2 DEF Current, ProjectOf
      <4> QED BY <4>2, <4>3
    <3> QED BY <3>2
  <2>2. CASE Clone(t)
    <3>1. /\ commit'[t] = head /\ request' = request /\ index' = index
          /\ containers' = containers /\ pc[t] = "clone"
      BY <1>1, <2>2 DEF Clone, At, world, TypeOK
    <3>2. Key(t) \in Keys /\ ProjectOf(t) \in Projects /\ Current(t) \in Service
      BY <1>1, <3>1, AtWork
    <3>3. containers[Key(t)] # None => containers[Key(t)].tag.commit <= head
      BY <3>2 DEF AInv, Past
    <3>4. Tag(ProjectOf(t), Current(t), commit[t])'.type = "git"
             => Tag(ProjectOf(t), Current(t), commit[t])'.commit = head
      BY <3>1 DEF Tag, RegistryTag, ProjectOf, Current
    <3>5. Current(t)' = Current(t) /\ ProjectOf(t)' = ProjectOf(t)
      BY <3>1 DEF ProjectOf, Current
    <3> QED BY <3>1, <3>3, <3>4, <3>5 DEF NotAhead, Key
  <2>3. CASE DockerBuild(t)
    BY <2>1, <2>3 DEF DockerBuild, At, locals
  <2>4. CASE ~Acts(t)
    BY <1>1, <1>5, <2>1, <2>4, OthersRest
  <2>5. CASE \/ GetImageFromSource(t) \/ ReadImage(t) \/ FindContainer(t)
             \/ PullImageIfNotExists(t) \/ ListVolumes(t) \/ CreateVolume(t)
             \/ CreateContainer(t) \/ Reply(t) \/ CallFails(t) \/ Crash
             \/ \E config \in Applies : Apply(t, config)
    <3>1. pc'[t] \notin {"build", "read"}
      BY <1>1, <2>5 DEF GetImageFromSource, ReadImage, HaveImage, FindContainer, NextService,
           PullImageIfNotExists, ListVolumes, CreateVolume, CreateContainer, Reply, Reset,
           CallFails, Crash, Apply, Goto, At, TypeOK
    <3> QED BY <1>5, <3>1
  <2> QED BY <2>2, <2>3, <2>4, <2>5 DEF Acts, Step
<1> QED BY <1>4, <1>5 DEF NoOlder

\* A container gives way only to an image of the same commit or a later one:
\* no order of pushes, applies that fail and crashes makes an apply go back.  As
\* above, names of containers have to tell services apart.
THEOREM CommitsGoForward == NamesTellServicesApart => (Spec => []NeverDowngraded)
<1> SUFFICES ASSUME NamesTellServicesApart PROVE Spec => []NeverDowngraded
  OBVIOUS
<1>1. Init => AInv
  BY ConstantsAssumption DEF Init, AInv, Past, NoOlder
<1>2. PInv /\ SInv /\ AInv /\ [Next]_vars => AInv'
  BY PastKept, NoOlderKept DEF SInv, AInv
<1>3. PInv /\ AInv => NeverDowngraded
  <2> SUFFICES ASSUME PInv, AInv, NEW t \in Threads, pc[t] = "find"
               PROVE  NotAhead(t, Current(t), CurrentTag(t))
    BY DEF NeverDowngraded, At, NotAhead, Key
  <2>1. index[t] \in 1 .. Len(tags[t])
    BY AtWork DEF PInv, Fits
  <2> QED BY <2>1 DEF AInv, NoOlder, Current, CurrentTag
<1> QED BY <1>1, <1>2, <1>3, PInvariant, SInvariant, PTL DEF Spec
=============================================================================
