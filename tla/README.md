# Verification of conter

conter is a daemon that runs projects (sets of services) as Docker containers on
one machine, routes domain names to them through a reverse proxy of its own and
obtains the certificates of these domains from an ACME certificate authority.
This directory holds TLA+ models of the parts that keep state, TLC
configurations that check them on small instances, and theorems about them with
proofs for TLAPS. All line numbers refer to `src/`.

Contents: [the system](#1-the-system), [what is hard](#2-what-is-hard),
[the modules](#3-the-modules), [the runs](#4-the-runs),
[fairness](#5-fairness), [disagreements](#6-where-code-and-comments-disagree),
[proofs](#7-proofs), [limits](#8-what-is-only-model-checked-what-is-left-out),
[plan](#9-plan).

## 1. The system

| component | source | state it keeps | operations that change it |
|---|---|---|---|
| ingress manager | `manager/ingress.go` | the `routes` bucket: domain -> ingress (project, service, endpoint) | `RegisterRoute`, `RemoveUnusedRoutes`, `RemoveAllRoutes` |
| container manager | `manager/container.go` | the `projects` bucket; through Docker: containers and networks | `ApplyProject`, `ApplyService`, `RemoveProject` |
| Docker client | `manager/docker/` | containers, networks, volumes, images of the Docker daemon | create, start, remove, list; `GetAvailablePort` |
| certificate manager | `manager/certificates.go` | buckets for certificates, mappings (domain -> certificate id) and challenges; one goroutine per order | `ChallengeCreate`, `Batch`, `Present`, `CleanUp` |
| ACME account | `manager/certificates.go:60-141`, `manager/db/config.go` | four `acme.*` keys of the config bucket, the `user` in memory | `init`, `ClearAcme` |
| database client | `manager/db/` | one bbolt file | one transaction per method |
| management server | `server/` | none of its own | apply, delete, renew, the batch task; `Listen`, `Shutdown` |
| reverse proxy | `proxy/` | TLS defaults | none; reads a certificate and a route in two transactions, answers HTTP-01 challenges |
| daemon | `cmd/daemon/main.go` | how far `run` has come, the cancelled context, three HTTP servers | start, signal, return, the deferred calls |
| source builder | `manager/source/` | build directories; through Docker: image tags | clone, build, read the tag, clean up |
| validation | `manager/container.go` (`validate`) | none | none |
| command line and API client, scripts, version | `cmd/cli/`, `api/`, `scripts/`, `version/` | none | none |

They interact as follows. The management server runs each request on a
goroutine of its own and calls the container manager; that calls the Docker
client, the ingress manager and the database one after the other. The ingress
manager ends a registration in the certificate manager, which starts an order in
the background and returns. An order calls back into the database to present and
remove challenges, and the proxy reads the challenge that the order has stored.
The batch task of the management server walks over all certificates; nothing in
the daemon triggers it. No manager takes a lock: the only units of atomicity are
a bbolt transaction and a call to the Docker daemon.

What makes each part correct:

- *ingress manager*: a domain belongs to one service until it is released; a
  removal takes only routes of its own project that are not wanted any more, and
  takes all of those.
- *container manager*: an apply that reports success is in place; an apply that
  failed can be repeated until it succeeds; a delete forgets a project last;
  nobody's containers but one's own are removed; routes lead to the container of
  their service.
- *certificate manager*: a domain that has a certificate never loses it; used
  certificates are renewed in time and unused ones removed; orders for the same
  domain do not take each other's challenges away.
- *source builder and Docker client*: a container runs what its service's own source
  says and mounts its own volumes; builds clean up after themselves; a new commit is
  deployed by the next apply.
- *daemon and proxy*: no success is reported that is not stored, also while the
  daemon is stopping; domains nobody is working on are served all the time; whatever
  ends the daemon, it comes back.
- *ACME account*: the daemon signs with the key of its stored registration, finds the
  account again at the next start, replaces one that is not known any more instead of
  giving up, and works with the account of the configured email and authority.

## 2. What is hard

- *Interleaving.* Two requests alternate at every database transaction and every
  Docker call. Domains are checked one transaction at a time and written in a
  later one; lists of routes, containers and certificates are read once and
  worked on later.
- *Partial failure.* Each request is a sequence of calls to three stores with no
  roll-back. Some errors stop it, some are ignored (a network that cannot be
  removed, an inspection that fails), and one can be reported although the call
  took effect.
- *Crashes.* The process dies between two writes; the database, the containers
  and the networks stay, including challenges and half an account.
- *Shutdown.* `Shutdown` waits for handlers on a goroutine of its own, `Listen` has
  returned by then, and the deferred calls of `run` close the database under requests
  that are still being served. A read from a closed database looks like one from an
  empty database, as the read functions drop its error; a write fails.
- *Names.* Containers, images and volumes are found again by names put together
  from names of projects and services, some by filters that are regular expressions.
- *Containers with a life of their own.* They stop; a stopped container keeps its
  name, loses its port, is not listed and does not hold its network.
- *Liveness.* Renewal and removal of certificates depend on a task that something
  outside has to trigger, and an order with a single bad domain fails as a whole.

`PROJECT.json` lists these at their lines under `hazards`, with the properties
that cover each of them.

## 3. The modules

| module | models | actions and code |
|---|---|---|
| `RouteTable` | abstract: domains and their owners | `Claim` takes a set of domains, all free or owned already, in one step; `Release` frees one |
| `Ingress` | `manager/ingress.go` over the routes bucket | `RegisterRoute`, then `MatchDomain` once per domain (a read transaction each), `SaveIngressRoute` (one write), `Certify`; `RemoveUnusedRoutes` (list), `RemoveIngressRoute` once per listed domain, `RoutesRemoved`; `DatabaseError`, `Crash` |
| `Docker` | the Docker daemon as `manager/docker` uses it | one operator per API call |
| `ContainerManager` | `manager/container.go` with the handlers of `server/routes.go` | one action per call it makes, `Apply` and `Delete` for the requests; composes `Ingress` and `Docker` by INSTANCE and shares their variables |
| `Projects` | abstract: what is remembered and what is in place of each project | `Begin`, `Work` (anything happens to this project, nothing to others), `Settle` (success: the remembered services are exactly what is in place, or nothing is left), `Fail`, `Decay`, `Crash` |
| `Provisioning` | `manager/source/`, images and volumes in `manager/docker/client.go`, the two loops of `ApplyProject` | `GetImageFromSource`, `Clone`, `DockerBuild`, `ReadImage`; `FindContainer`, `PullImageIfNotExists`, `ListVolumes`, `CreateVolume`, `CreateContainer`; commits that are pushed, pruned images, failing calls, crashes |
| `Daemon` | `cmd/daemon/main.go`, start and shutdown in `server/server.go` and `proxy/server.go`, the proxy's handler | `Start`, `Listen`, `Signal`, `Shutdown`, `Return`, `CloseDatabase`, `Finish`; requests down to the transactions of the ingress manager, which it composes by INSTANCE; `Redirect`, `Connect`, `GetCertificate`, `Match` for visitors |
| `Certificates` | `manager/certificates.go` over its three buckets | threads: `HasValidCertificate`, `Renew`, `CheckDomain`, `SubmitOrder`, `StartBatch`, `InspectCertificate`, `RemoveCertificateById`; orders: `Present`, `Validate`, `CleanUp`, `Obtained`, `SetCertificate`; the clock, the DNS, failures and crashes |
| `Coverage` | abstract: which domains have a certificate, how old it is, and for which one is sought | `Ask`, `GiveUp`, `Issue` (all domains of a certificate get it in one step), `Age`; nothing takes a certificate away |
| `AcmeAccount` | `CertificateManager.init` and `manager/db/config.go` | one action per key written or cleared, and per call to the authority |
| `IngressProofs`, `ContainerManagerProofs`, `DeploymentProofs`, `ProjectsProofs`, `ProvisioningProofs`, `DaemonProofs`, `CertificatesProofs`, `AcmeAccountProofs` | | theorems and proofs |
| `MCIngress`, `MCContainerManager`, `MCProvisioning`, `MCDaemon`, `MCCertificates`, `MCAcmeAccount` | | the values of the constants for TLC |

The conventions are the same everywhere.

- A *thread* is the goroutine of one HTTP request; `pc[t]` (in `Ingress`:
  `ipc[t]`) is the line it has come to, the other arrays are its local
  variables. They are reset when the call returns, so that states that differ
  in dead values only are one state.
- One database transaction or one Docker call is one step. What the code computes
  between two of them belongs to the step before or after.
- `Mishap` counts what nobody wishes for (crashes, failing calls, containers that
  exit, rejected validations) against the bound `MaxMishaps`.
- Ids, keys and ports are numbers only where the code picks "a new one" or "the
  first one that is free": the first candidate stands for all, since they are
  interchangeable. An id counts as new when nothing stored and no thread
  remembers it, which is how a finite set of ids stands for UUIDs.
- Operators marked `Mutant` are wrong versions of the definition that follows
  them. They are used nowhere in the models; put in the place of that definition,
  each breaks the property `PROJECT.json` names, which shows that the property
  depends on that piece of the code.

Abstractions worth knowing:

- The options of a service that decide about a rebuild are its `hash`; equality
  of hashes stands for equality of these options.
- `Docker!NetworkRemove` detaches stopped containers for good: a container refers
  to its network by id, and a new network of the same name is another one.
- `netLive[t]` in `ContainerManager` stands for the network id that
  `ApplyProject` keeps in a local variable: whether that network still exists.
- A port is bound while its container runs. `GetAvailablePort`
  (`docker/helper.go:47`) tries to listen and closes again; nothing reserves the
  port between creation and start, so two containers may be created on one port.
- A container that exits by itself is brought back by Docker, since its restart policy is
  "always" (`docker/client.go:140`), and is listed as running meanwhile.
  `ContainerExits` therefore stands for one that somebody has stopped. Docker's own
  restart is not modelled.
- `CallFails` covers both a call that failed and one that took effect and
  reported an error (the client's context was cancelled).
- In `Ingress`, `Certify` has every outcome the certificate manager can have; in
  `Certificates`, `HasValidCertificate` may be called for any set of domains.
  `ContainerManager` and `Certificates` share no bucket and are not composed.
- A route's lookup error and a missing route are one thing for `RegisterRoute`
  (`ingress.go:42`). In `Daemon` every read of a closed database fails that way;
  failing reads of an open bbolt file are not modelled.
- `ContainerManager`, `Provisioning` and `Daemon` look at the same handlers from three
  sides. The first has every call to Docker, the routes and the database, with an
  image as something a service has; the second has images, volumes and builds, with
  a container as something that is removed and created; the third has the
  transactions only, since the end of the daemon does not disturb calls to Docker.
- In `Provisioning` a name is a sequence of characters, so that names can be joined and
  contained in one another. `Matches` is the name filter of Docker, a search for a
  regular expression, of which only the dot is special here: every volume's name has one
  (`docker/client.go:318`), and it matches any character. Names of containers are joined
  with `_` as in the code (`container.go:143`) and may coincide; the instance says that
  they do not (`NamesTellServicesApart`). The recipe of a service stands for its Dockerfile, branch
  and image options. Commits are numbered in the order they are pushed. Names of
  services within one configuration differ (`NamesDiffer`).
- In `Projects` and the refinement a project is `working` while a request for it runs,
  and `done` between the last write and the answer. `PhaseOf` and `DeploymentOf` in
  `ContainerManager` are the refinement mapping.
- In `Coverage` a certificate is sought for the domains that a thread wants covered
  (`want`) or an order works on; `CoverageOf` and `Sought` in `Certificates` are the
  refinement mapping.
- The age of a certificate is `fresh`, `expiring` (the last 30 days) or
  `expired`; a new one is always fresh. `Oldest` bounds the age in an instance.
- Writes of the certificate manager fail one by one: a challenge that cannot be stored
  (`PresentFails`) spoils the order, one that cannot be removed (`CleanUpFails`) stays, a
  certificate that cannot be written (`StoreFails`) or removed (`RemoveFails`) is left to
  the next batch job.
- In `AcmeAccount` the query of an account goes to the address in the stored
  registration, whatever directory is configured: it succeeds if the authority there
  knows the account and the key is the account's (`Known`).
- In `Daemon` an order may store a certificate for any domain that points to the machine
  (`Reachable`), also when the route it was ordered for is gone.

## 4. The runs

Passing runs:

| run | instance | properties |
|---|---|---|
| `ingress` | two threads, two projects, three domains; two services of one project want the same domain; failing writes and crashes without bound | `RemovalComplete`, `RouteNeverStolen`, `OnlyOwnRoutesRemoved`, and `ImplementsRouteTable`: the ingress manager refines `RouteTable` |
| `manager_orderly` | two threads, two projects, rebuilds with and without domains, one mishap, ACME not configured (so every new domain is refused at the end of its registration) | `AppliedIsDeployed`, `ForgottenWhenClean`, `StaysDeployed`, and `ImplementsProjects`: the container manager refines `Projects` |
| `manager_concurrent` | two threads in any order, also on one project, containers that exit at any time, a single host port, three ids (1.8 million states) | `OthersUntouched` |
| `manager_retry` | one configuration of two services, repeated, up to four mishaps | `RetriesConverge` |
| `certificates_batches` | two threads, one domain, three ids, an order in the background, one mishap (a crash or any write that fails), a domain that may move away (1.9 million states) | `MappingsLeadToCertificates`, `CertificatesKept` |
| `certificates_orders` | one thread, two orders, each for two domains or what is left of them, two ids: both orders may store, and the batch job renews and removes; certificates grow no older than `expiring` (1.4 million states) | `ChallengesHaveOrders`, `ChallengesCleanedByOwner`, and `ImplementsCoverage`: the certificate manager refines `Coverage` |
| `certificates_renewal` | one domain that may move away, five ids, the batch job again and again, one mishap (92,593 states) | `RenewedUnlessBlocked`, `UnusedRemovedEventually` |
| `provisioning` | two threads, two projects, one of them with two services built from one repository with different Dockerfiles, volumes with names that find others and names that do not, one commit pushed, two mishaps (483,032 states) | `BuiltFromItsSource`, `OwnVolumes`, `NoStrayDirectories`, `AppliedIsCurrent`, `NeverDowngraded`, `NewestIsDeployed` |
| `daemon` | two threads and one visitor, two projects applied and deleted, one of which also asks for the domain of a third that no request is about; one signal, crash or listener that fails (617,555 states) | `BystandersServed`, `AcknowledgedIsStored`, `ForgottenWhenUnrouted`, `NeverStolen`, `StopsAndStarts` |
| `account` | two emails or none, two authorities, two changes of the configuration, two mishaps (67,772 states) | `ReadyWithItsKey`, `ReadyIsStored`, `NoNilRegistration`, `AccountAsConfigured`, `EveryStartEnds`, `ReadyEventually` |

Each component also has its type invariant `TypeOK` checked in its first run.

What the properties say about the code:

- `RouteNeverStolen`, `OnlyOwnRoutesRemoved`, `RemovalComplete`: what the comments
  of `RegisterRoute` and `RemoveUnusedRoutes` promise. They hold for clients that
  never have two requests of one project under way (`OrderlySpec`) and projects
  with domains of their own. Both assumptions are needed: see section 6.
- `AppliedIsDeployed`: at the moment an apply is answered with success, every
  service has a running container of the wanted hash, its domains lead to the
  port of that container, nothing else of the project runs or is routed, and the
  database knows the services; whatever failed or crashed before.
- `ForgottenWhenClean`: a project leaves the database when no route and no running
  container of it is left, so a delete that failed midway can be repeated. (It
  could not if it were forgotten earlier: the handler refuses unknown projects.)
- `ImplementsProjects`: requests for different projects share ports, the routes, the
  list of containers and the database, and yet none changes anything of another
  project; whenever the database is written, it tells the truth about what is in
  place.
- `StaysDeployed`: a configuration that is in place stays in place while other projects
  are served and while it is applied again, also when that apply fails or is cut off:
  an apply that has nothing to change takes nothing down on its way.
- `OthersUntouched`: the thread whose step removes a container (`Acts`) serves a request
  for that container's project, although lists are stale by the time they are used and
  ids come from lookups by name. It speaks of the acting thread, so that the shop's
  request may not remove the blog's container while both are being served.
- `RetriesConverge`: from whatever earlier failures left behind (a stopped
  container, one without a route, a network without containers), repeating the
  apply ends in the configuration being in place for good.
- `BuiltFromItsSource`: all images of an apply are built before the first container is
  created from one, by name; in between other services, other requests and somebody
  who prunes images change what the names stand for.
- `OwnVolumes`: a volume is found by a filter that is a regular expression, and the first
  one found is taken. A name is distinctive if it finds no other volume (`Distinctive`);
  each service mounts its own volume under such a name, in the presence of names that
  are not distinctive, its own included. The instance has both: `a.w-d` of the shop also
  finds `a.w-dx` of the shop and `b.a-w-d` of the blog. What is mounted under a name that
  finds others is up to the order in which Docker lists them: see section 6.
- `AppliedIsCurrent`: a service may be passed by as up to date. After an apply that
  succeeds its container is nevertheless of the very image that this apply has got.
- `NeverDowngraded`: the commit of a service is read before all images are built, and
  its container is replaced after that; commits are pushed meanwhile, and containers may
  stem from an apply that failed after having read a later commit than the last
  success. No order of these makes an apply go back.
- `NewestIsDeployed`: a new commit reaches the decision to rebuild through the tag of
  the image only; after failures, prunings and crashes a later apply still puts it in
  place.
- `AcknowledgedIsStored`, `ForgottenWhenUnrouted`, `NeverStolen`: a request that is
  overtaken by the end of the daemon finds all lists empty and all domains free, so a
  deletion skips the routes and an apply skips the check of its domains. What saves
  them is that the database does not reopen in the life of a process and each of them
  ends in a write that fails. In this run the shop asks for the wiki's domain, which
  the check must refuse.
- `BystandersServed`: the certificate and the route of one connection are read in two
  transactions while others rewrite both.
- `CertificatesKept`: the batch job decides that a certificate is unused in one
  transaction and removes it in a later one while orders move mappings. It is
  sound because a mapping only ever moves to a new id.
- `ImplementsCoverage`: seen from the visitors, however requests, batch jobs and orders
  interleave, only domains that somebody asked for get a certificate, those of one
  order get it at the same moment, and from then on it only ages or is replaced.
- `RenewedUnlessBlocked`: a certificate that has aged is renewed as long as its domain
  points to the machine, though a crash or a failing write spoils an order; a challenge
  that stays in the database for ever is all that may prevent it. Without that last
  clause it is `RenewedEventually`, which does not hold (section 6).
- `ChallengesCleanedByOwner`: two orders may work on one domain, since the check
  of `certificates.go:211` precedes the storing of the challenge; the comparison
  of tokens in `RemoveAcmeChallenge` keeps the later challenge.
- `ReadyWithItsKey`, `ReadyIsStored`: the four keys of an account are written by four
  transactions; a mixture of two accounts that a crash leaves is refused by the
  authority and replaced, unless key and registration belong together.
- `AccountAsConfigured`: the account has the configured email if nothing fails or nothing
  is reconfigured, and is that of the configured directory also through one change with
  mishaps. What it leaves out are the two mixtures of section 6.
- `NoNilRegistration`: the retry of `init` never reaches the query again, whose nil
  result it would dereference (`certificates.go:131`), since the keys were cleared.
- `EveryStartEnds`: `init` calls itself; a bound on its remaining steps (`StepsLeft`)
  falls with every one of them, whatever is stored and whatever the authority answers.

The bounds and why they are enough. Two threads are enough for the races here, all
of which are between one step that reads and one that writes; `manager_retry` and
`certificates_renewal` need one, since their clients take turns. One visitor is
enough as visitors change nothing. One commit pushed makes an old and a new image of
every service. Two projects make a victim and an intruder; three domains a shared
one, one for growth and one for the neighbour. Three ports are more than the
containers that can run at a time in `manager_orderly`; `manager_concurrent` has a
single port so that services compete for it and creation is refused. Ids are never
exhausted in the manager runs: three are enough for the containers that exist or are
remembered at a time where every project has one service, and with five the run
`manager_orderly` has the same 768,783 states. In `certificates_renewal` the guard `Room` keeps clients from asking for more
certificates than ids are left, and the batch job removes what is not used, so that
an order that could not be stored for want of an id (`NoIdLeft`) does not occur
there. In `certificates_orders` two ids are enough for one certificate that is replaced
by another, removed by the batch job, and its place taken by the next; an order that
finds both in use is dropped. One mishap in a run with two threads puts a failure, an
exit or a crash at every point of every interleaving; two in `provisioning` and `account`, and four in
`manager_retry`, allow failures while an earlier one is being repaired. One stop in
`daemon` puts a signal, a crash or a failing listener at every point, with a second
life after it that begins with whatever the first one has left in the database, the
only thing that survives. The account run has two changes of the configuration, so
that it can change and change back, which one of the mixtures needs, and as many keys as
accounts can be registered before a key may be used again.

The large runs that check safety only use symmetry: of the threads, as no definition
names one, and in `certificates_orders` of the domains, as every request there is for
both. The runs that check liveness use none.

Runs that show a disagreement (section 6): `ingress_stolen`,
`certificates_leftover`.

## 5. Fairness

- Requests (`ContainerManager!Fairness`): weak fairness of the next step of every
  thread. Go runs every goroutine, a handler has no wait but for its calls, and
  calls to Docker and to the database return or fail. Nothing is assumed of
  mishaps, which are bounded in number, nor of clients, but for `RetrySpec`:
  there each configuration is applied again and again (strong fairness of
  `Apply`, since another request or a mishap may come in between).
- Certificates (`QuietSpec`): weak fairness of threads and orders for the same
  reason, and strong fairness of the batch job at times when nothing is under
  way. That is an assumption about the operator's timer, which has to trigger the
  task (`server/routes.go:258`) less often than an order takes. Time passes
  between batch jobs in that specification: a job reads each age once and an order
  reads none, so a certificate that ages meanwhile might as well have aged before.
  A certificate may expire before the job has run; the property is that the domain
  gets a fresh one then. (`Spec`, under which safety is checked, lets time pass at
  any moment.)
- Provisioning (`RepeatingSpec`): weak fairness of the next step of every thread, as
  for requests, and strong fairness of `Apply` for each configuration: whoever pushes
  a commit applies again, and a request that is refused meanwhile is repeated.
- Daemon (`Fairness`): weak fairness of the start (`Restart=always`), of `Listen` and
  `Shutdown` of every server, and of the return of `run` and its deferred calls, which
  are goroutines that wait for nothing else. Requests and visitors have none: they may
  hang for ever, and `StopsAndStarts` has to hold all the same.
- Account (`FairSpec`): weak fairness of the start (systemd, `Restart=always`,
  `scripts/postinstall.sh:104`) and of the steps of `init`. The start limit of
  systemd is not reached with a bounded number of mishaps.

## 6. Where code and comments disagree

Two disagreements have a run whose counterexample shows them.

| run | what happens | what the source says |
|---|---|---|
| `ingress_stolen` | two requests find one domain free and both write; the first owner is not told (`ingress.go:41`) | `ingress.go:39-40` "check all domains linked to ingress -> fail if any exist that are not for the same project / service" |
| `certificates_leftover` | a crash leaves a challenge in the database, and its domain is skipped by every later order (`certificates.go:212`) | `certificates.go:27` "any certificate that will expire within 30 days will get renewed" |

Others were met while modelling. The modules contain the behaviour unless it is said
otherwise, but no run is dedicated to it:

- A rebuild removes the old container first; if it fails then, the old route stays, and
  its port is given to the next container, of whatever project, until the failed apply
  is repeated (`container.go:239`, against `ingress.go:19` "managing routes for
  directing traffic to the correct container").
- `shop` + `old_web` and `shop_old` + `web` are one container name; each apply replaces
  the other project's container (`container.go:143`, against `docker/client.go:96`
  "retrieve the container information for the service with the given name that belongs
  to the project"). The instances of `ContainerManager` have names without this
  clash, and the theorems assume it (`NamesDetermineProjects`).
- Volumes are looked up by a filter that is a regular expression, and the first hit is
  mounted, whatever its name (`docker/client.go:322`, against :315-316 "If the volume
  already exists it will not create a new one"): `shop.web-data` also finds
  `my-shop.web-data` of another project, and `x-shop-web-data`, as the dot matches any
  character. The service then mounts the other one's data.
- Two applies of one project at once, with different Dockerfiles at one commit, write
  one image tag, which has neither in its name (`builder.go:107`): a container may run
  the build of the other request. Clients of `Provisioning` have one request per
  project under way.
- An image of a registry that is there is never pulled again, so a tag that moves on
  is not followed (`docker/client.go:226`).
- Handlers are not waited for at shutdown (`server/server.go:55`, against the
  "graceful" shutdown of the comment at :51): `ListenAndServe` returns as soon as
  `Shutdown` is called, and `main` closes the database under them.
- Two services of one configuration may have one name, and the second replaces the
  container of the first (`container.go:62`).
- With two requests of one project under way, a removal deletes the route another
  project has registered since the list was read (`ingress.go:85`, against :75
  "all unused routes related to the specified project"). It is the reason for
  `OrderlySpec`.
- Stopped containers survive the deletion of their project, as only running ones
  are listed (`docker/client.go:272`, against :310 "purge all containers").
- An apply that fails at its second service leaves the first one running while the
  project is unknown and cannot be deleted (`container.go:220`, :29).
- A delete that runs in parallel removes the containers an apply reports as
  running (`server/routes.go:41` "always running when applied").
- A container that stopped may lose its port to another one and then cannot be
  started any more (`container.go:251`, :227 "start container if it's not
  running"). Repeating the apply does not help then, which is why `RetriesConverge` is
  checked where no container exits midway (`ExitsMidway`).
- A domain cannot move between two services of one project in one apply
  (`ingress.go:47`, `container.go:128-129`).
- Once one of several domains of a certificate points elsewhere, the others are not
  renewed either (`certificates.go:290`, :27). `certificates_renewal` therefore
  has certificates of one domain each.
- One batch job may order two certificates for a domain they share
  (`certificates.go:211`, :210 "validate that no ongoing domain challenges are
  being done").
- A crash while a new account is saved leaves a mixture that passes for the configured
  one, against `certificates.go:118` "persist directory URL to compare registration" and
  the comparison of emails at :73: after the first of the four writes the new email
  beside the old account (`certificates.go:115`); after the third the registration at
  another authority beside the old directory, once the configuration is changed back
  (`certificates.go:117`). The query of `certificates.go:121` refuses neither: it goes to
  the address in the registration. `AccountAsConfigured` leaves these histories out.
- A query that fails because the authority cannot be reached clears a valid account
  (`certificates.go:124`).

## 7. Proofs

All theorems hold for every value of the constants that satisfies the named
assumptions of the modules (`IngressesAssumption`, `ConstantsAssumption`): the
marks for "nothing" are distinct from real values, numbered sets are numbers, and
configurations are such as `validate` lets through.

`IngressProofs`

- `TypeCorrect`. `TypeOK` is not inductive, since `SaveIngressRoute` stores the
  argument of the call: that a thread past the entry of `RegisterRoute` has an
  argument (`ArgumentsSet`) is part of the invariant `TInv`.
- `NeverStolen`, `OwnRemovals` and `Refinement`: under `Serial \/ Disjoint`, that is
  with a single thread, or when ingresses that share a domain belong to one
  project, `OrderlySpec` satisfies `RouteNeverStolen`, `OnlyOwnRoutesRemoved` and
  `ImplementsRouteTable`. The invariant `IInv` says what a thread has learned
  and may rely on: `Matched(t)`, the domains it has looked at are free or its own;
  `Removing(t)`, the domains it has listed hold no route of another project;
  `RouteListsDomain`, a route is stored under domains it lists. `Matched` survives
  the steps of others because they work for other projects (`Exclusive`, kept by
  orderly clients), whose ingresses share no domain with it.
- `CompleteRemoval`: for orderly clients and any ingresses, a removal that returns
  success has left no route of its project but those to keep. The invariant says
  that the routes not yet deleted are on the thread's list.

`ContainerManagerProofs`: for any number of requests, also for one project, and any
failures, exits and crashes,

- `TypeCorrect`.
- `CallsIngress`: every step of the container manager is a step of `Ing!Next` or
  leaves its variables alone, and orderly clients of the one are orderly clients of
  the other. All theorems of `IngressProofs`, instantiated as `IngP`, therefore hold
  of the container manager.
- `ContainersUntouched`: `OthersUntouched` of the acting thread, where names of containers determine their
  projects (`NamesDetermineProjects`). The invariant `OInv` says that a container has a
  name of its project (`WellNamed`) and that the ids a thread has looked up or listed
  are those of its project's containers, or of none any more (`Remembers`).
- `NotForgottenEarly`: `ForgottenWhenClean` for orderly clients under the same
  assumption. `Exclusive` says that nobody else works for the project, `Serves` (in
  `SInv`) that a thread calls the ingress manager for its own project only, and
  `Cleaned` (in `FInv`) what is already gone at each step of a deletion. That the
  removal of routes is complete comes from the ingress manager's theorem.
- `RoutesOwned`: the first use of `CallsIngress`. With a single thread, or domains that
  differ between projects, the container manager satisfies `ImplementsRouteTable`,
  `RouteNeverStolen` and `OnlyOwnRoutesRemoved` of the routes it shares with the ingress
  manager.

`DeploymentProofs`: for any number of requests, projects, services and mishaps,

- `Routing`: under `Assumptions`, and with containers that may exit at any time, an apply
  that is answered with success has created the containers of its services, has routed
  its domains to them, and nothing else of the project is routed (`AppliedIsRouted`).
  Each of the assumptions is needed. `NamesDetermineServices`: a container name is the
  two names with `_` in between, so service `b_c` of project `a` and service `c` of
  `a_b` share one. `DistinctServices`: `validate` lets two services of a configuration
  have one name, and the second replaces the first one's container. `DomainsKeptApart`:
  with two requests for one domain, `RegisterRoute` of both may find it free
  (`RouteNeverStolen` fails in `ingress_stolen`).
- `Deployment`: `OrderlySpec` satisfies `AppliedIsDeployed`, under `Assumptions` and
  when no container stops by itself while a request is served (`~ExitsMidway`). Nothing
  watches over containers, so one that exits after it was started is reported as running
  all the same; `Routing` is what remains without that assumption.
- The invariant `DInv` says of a request what it has achieved at each label. `Walked`:
  the services before `index` are in place, running and with their domains routed to
  the published port. `Handles`: what `target` and `endpoint` hold is the container of
  the current service. `Registers`: while the ingress manager looks at the domains it has
  the ingress of that service. `Cleared`: routes and containers the configuration does
  not name are gone. `UniqueNames`: Docker hands out a name once, so a container found by
  name is the only one. That a later service of the same configuration disturbs nothing
  rests on the first two assumptions and on the check of `MatchDomain`, which refuses a
  domain that another service of the same project has; that other
  requests do not, on `NeverStolen`, `OwnRemovals` and `ContainersUntouched`.

`ProjectsProofs`:

- `Refinement`: under the assumptions of `Deployment` `OrderlySpec` implements `Projects` (`ImplementsProjects`). `PInv` is
  `DInv` with `Cleaned`, and `Busy`: a thread without a request is idle. Every step
  that serves a request (`Own`) maps to `Work` of its project, and the last one to
  `Fail` or `Settle` (`OwnEnd`: it touches neither routes nor containers). `Elsewhere`
  is the reason for `Work` to leave other projects alone: what a thread has matched or
  listed is its own or free. `Settle` finds the services in place by `PlacedDeployed`,
  the lemma of `Deployment`, or nothing left, by `Cleaned`.
- `KeptInPlace`: `StaysDeployed` under `Assumptions` alone. A request for a configuration
  that is in place passes through all its steps and finds nothing to change. What
  `PInv` does not say of that is that the containers it has picked for removal are none
  of those it wants (`Spares`, in `KInv`). Other requests work elsewhere, as in
  `Refinement`.

`ProvisioningProofs`: for any projects, threads, commits and mishaps,

- `TypeCorrect` and `DirectoriesRemoved`: `PInv` adds to `TypeOK` that a thread's list
  of images is as long as its position in the loops says (`Fits`), and that there is
  one directory per build (`DirectoryPerBuild`), a statement about cardinalities
  that `FiniteSetTheorems` supports.
- `OwnSources`: `BuiltFromItsSource` under `Spec`. The invariant `SInv` consists of
  `Exclusive` (one request per project), `FromRegistry` (images of a registry are what
  they should be) and `ImagesFit` (the image of a service that this request has built
  is this service's, or was pruned).
- `OwnMounts`: `OwnVolumes` under `Spec` alone, by `MountsFit`: what is on the list so
  far has the place of the first volumes of the service, and is that volume wherever its
  name is distinctive. Nothing is assumed of names.
- `AppliedContainers`: `AppliedIsCurrent`, under `NamesTellServicesApart`, since two
  services of different projects whose names join to one replace each other's container.
  With it a container belongs to the project whose name it carries (`Named`). `MInv` says that the services already seen to
  have their containers. They keep them (`MadeStays`), as the containers of a project are
  touched by its own request only, and by that only the one of the service at hand
  (`OwnContainers`), services of one configuration being told apart by their names.
- `CommitsGoForward`: `NeverDowngraded`, under the same assumption. Nothing is newer than the head of the branch
  (`Past`), and what a request has read is no older than the containers it is for
  (`NoOlder`): when it was read it was the head, and since then only the request itself
  has touched them.

`DaemonProofs`: for any number of threads, visitors and stops,

- `TypeCorrect`: `TInv` adds to `TypeOK` where a request may be in the ingress manager
  (`Serves`), and that a daemon that is down serves nobody (`Quiet`).
- `Acknowledged`, `ForgottenUnrouted` and `Unstolen`: where the domains that clients
  apply differ between projects (`DomainsDiffer`), `AcknowledgedIsStored`,
  `ForgottenWhenUnrouted` and `NeverStolen`. The ingress steps over a closed database
  are no steps of `Ingress`, so `IngressProofs` cannot be reused. The invariant `DInv`
  says what a request has learned and achieved (`Matched`, `Progress`) only under the
  condition that the database is open, which it never becomes again in the life of a
  process; what it reports (`Reported`) holds without that condition.
- `Served`: `BystandersServed` under the same condition. The bystanders' routes and
  certificates stay (`InPlace`), though others may ask for their domains.

`CertificatesProofs`: for any number of threads, orders, domains, crashes and
failures,

- `TypeCorrect`, `MappingsSound` and `NeverWithout`: `MappingsLeadToCertificates`
  and `CertificatesKept` rest on `StillUnused`, that no mapping leads to a
  certificate some thread is about to remove. It is kept as mappings only move to
  new ids, which no thread remembers.
- `CleanedByOwner`: the comparison of tokens in `CleanUp`.
- `NoChallengeLeftBehind`: without mishaps a stored challenge is that of an order
  solving its domain.
- `Refinement`: `ImplementsCoverage`, without further assumptions. `VInv` adds to
  the invariant that an order is only for domains its thread wants (`Wants`), and that
  the domains of a stored certificate have one, this or another (`StoredCovered`): the
  batch job renews all domains of a certificate, also those that have moved to another
  one, and may do so only for domains that are covered. That removing a certificate
  uncovers nobody is `StillUnused` again.

`AcmeAccountProofs`

- `TypeCorrect`, `UsesItsKey`, `AccountIsKept`, `NeverNil`, `AccountOfConfiguration`,
  `StartsEnd`.
  The invariant `Coherent` follows the writes in their order: which of the keys
  already belong to the account in memory at each label, that a query is made for
  what is stored, and that the retry finds no email, so it registers instead of
  querying. `AccountOfConfiguration` needs in addition what is stored in histories that
  are cut short in one way only (`StoredAsConfigured`): without mishaps the stored email
  and directory are those of the stored registration (`Unmixed`); without changes all is
  made for the one configuration (`FirstConfiguration`); and after a single change the
  directory stored before it is not the configured one (`SecondConfiguration`). `StartsEnd`
  (`EveryStartEnds`) is the part of `ReadyEventually` that needs no fairness: a start
  cannot go on for ever.

## 8. What is only model-checked, what is left out

Only model-checked: the liveness properties `RetriesConverge`, `RenewedUnlessBlocked`,
`UnusedRemovedEventually`, `ReadyEventually`, `NewestIsDeployed` and
`StopsAndStarts`, which are out of the prover's reach. Every invariant and every action
property that a run checks is also a theorem.

Not modelled:

- memory limits, environment variables, host names and registry credentials of the
  Docker client: they are part of the hash, or passed through;
- the text of the build script and of the Docker API: the steps bash and Docker take
  are modelled, and their failures;
- parsing of options and of the configuration file;
- the read-only endpoints and status queries (`GetProjectStatus`, `IsProjectRunning`,
  `FindAllProjects`, the listings of routes and certificates): they change nothing,
  and show any of the intermediate states of the others;
- the forwarded request itself, which is `net/http/httputil`;
- command line and API client, which are stateless (one HTTP request each), scripts,
  rendering of responses, logging;
- encodings: JSON values are stored and read back whole in one transaction, and no
  behaviour modelled here depends on their form;
- restarts of containers by the Docker daemon (`docker/client.go:140`), during which they
  count as running;
- duplicate names of services within one configuration, which `validate` lets pass:
  they share a container, image tags and volumes, and the models assume they do not
  occur.

## 9. Plan

Done, in this order: `Ingress` with `RouteTable`; `Docker` and `ContainerManager`;
`Certificates`; `AcmeAccount`; the proofs of the first, third and fourth; `Projects`
and its refinement by `ContainerManager`; `ContainerManagerProofs`; `Daemon`
and `Provisioning` and their proofs; `DeploymentProofs` and `ProjectsProofs`; `Coverage`
and its refinement by `Certificates`.

Next:

1. The safety core of the other liveness properties, as `StartsEnd` is for
   `ReadyEventually`: a measure of what a request, an order or a batch job has left to
   do, which every step of it lowers.
2. Routes and certificates together: mappings of domains that are not routed any more are
   never removed (`db/client.go:386`), so their certificates count as used for ever.
