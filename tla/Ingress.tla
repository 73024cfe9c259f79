------------------------------ MODULE Ingress -------------------------------
(***************************************************************************)
(* The ingress manager (src/manager/ingress.go) over the routes bucket of  *)
(* the database (src/manager/db/client.go).                                *)
(*                                                                         *)
(* Every HTTP request runs on a goroutine of its own and no lock is taken, *)
(* so a thread is interrupted between any two accesses to the database;    *)
(* one bbolt transaction is one step.  The order in which a loop visits    *)
(* the domains of a request is left open.  The certificate manager, which  *)
(* RegisterRoute calls last, is represented by the outcomes it can return. *)
(***************************************************************************)
EXTENDS FiniteSets

CONSTANTS
    Threads,         \* goroutines that serve requests
    Domains,         \* domain names
    Projects,        \* project names
    Services,        \* service names
    Endpoints,       \* host:port pairs a container can be published on
    NoEndpoint,      \* the empty TargetEndpoint
    Ingresses,       \* the types.Ingress values RegisterRoute is called with
    NoRoute,         \* marks a domain without an entry in the routes bucket
    None,            \* an argument that is not in use
    AcmeConfigured   \* whether the daemon was started with an ACME email

Ingress == [domains  : SUBSET Domains,
            project  : Projects,
            service  : Services,
            endpoint : Endpoints \cup {NoEndpoint}]

ASSUME IngressesAssumption ==
    /\ Ingresses \subseteq Ingress
    /\ {NoRoute, None} \cap Ingresses = {}
    /\ None \notin Projects
    /\ NoEndpoint \notin Endpoints
    /\ AcmeConfigured \in BOOLEAN

VARIABLES
    routes,     \* the routes bucket: domain -> types.Ingress
    ipc,        \* ipc[t]: where thread t is in the ingress manager
    ingress,    \* ingress[t]: the argument of RegisterRoute
    project,    \* project[t]: the argument of RemoveUnusedRoutes
    excluded,   \* excluded[t]: its excludedDomains
    todo        \* todo[t]: the domains its loop has yet to visit

ivars == <<routes, ipc, ingress, project, excluded, todo>>

\* "registered", "removed" and "failed" are the returns to the caller.
Returned == {"registered", "removed", "failed"}
Running == {"match", "certify", "remove"}

TypeOK ==
    /\ routes \in [Domains -> Ingresses \cup {NoRoute}]
    /\ ipc \in [Threads -> Returned \cup Running \cup {"idle"}]
    /\ ingress \in [Threads -> Ingresses \cup {None}]
    /\ project \in [Threads -> Projects \cup {None}]
    /\ excluded \in [Threads -> SUBSET Domains]
    /\ todo \in [Threads -> SUBSET Domains]

Init ==
    /\ routes = [d \in Domains |-> NoRoute]
    /\ ipc = [t \in Threads |-> "idle"]
    /\ ingress = [t \in Threads |-> None]
    /\ project = [t \in Threads |-> None]
    /\ excluded = [t \in Threads |-> {}]
    /\ todo = [t \in Threads |-> {}]

Goto(t, label) == ipc' = [ipc EXCEPT ![t] = label]

(***************************************************************************)
(* RegisterRoute                                                           *)
(***************************************************************************)

\* The route in place belongs to the service that asks for the domain.
SameOwner(route, ing) ==
    /\ route.project = ing.project
    /\ route.service = ing.service

\* Nothing to do for a service without domains; a service with domains
\* needs the endpoint of its container.
RegisterRoute(t, ing) ==
    /\ ipc[t] = "idle"
    /\ ingress' = [ingress EXCEPT ![t] = ing]
    /\ todo' = [todo EXCEPT ![t] = ing.domains]
    /\ Goto(t, IF ing.domains = {} THEN "registered"
               ELSE IF ing.endpoint = NoEndpoint THEN "failed"
               ELSE "match")
    /\ UNCHANGED <<routes, project, excluded>>

\* Mutant: only the project is compared.
MatchProjectOnly(t) ==
    /\ ipc[t] = "match"
    /\ \E d \in todo[t] :
          IF routes[d] = NoRoute \/ routes[d].project = ingress[t].project
          THEN /\ todo' = [todo EXCEPT ![t] = @ \ {d}]
               /\ UNCHANGED ipc
          ELSE /\ Goto(t, "failed")
               /\ UNCHANGED todo
    /\ UNCHANGED <<routes, ingress, project, excluded>>

\* One round of the loop over the domains: Match reads the entry of d.
MatchDomain(t) ==
    /\ ipc[t] = "match"
    /\ \E d \in todo[t] :
          IF routes[d] = NoRoute \/ SameOwner(routes[d], ingress[t])
          THEN /\ todo' = [todo EXCEPT ![t] = @ \ {d}]
               /\ UNCHANGED ipc
          ELSE /\ Goto(t, "failed")
               /\ UNCHANGED todo
    /\ UNCHANGED <<routes, ingress, project, excluded>>

\* Mutant: the routes are saved before every domain has been looked at.
SaveUnmatched(t) ==
    /\ ipc[t] = "match"
    /\ routes' = [d \in Domains |-> IF d \in ingress[t].domains
                                    THEN ingress[t] ELSE routes[d]]
    /\ Goto(t, "certify")
    /\ UNCHANGED <<ingress, project, excluded, todo>>

\* One transaction puts the same value under every domain of the ingress.
SaveIngressRoute(t) ==
    /\ ipc[t] = "match"
    /\ todo[t] = {}
    /\ routes' = [d \in Domains |-> IF d \in ingress[t].domains
                                    THEN ingress[t] ELSE routes[d]]
    /\ Goto(t, "certify")
    /\ UNCHANGED <<ingress, project, excluded, todo>>

\* HasValidCertificate, then ChallengeCreate when it does not hold.  The only
\* error a validated request can meet there is that ACME is not configured.
Certify(t) ==
    /\ ipc[t] = "certify"
    /\ \E valid \in BOOLEAN :
          Goto(t, IF valid \/ AcmeConfigured THEN "registered" ELSE "failed")
    /\ UNCHANGED <<routes, ingress, project, excluded, todo>>

(***************************************************************************)
(* RemoveUnusedRoutes, and RemoveAllRoutes when nothing is excluded        *)
(***************************************************************************)

\* Mutant: the list is not filtered by project.
AllRoutes(p) == {d \in Domains : routes[d] # NoRoute}

\* GetIngressRoutesByProject
RoutesOfProject(p) == {d \in Domains : routes[d] # NoRoute /\ routes[d].project = p}

\* The routes are listed once; the loop works on that list.
RemoveUnusedRoutes(t, p, excludedDomains) ==
    /\ ipc[t] = "idle"
    /\ project' = [project EXCEPT ![t] = p]
    /\ excluded' = [excluded EXCEPT ![t] = excludedDomains]
    /\ todo' = [todo EXCEPT ![t] = RoutesOfProject(p) \ excludedDomains]
    /\ Goto(t, "remove")
    /\ UNCHANGED <<routes, ingress>>

\* Mutant: an empty value is put instead of deleting the key.
BlankIngressRoute(t) ==
    /\ ipc[t] = "remove"
    /\ \E d \in todo[t] :
          /\ routes' = [routes EXCEPT ![d] = None]
          /\ todo' = [todo EXCEPT ![t] = @ \ {d}]
    /\ UNCHANGED <<ipc, ingress, project, excluded>>

\* One round of the loop: the entry of d is deleted, whatever it holds now.
RemoveIngressRoute(t) ==
    /\ ipc[t] = "remove"
    /\ \E d \in todo[t] :
          /\ routes' = [routes EXCEPT ![d] = NoRoute]
          /\ todo' = [todo EXCEPT ![t] = @ \ {d}]
    /\ UNCHANGED <<ipc, ingress, project, excluded>>

\* Mutant: the loop returns after one round.
RoutesRemovedEarly(t) ==
    /\ ipc[t] = "remove"
    /\ Goto(t, "removed")
    /\ UNCHANGED <<routes, ingress, project, excluded, todo>>

RoutesRemoved(t) ==
    /\ ipc[t] = "remove"
    /\ todo[t] = {}
    /\ Goto(t, "removed")
    /\ UNCHANGED <<routes, ingress, project, excluded, todo>>

(***************************************************************************)
(* Failures and the caller                                                 *)
(***************************************************************************)

\* The write transaction of SaveIngressRoute or RemoveIngressRoute fails and
\* is rolled back; its error goes to the caller.
DatabaseError(t) ==
    /\ \/ ipc[t] = "match" /\ todo[t] = {}
       \/ ipc[t] = "remove" /\ todo[t] # {}
    /\ Goto(t, "failed")
    /\ UNCHANGED <<routes, ingress, project, excluded, todo>>

\* The caller takes the result.
Return(t) ==
    /\ ipc[t] \in Returned
    /\ Goto(t, "idle")
    /\ ingress' = [ingress EXCEPT ![t] = None]
    /\ project' = [project EXCEPT ![t] = None]
    /\ excluded' = [excluded EXCEPT ![t] = {}]
    /\ todo' = [todo EXCEPT ![t] = {}]
    /\ UNCHANGED routes

\* The daemon dies and is started again: only the database survives.
Crash ==
    /\ ipc' = [t \in Threads |-> "idle"]
    /\ ingress' = [t \in Threads |-> None]
    /\ project' = [t \in Threads |-> None]
    /\ excluded' = [t \in Threads |-> {}]
    /\ todo' = [t \in Threads |-> {}]
    /\ UNCHANGED routes

Step(t) ==
    \/ MatchDomain(t) \/ SaveIngressRoute(t) \/ Certify(t)
    \/ RemoveIngressRoute(t) \/ RoutesRemoved(t)
    \/ DatabaseError(t)

Call(t) ==
    \/ \E ing \in Ingresses : RegisterRoute(t, ing)
    \/ \E p \in Projects, ds \in SUBSET Domains : RemoveUnusedRoutes(t, p, ds)

Next == (\E t \in Threads : Call(t) \/ Step(t) \/ Return(t)) \/ Crash

Spec == Init /\ [][Next]_ivars

\* Clients that never have two requests for one project under way.  Two calls
\* of one request follow each other.
Concerns(t, p) == project[t] = p \/ (ingress[t] # None /\ ingress[t].project = p)

Unserved(p) == \A t \in Threads : ~Concerns(t, p)

OrderlyCall(t) ==
    \/ \E ing \in Ingresses : Unserved(ing.project) /\ RegisterRoute(t, ing)
    \/ \E p \in Projects, ds \in SUBSET Domains :
          Unserved(p) /\ RemoveUnusedRoutes(t, p, ds)

OrderlyNext == (\E t \in Threads : OrderlyCall(t) \/ Step(t) \/ Return(t)) \/ Crash

OrderlySpec == Init /\ [][OrderlyNext]_ivars

(***************************************************************************)
(* Properties                                                              *)
(***************************************************************************)

\* Traffic for a domain never goes from one service to another without the
\* route being removed in between: RegisterRoute refuses a domain that is
\* linked to another project or service.
RouteNeverStolen ==
    [][\A d \in Domains :
          routes[d] # NoRoute /\ routes'[d] # NoRoute
             => SameOwner(routes[d], routes'[d])]_ivars

\* Thread t deletes the route of some domain in this step.
Deletes(t) == ipc[t] = "remove" /\ ipc'[t] = "remove" /\ todo'[t] # todo[t]

\* A removal on behalf of a project deletes routes of that project only, and
\* none of the domains the caller asked to keep: an apply does not interrupt
\* the traffic of other projects or of the services it leaves alone.
OnlyOwnRoutesRemoved ==
    [][\A t \in Threads, d \in Domains :
          Deletes(t) /\ routes[d] # NoRoute /\ routes'[d] # routes[d]
             => routes[d].project = project[t] /\ d \notin excluded[t]]_ivars

\* When RemoveUnusedRoutes returns without an error, the project has no route
\* left but those it was told to keep.
RemovalComplete ==
    \A t \in Threads : ipc[t] = "removed" => RoutesOfProject(project[t]) \subseteq excluded[t]

\* The routes bucket as an ownership table.
Owners == [project : Projects, service : Services]
OwnerOf(d) ==
    IF routes[d] = NoRoute THEN NoRoute
    ELSE [project |-> routes[d].project, service |-> routes[d].service]

Table == INSTANCE RouteTable
            WITH Free <- NoRoute, owner <- [d \in Domains |-> OwnerOf(d)]

\* The ingress manager implements the ownership table: domains are claimed
\* all together and only when free or owned already.
ImplementsRouteTable == Table!Spec
=============================================================================
