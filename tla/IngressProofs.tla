---------------------------- MODULE IngressProofs ---------------------------
(***************************************************************************)
(* Theorems about Ingress, for any sets of threads, domains, projects,     *)
(* services and ingresses.                                                 *)
(*                                                                         *)
(* The ingress manager takes no lock, so the claims about ownership need   *)
(* clients that never have two requests for one project under way, and one *)
(* of two conditions: requests are served one at a time altogether, or no  *)
(* two projects ever ask for the same domain.                              *)
(***************************************************************************)
EXTENDS Ingress, TLAPS

\* At most one request is served at a time.
Serial == \A t, u \in Threads : t = u

\* Ingresses that share a domain belong to one project.
Disjoint == \A i, j \in Ingresses : i.domains \cap j.domains # {} => i.project = j.project

(***************************************************************************)
(* Type correctness.  TypeOK is not inductive: SaveIngressRoute stores the *)
(* argument of the call, so that a thread past the checks of RegisterRoute *)
(* has an argument belongs to the invariant.                               *)
(***************************************************************************)
ArgumentsSet ==
    \A t \in Threads :
       /\ ipc[t] = "match" => ingress[t] \in Ingresses
       /\ ipc[t] = "remove" => project[t] \in Projects

TInv == TypeOK /\ ArgumentsSet

\* The variables start within their types.
LEMMA InitTInv == Init => TInv
BY DEF Init, TInv, TypeOK, ArgumentsSet, Returned, Running

\* Every step of a thread, a return and a crash keep them there.
LEMMA NextTInv == TInv /\ [Next]_ivars => TInv'
<1> SUFFICES ASSUME TInv, [Next]_ivars PROVE TInv'
  OBVIOUS
<1> USE IngressesAssumption DEF TInv, TypeOK, ArgumentsSet, Goto, Returned, Running
<1>1. ASSUME NEW t \in Threads, NEW ing \in Ingresses, RegisterRoute(t, ing)
      PROVE  TInv'
  <2>1. ing.domains \subseteq Domains
    BY DEF Ingress
  <2> QED BY <1>1, <2>1 DEF RegisterRoute
<1>2. ASSUME NEW t \in Threads, NEW p \in Projects, NEW ds \in SUBSET Domains,
             RemoveUnusedRoutes(t, p, ds)
      PROVE  TInv'
  BY <1>2 DEF RemoveUnusedRoutes, RoutesOfProject
<1>3. ASSUME NEW t \in Threads, MatchDomain(t) PROVE TInv'
  BY <1>3 DEF MatchDomain
<1>4. ASSUME NEW t \in Threads, SaveIngressRoute(t) PROVE TInv'
  BY <1>4 DEF SaveIngressRoute
<1>5. ASSUME NEW t \in Threads, Certify(t) PROVE TInv'
  BY <1>5 DEF Certify
<1>6. ASSUME NEW t \in Threads, RemoveIngressRoute(t) PROVE TInv'
  BY <1>6 DEF RemoveIngressRoute
<1>7. ASSUME NEW t \in Threads, RoutesRemoved(t) PROVE TInv'
  BY <1>7 DEF RoutesRemoved
<1>8. ASSUME NEW t \in Threads, DatabaseError(t) PROVE TInv'
  BY <1>8 DEF DatabaseError
<1>9. ASSUME NEW t \in Threads, Return(t) PROVE TInv'
  BY <1>9 DEF Return
<1>10. CASE Crash
  BY <1>10 DEF Crash
<1>11. CASE UNCHANGED ivars
  BY <1>11 DEF ivars
<1> QED BY <1>1, <1>2, <1>3, <1>4, <1>5, <1>6, <1>7, <1>8, <1>9, <1>10, <1>11
        DEF Next, Call, Step

\* The variables keep to their types, whatever the clients ask for and
\* however their threads interleave.
THEOREM TypeCorrect == Spec => []TypeOK
<1>1. TInv => TypeOK
  BY DEF TInv
<1> QED BY <1>1, InitTInv, NextTInv, PTL DEF Spec

(***************************************************************************)
(* Ownership.  Matched(t) is what makes the write of SaveIngressRoute safe *)
(* although the routes were read in earlier steps; Removing(t) does the    *)
(* same for the loop of RemoveUnusedRoutes over its stale list.            *)
(***************************************************************************)

\* The entry of a domain was put there by an ingress that lists the domain.
RouteListsDomain == \A d \in Domains : routes[d] # NoRoute => d \in routes[d].domains

\* What a thread has matched so far is still free or its own.
Matched(t) ==
    ipc[t] = "match" =>
        \A d \in ingress[t].domains \ todo[t] :
           routes[d] = NoRoute \/ SameOwner(routes[d], ingress[t])

\* The domain is one that some service of the project may ask for.
WantedBy(d, p) == \E i \in Ingresses : d \in i.domains /\ i.project = p

\* What a removal has yet to delete is a domain of its project that it was not
\* told to keep, and it is still free or a route of that project.
Removing(t) ==
    ipc[t] = "remove" =>
        \A d \in todo[t] :
           /\ d \notin excluded[t]
           /\ WantedBy(d, project[t])
           /\ routes[d] = NoRoute \/ routes[d].project = project[t]

IInv ==
    /\ TInv
    /\ RouteListsDomain
    /\ \A t \in Threads : Matched(t) /\ Removing(t)

\* No route exists at first and no call is under way.
LEMMA InitIInv == Init => IInv
BY InitTInv DEF Init, IInv, RouteListsDomain, Matched, Removing

\* A project is served by one thread at a time.
Exclusive == \A t, u \in Threads, p \in Projects : Concerns(t, p) /\ Concerns(u, p) => t = u

\* The orderly clients only leave out calls.
LEMMA OrderlyIsNext == OrderlyNext => Next
BY DEF OrderlyNext, OrderlyCall, Next, Call

\* A thread begins to work for a project when no other one does.
LEMMA NextExclusive == TInv /\ Exclusive /\ [OrderlyNext]_ivars => Exclusive'
<1> SUFFICES ASSUME TInv, Exclusive, [OrderlyNext]_ivars PROVE Exclusive'
  OBVIOUS
<1> USE IngressesAssumption DEF TInv, TypeOK, Exclusive, Concerns
<1>1. ASSUME NEW t \in Threads, NEW ing \in Ingresses, Unserved(ing.project),
             RegisterRoute(t, ing)
      PROVE  Exclusive'
  BY <1>1 DEF RegisterRoute, Unserved
<1>2. ASSUME NEW t \in Threads, NEW p \in Projects, NEW ds \in SUBSET Domains,
             Unserved(p), RemoveUnusedRoutes(t, p, ds)
      PROVE  Exclusive'
  BY <1>2 DEF RemoveUnusedRoutes, Unserved
<1>3. ASSUME NEW t \in Threads, Step(t) PROVE Exclusive'
  <2>1. UNCHANGED <<ingress, project>>
    BY <1>3 DEF Step, MatchDomain, SaveIngressRoute, Certify, RemoveIngressRoute,
                RoutesRemoved, DatabaseError
  <2> QED BY <2>1
<1>4. ASSUME NEW t \in Threads, Return(t) PROVE Exclusive'
  BY <1>4 DEF Return
<1>5. CASE Crash
  BY <1>5 DEF Crash
<1>6. CASE UNCHANGED ivars
  BY <1>6 DEF ivars
<1> QED BY <1>1, <1>2, <1>3, <1>4, <1>5, <1>6 DEF OrderlyNext, OrderlyCall

\* Under either condition, what the other threads have matched or listed stays
\* as it was.
LEMMA NextIInv ==
    ASSUME Serial \/ Disjoint PROVE IInv /\ Exclusive /\ [Next]_ivars => IInv'
<1> SUFFICES ASSUME IInv, Exclusive, [Next]_ivars PROVE IInv'
  OBVIOUS
<1>0. TInv' /\ TInv /\ TypeOK /\ TypeOK' /\ ArgumentsSet
  BY NextTInv DEF IInv, TInv
<1> DEFINE Rest == RouteListsDomain /\ \A u \in Threads : Matched(u) /\ Removing(u)
<1>a. \A i \in Ingresses : i.domains \subseteq Domains
  BY IngressesAssumption DEF Ingress
<1> SUFFICES Rest'
  BY <1>0 DEF IInv
<1> USE <1>0, <1>a, IngressesAssumption
        DEF IInv, TypeOK, ArgumentsSet, Goto, Returned, Running
<1>1. ASSUME NEW t \in Threads, NEW ing \in Ingresses, RegisterRoute(t, ing)
      PROVE  Rest'
  <2>1. RouteListsDomain'
    BY <1>1 DEF RegisterRoute, RouteListsDomain
  <2>2. ASSUME NEW u \in Threads PROVE Matched(u)'
    BY <1>1 DEF RegisterRoute, Matched, SameOwner
  <2>3. ASSUME NEW u \in Threads PROVE Removing(u)'
    BY <1>1 DEF RegisterRoute, Removing, WantedBy
  <2> QED BY <2>1, <2>2, <2>3
<1>2. ASSUME NEW t \in Threads, NEW p \in Projects, NEW ds \in SUBSET Domains,
             RemoveUnusedRoutes(t, p, ds)
      PROVE  Rest'
  <2>1. RouteListsDomain'
    BY <1>2 DEF RemoveUnusedRoutes, RouteListsDomain
  <2>2. ASSUME NEW u \in Threads PROVE Matched(u)'
    BY <1>2 DEF RemoveUnusedRoutes, Matched, SameOwner
  <2>3. ASSUME NEW u \in Threads PROVE Removing(u)'
    BY <1>2 DEF RemoveUnusedRoutes, RoutesOfProject, Removing, WantedBy, RouteListsDomain
  <2> QED BY <2>1, <2>2, <2>3
<1>3. ASSUME NEW t \in Threads, MatchDomain(t) PROVE Rest'
  <2>1. RouteListsDomain'
    BY <1>3 DEF MatchDomain, RouteListsDomain
  <2>2. ASSUME NEW u \in Threads PROVE Matched(u)'
    BY <1>3 DEF MatchDomain, Matched, SameOwner
  <2>3. ASSUME NEW u \in Threads PROVE Removing(u)'
    BY <1>3 DEF MatchDomain, Removing, WantedBy
  <2> QED BY <2>1, <2>2, <2>3
<1>4. ASSUME NEW t \in Threads, SaveIngressRoute(t) PROVE Rest'
  <2> DEFINE ing == ingress[t]
  <2>0. /\ ing \in Ingresses
        /\ ing.domains \subseteq Domains
        /\ \A d \in Domains : routes'[d] = IF d \in ing.domains THEN ing ELSE routes[d]
        /\ ipc' = [ipc EXCEPT ![t] = "certify"]
        /\ UNCHANGED <<ingress, project, excluded, todo>>
    BY <1>4 DEF SaveIngressRoute
  <2>1. RouteListsDomain'
    BY <2>0 DEF RouteListsDomain
  <2>2. CASE Serial
    BY <2>0, <2>1, <2>2 DEF Serial, Matched, Removing
  <2>3. CASE Disjoint
    <3>1. ASSUME NEW u \in Threads PROVE Matched(u)'
      <4> SUFFICES ASSUME ipc'[u] = "match", NEW d \in ingress[u].domains \ todo[u]
                   PROVE  routes'[d] = NoRoute \/ SameOwner(routes'[d], ingress[u])
        BY <2>0 DEF Matched, SameOwner
      <4>1. u # t /\ ingress[u] \in Ingresses /\ d \in Domains
        BY <2>0
      <4>2. d \notin ing.domains
        <5> SUFFICES ASSUME d \in ing.domains PROVE FALSE
          OBVIOUS
        <5>1. ingress[u].project = ing.project /\ ing.project \in Projects
          BY <2>0, <2>3, <4>1 DEF Disjoint, Ingress
        <5>2. Concerns(t, ing.project) /\ Concerns(u, ing.project)
          BY <2>0, <4>1, <5>1 DEF Concerns
        <5> QED BY <4>1, <5>1, <5>2 DEF Exclusive
      <4> QED BY <2>0, <4>1, <4>2 DEF Matched, SameOwner
    <3>2. ASSUME NEW u \in Threads PROVE Removing(u)'
      <4> SUFFICES ASSUME ipc'[u] = "remove", NEW d \in todo[u], d \in ing.domains
                   PROVE  ing.project = project[u]
        BY <2>0 DEF Removing, WantedBy
      <4>1. PICK i \in Ingresses : d \in i.domains /\ i.project = project[u]
        BY <2>0 DEF Removing, WantedBy
      <4> QED BY <2>0, <2>3, <4>1 DEF Disjoint
    <3> QED BY <2>1, <3>1, <3>2
  <2> QED BY <2>2, <2>3
<1>5. ASSUME NEW t \in Threads, Certify(t) PROVE Rest'
  BY <1>5 DEF Certify, RouteListsDomain, Matched, Removing, SameOwner, WantedBy
<1>6. ASSUME NEW t \in Threads, RemoveIngressRoute(t) PROVE Rest'
  <2>1. RouteListsDomain'
    BY <1>6 DEF RemoveIngressRoute, RouteListsDomain
  <2>2. ASSUME NEW u \in Threads PROVE Matched(u)'
    BY <1>6 DEF RemoveIngressRoute, Matched, SameOwner
  <2>3. ASSUME NEW u \in Threads PROVE Removing(u)'
    BY <1>6 DEF RemoveIngressRoute, Removing, WantedBy
  <2> QED BY <2>1, <2>2, <2>3
<1>7. ASSUME NEW t \in Threads, RoutesRemoved(t) PROVE Rest'
  BY <1>7 DEF RoutesRemoved, RouteListsDomain, Matched, Removing, SameOwner, WantedBy
<1>8. ASSUME NEW t \in Threads, DatabaseError(t) PROVE Rest'
  BY <1>8 DEF DatabaseError, RouteListsDomain, Matched, Removing, SameOwner, WantedBy
<1>9. ASSUME NEW t \in Threads, Return(t) PROVE Rest'
  BY <1>9 DEF Return, RouteListsDomain, Matched, Removing, SameOwner, WantedBy
<1>10. CASE Crash
  BY <1>10 DEF Crash, RouteListsDomain, Matched, Removing, SameOwner, WantedBy
<1>11. CASE UNCHANGED ivars
  BY <1>11 DEF ivars, RouteListsDomain, Matched, Removing, SameOwner, WantedBy
<1> QED BY <1>1, <1>2, <1>3, <1>4, <1>5, <1>6, <1>7, <1>8, <1>9, <1>10, <1>11
        DEF Next, Call, Step

\* Both invariants, under the orderly clients
OInv == IInv /\ Exclusive

LEMMA InitOInv == Init => OInv
<1>1. Init => Exclusive
  <2> SUFFICES ASSUME Init PROVE Exclusive
    OBVIOUS
  <2>1. \A t \in Threads : project[t] = None /\ ingress[t] = None
    BY DEF Init
  <2> QED BY <2>1, IngressesAssumption DEF Exclusive, Concerns
<1> QED BY <1>1, InitIInv DEF OInv

LEMMA NextOInv == ASSUME Serial \/ Disjoint PROVE OInv /\ [OrderlyNext]_ivars => OInv'
BY OrderlyIsNext, NextIInv, NextExclusive DEF OInv, IInv

\* Only the two writes to the bucket change a route; both act on what the
\* invariant says of the thread.
LEMMA RouteChanges ==
    ASSUME IInv, [Next]_ivars
    PROVE  \/ routes' = routes
           \/ \E t \in Threads :
                 /\ ipc[t] = "match" /\ todo[t] = {} /\ ingress[t] \in Ingresses
                 /\ SaveIngressRoute(t)
           \/ \E t \in Threads : ipc[t] = "remove" /\ RemoveIngressRoute(t)
BY DEF IInv, TInv, ArgumentsSet, Next, Call, Step, ivars, RegisterRoute, RemoveUnusedRoutes,
       MatchDomain, SaveIngressRoute, Certify, RemoveIngressRoute, RoutesRemoved,
       DatabaseError, Return, Crash

\* With orderly clients, and requests served one at a time or no domain wanted
\* by two projects, no service ever takes a domain from one that has it.
THEOREM NeverStolen == ASSUME Serial \/ Disjoint PROVE OrderlySpec => RouteNeverStolen
<1> DEFINE Kept == \A d \in Domains :
                      routes[d] # NoRoute /\ routes'[d] # NoRoute
                         => SameOwner(routes[d], routes'[d])
<1>1. IInv /\ [Next]_ivars => [Kept]_ivars
  <2> SUFFICES ASSUME IInv, [Next]_ivars PROVE Kept
    OBVIOUS
  <2>1. CASE routes' = routes
    BY <2>1 DEF SameOwner
  <2>2. ASSUME NEW t \in Threads, ipc[t] = "match", todo[t] = {}, SaveIngressRoute(t)
        PROVE  Kept
    BY <2>2 DEF SaveIngressRoute, IInv, Matched, SameOwner
  <2>3. ASSUME NEW t \in Threads, RemoveIngressRoute(t) PROVE Kept
    BY <2>3 DEF RemoveIngressRoute, IInv, TInv, TypeOK, SameOwner
  <2> QED BY <2>1, <2>2, <2>3, RouteChanges
<1>2. OInv /\ [OrderlyNext]_ivars => IInv /\ [Next]_ivars
  BY OrderlyIsNext DEF OInv
<1> QED BY <1>1, <1>2, InitOInv, NextOInv, PTL DEF OrderlySpec, RouteNeverStolen

\* Under the same condition a removal deletes the routes of its own project
\* only, and none that it was told to keep.
THEOREM OwnRemovals == ASSUME Serial \/ Disjoint PROVE OrderlySpec => OnlyOwnRoutesRemoved
<1> DEFINE Own == \A t \in Threads, d \in Domains :
                     Deletes(t) /\ routes[d] # NoRoute /\ routes'[d] # routes[d]
                        => routes[d].project = project[t] /\ d \notin excluded[t]
<1>1. IInv /\ [Next]_ivars => [Own]_ivars
  <2> SUFFICES ASSUME IInv, [Next]_ivars,
                      NEW t \in Threads, NEW d \in Domains,
                      Deletes(t), routes[d] # NoRoute, routes'[d] # routes[d]
               PROVE  routes[d].project = project[t] /\ d \notin excluded[t]
    OBVIOUS
  <2>1. ASSUME NEW u \in Threads, SaveIngressRoute(u) PROVE FALSE
    BY <2>1 DEF SaveIngressRoute, Deletes
  <2>2. ASSUME NEW u \in Threads, RemoveIngressRoute(u)
        PROVE  routes[d].project = project[t] /\ d \notin excluded[t]
    <3>1. u = t
      BY <2>2 DEF RemoveIngressRoute, Deletes
    <3>2. d \in todo[t]
      BY <2>2, <3>1 DEF RemoveIngressRoute, IInv, TInv, TypeOK
    <3> QED BY <3>2 DEF Deletes, IInv, Removing
  <2> QED BY <2>1, <2>2, RouteChanges
<1>2. OInv /\ [OrderlyNext]_ivars => IInv /\ [Next]_ivars
  BY OrderlyIsNext DEF OInv
<1> QED BY <1>1, <1>2, InitOInv, NextOInv, PTL DEF OrderlySpec, OnlyOwnRoutesRemoved

\* The ingress manager implements the ownership table under the same condition.
THEOREM Refinement == ASSUME Serial \/ Disjoint PROVE OrderlySpec => ImplementsRouteTable
<1> DEFINE owner == [d \in Domains |-> OwnerOf(d)]
<1>1. Init => Table!Init
  BY DEF Init, Table!Init, OwnerOf
<1>2. IInv /\ [Next]_ivars => [Table!Next]_owner
  <2> SUFFICES ASSUME IInv, [Next]_ivars PROVE Table!Next \/ owner' = owner
    OBVIOUS
  <2>1. CASE routes' = routes
    BY <2>1 DEF OwnerOf
  <2>2. ASSUME NEW t \in Threads, ipc[t] = "match", todo[t] = {},
               ingress[t] \in Ingresses, SaveIngressRoute(t)
        PROVE  Table!Next
    <3> DEFINE o == [project |-> ingress[t].project, service |-> ingress[t].service]
    <3>1. /\ o \in Owners
          /\ ingress[t].domains \in SUBSET Domains
          /\ ingress[t] # NoRoute
      BY <2>2, IngressesAssumption DEF Ingress, Owners
    <3>2. \A d \in ingress[t].domains : owner[d] \in {NoRoute, o}
      BY <2>2, <3>1 DEF IInv, Matched, SameOwner, OwnerOf
    <3>3. owner' = [d \in Domains |-> IF d \in ingress[t].domains THEN o ELSE owner[d]]
      BY <2>2, <3>1 DEF SaveIngressRoute, OwnerOf
    <3>4. Table!Claim(o, ingress[t].domains)
      BY <3>2, <3>3 DEF Table!Claim
    <3> QED BY <3>1, <3>4 DEF Table!Next
  <2>3. ASSUME NEW t \in Threads, RemoveIngressRoute(t) PROVE Table!Next
    <3>1. PICK d \in todo[t] : routes' = [routes EXCEPT ![d] = NoRoute]
      BY <2>3 DEF RemoveIngressRoute
    <3>2. d \in Domains
      BY DEF IInv, TInv, TypeOK
    <3>3. Table!Release(d)
      BY <3>1, <3>2 DEF Table!Release, OwnerOf, IInv, TInv, TypeOK
    <3> QED BY <3>2, <3>3 DEF Table!Next
  <2> QED BY <2>1, <2>2, <2>3, RouteChanges
<1>3. OInv /\ [OrderlyNext]_ivars => IInv /\ [Next]_ivars
  BY OrderlyIsNext DEF OInv
<1> QED BY <1>1, <1>2, <1>3, InitOInv, NextOInv, PTL
        DEF OrderlySpec, ImplementsRouteTable, Table!Spec

(***************************************************************************)
(* Completeness of a removal.  Another request of the same project could   *)
(* add a route behind the list the removal works on; one for another       *)
(* project can only make the project's routes fewer.  This one needs       *)
(* orderly clients and nothing else.                                       *)
(***************************************************************************)

\* The routes of the project that a removal should delete and has not deleted
\* yet are on its list.
Listed(t) ==
    /\ ipc[t] = "remove" => RoutesOfProject(project[t]) \subseteq excluded[t] \cup todo[t]
    /\ ipc[t] = "removed" => RoutesOfProject(project[t]) \subseteq excluded[t]

\* The thread of a removal has the project it was called with.
Named(t) == ipc[t] \in {"remove", "removed"} => project[t] \in Projects

RInv == TInv /\ Exclusive /\ \A t \in Threads : Named(t) /\ Listed(t)

LEMMA NextNamed ==
    ASSUME TInv, \A t \in Threads : Named(t), [Next]_ivars
    PROVE  \A t \in Threads : Named(t)'
<1> SUFFICES ASSUME NEW u \in Threads PROVE Named(u)'
  OBVIOUS
<1> USE DEF TInv, TypeOK, Named, Goto
<1>1. ASSUME NEW t \in Threads, Call(t) PROVE Named(u)'
  BY <1>1 DEF Call, RegisterRoute, RemoveUnusedRoutes
<1>2. ASSUME NEW t \in Threads, Step(t) PROVE Named(u)'
  BY <1>2 DEF Step, MatchDomain, SaveIngressRoute, Certify, RemoveIngressRoute, RoutesRemoved,
              DatabaseError
<1>3. ASSUME NEW t \in Threads, Return(t) PROVE Named(u)'
  BY <1>3 DEF Return
<1>4. CASE Crash
  BY <1>4 DEF Crash
<1>5. CASE UNCHANGED ivars
  BY <1>5 DEF ivars
<1> QED BY <1>1, <1>2, <1>3, <1>4, <1>5 DEF Next

\* With orderly clients a removal that returns without an error leaves the
\* project with no route but those it was told to keep.
THEOREM CompleteRemoval == OrderlySpec => []RemovalComplete
<1>1. Init => RInv
  BY InitTInv, InitOInv DEF Init, RInv, OInv, Named, Listed
<1>2. RInv /\ [OrderlyNext]_ivars => RInv'
  <2> SUFFICES ASSUME RInv, [Next]_ivars, NEW u \in Threads PROVE Listed(u)'
    BY OrderlyIsNext, NextTInv, NextExclusive, NextNamed DEF RInv
  <2>0. TInv /\ TypeOK /\ TypeOK' /\ ArgumentsSet /\ Listed(u) /\ Named(u)
    BY NextTInv DEF RInv, TInv
  <2> USE <2>0 DEF TypeOK, Listed, RoutesOfProject, Goto, Returned, Running
  <2>1. ASSUME NEW t \in Threads, NEW ing \in Ingresses, RegisterRoute(t, ing)
        PROVE  Listed(u)'
    BY <2>1 DEF RegisterRoute
  <2>2. ASSUME NEW t \in Threads, NEW p \in Projects, NEW ds \in SUBSET Domains,
               RemoveUnusedRoutes(t, p, ds)
        PROVE  Listed(u)'
    BY <2>2 DEF RemoveUnusedRoutes
  <2>3. ASSUME NEW t \in Threads, MatchDomain(t) PROVE Listed(u)'
    BY <2>3 DEF MatchDomain
  <2>4. ASSUME NEW t \in Threads, SaveIngressRoute(t) PROVE Listed(u)'
    <3> SUFFICES ASSUME ipc[u] \in {"remove", "removed"}
                 PROVE  RoutesOfProject(project[u])' \subseteq RoutesOfProject(project[u])
      BY <2>4 DEF SaveIngressRoute
    <3>1. ingress[t] \in Ingresses /\ ingress[t] # None /\ u # t
      BY <2>4, IngressesAssumption DEF SaveIngressRoute, ArgumentsSet
    <3>2. ingress[t].project # project[u]
      BY <3>1 DEF RInv, Exclusive, Concerns, Named
    <3> QED BY <2>4, <3>1, <3>2 DEF SaveIngressRoute
  <2>5. ASSUME NEW t \in Threads, Certify(t) PROVE Listed(u)'
    BY <2>5 DEF Certify
  <2>6. ASSUME NEW t \in Threads, RemoveIngressRoute(t) PROVE Listed(u)'
    BY <2>6 DEF RemoveIngressRoute
  <2>7. ASSUME NEW t \in Threads, RoutesRemoved(t) PROVE Listed(u)'
    BY <2>7 DEF RoutesRemoved
  <2>8. ASSUME NEW t \in Threads, DatabaseError(t) PROVE Listed(u)'
    BY <2>8 DEF DatabaseError
  <2>9. ASSUME NEW t \in Threads, Return(t) PROVE Listed(u)'
    BY <2>9 DEF Return
  <2>10. CASE Crash
    BY <2>10 DEF Crash
  <2>11. CASE UNCHANGED ivars
    BY <2>11 DEF ivars
  <2> QED BY <2>1, <2>2, <2>3, <2>4, <2>5, <2>6, <2>7, <2>8, <2>9, <2>10, <2>11
          DEF Next, Call, Step
<1>3. RInv => RemovalComplete
  BY DEF RInv, Listed, RemovalComplete
<1> QED BY <1>1, <1>2, <1>3, PTL DEF OrderlySpec
=============================================================================
