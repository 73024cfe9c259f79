---------------------------- MODULE DaemonProofs ----------------------------
(***************************************************************************)
(* Theorems about Daemon, for any sets of threads, visitors, domains and   *)
(* projects and any number of stops.                                       *)
(*                                                                         *)
(* What a request has read is worth something only while the database is   *)
(* open: reads of a closed one look empty.  The invariant therefore says   *)
(* what a request has achieved under the condition that the database is    *)
(* open, which it never becomes again in the life of a process.            *)
(***************************************************************************)
EXTENDS Daemon, TLAPS

\* Applied ingresses that share a domain belong to one project.
DomainsDiffer ==
    \A i, j \in Applies : i.domains \cap j.domains # {} => i.project = j.project

(***************************************************************************)
(* Where a request is, and where it is in the ingress manager              *)
(***************************************************************************)
Serves(t) ==
    /\ pc[t] = "idle" <=> request[t] = None
    /\ pc[t] \notin {"unrouting", "registering"} => ipc[t] = "idle"
    /\ pc[t] = "unrouting" => ipc[t] \in {"remove", "removed", "failed"}
    /\ pc[t] = "registering" =>
          ipc[t] \in {"match", "certify", "registered", "failed"} /\ ingress[t] = request[t]
    /\ pc[t] \in {"register", "registering", "save", "applied"} => IsApply(t)
    /\ pc[t] \in {"forget", "deleted"} => ~IsApply(t)

\* A daemon that is down serves nobody.
Quiet ==
    main = "down" =>
        /\ \A t \in Threads : pc[t] = "idle"
        /\ \A v \in Visitors : visit[v] = NoVisit
        /\ \A s \in Servers : server[s] = "starting"

TInv == TypeOK /\ Quiet /\ \A t \in Threads : Serves(t)

\* The daemon is down at first.
LEMMA InitTInv == Init => TInv
<1> SUFFICES ASSUME Init PROVE TInv
  OBVIOUS
<1>1. \A d \in DomainsOf(Bystanders) : BystanderOf(d) \in Ingresses
  BY DEF DomainsOf, BystanderOf, Bystanders
<1>2. Ing!TypeOK
  BY <1>1 DEF Init, Ing!TypeOK, Ing!Returned, Ing!Running
<1>3. known \in SUBSET Projects /\ certified \in SUBSET Domains
  BY AppliesAssumption DEF Init, DomainsOf, Bystanders, Ing!Ingress
<1>4. visit \in [Visitors -> Visit]
  BY DEF Init, Visit, NoVisit
<1>5. pc \in [Threads -> Labels] /\ request \in [Threads -> Applies \cup Projects \cup {None}]
  BY DEF Init, Labels
<1>6. stops \in 0 .. MaxStops
  BY AppliesAssumption DEF Init
<1>7. TypeOK
  BY <1>2, <1>3, <1>4, <1>5, <1>6 DEF Init, TypeOK
<1>8. Quiet
  BY DEF Init, Quiet
<1>9. ASSUME NEW t \in Threads PROVE Serves(t)
  BY DEF Init, Serves
<1> QED BY <1>7, <1>8, <1>9 DEF TInv

\* The end of a process forgets everything but the database.
LEMMA ExitKeepsTInv ==
    ASSUME TInv, Exit, stops' \in 0 .. MaxStops
    PROVE  TInv'
<1> USE DEF Exit, Ing!Crash
<1>1. Ing!TypeOK'
  BY DEF TInv, TypeOK, Ing!TypeOK, Ing!Returned, Ing!Running
<1>2. visit' \in [Visitors -> Visit]
  BY DEF Visit, NoVisit
<1>3. pc' \in [Threads -> Labels] /\ request' \in [Threads -> Applies \cup Projects \cup {None}]
  BY DEF Labels
<1>4. TypeOK'
  BY <1>1, <1>2, <1>3 DEF TInv, TypeOK
<1>5. Quiet'
  BY DEF Quiet
<1>6. ASSUME NEW t \in Threads PROVE Serves(t)'
  BY DEF Serves
<1> QED BY <1>4, <1>5, <1>6 DEF TInv

\* So do its other steps.
LEMMA ProcessKeepsTInv ==
    ASSUME TInv, ProcessStep \/ Signal \/ Crash \/ \E s \in Servers : ListenFails(s)
    PROVE  TInv'
<1>0. stops \in 0 .. MaxStops /\ MaxStops \in Nat
  BY AppliesAssumption DEF TInv, TypeOK
<1>1. Stop => stops' \in 0 .. MaxStops
  BY <1>0 DEF Stop
<1>2. CASE Exit /\ stops' \in 0 .. MaxStops
  BY <1>2, ExitKeepsTInv
<1>3. CASE ~(Exit /\ stops' \in 0 .. MaxStops)
  <2>1. UNCHANGED <<ivars, known, certified, calls, visit>>
    BY <1>0, <1>1, <1>3 DEF ProcessStep, Start, Return, CloseDatabase, Finish, Listen, Shutdown,
                            Signal, Crash, ListenFails
  <2>2. /\ main' \in {"down", "serving", "returned", "closed"}
        /\ ctxDone' \in BOOLEAN
        /\ server' \in [Servers -> {"starting", "listening", "shut"}]
        /\ main' # "down" \/ Quiet'
    BY <1>0, <1>1, <1>3 DEF ProcessStep, Start, Return, CloseDatabase, Finish, Listen, Shutdown,
                            Signal, Crash, ListenFails, TInv, TypeOK, Up
  <2>3. stops' \in 0 .. MaxStops
    BY <1>0, <1>1, <1>3 DEF ProcessStep, Start, Return, CloseDatabase, Finish, Listen, Shutdown,
                            Signal, Crash, ListenFails
  <2>4. TypeOK'
    BY <2>1, <2>2, <2>3 DEF TInv, TypeOK, ivars, calls, Ing!TypeOK, Ing!Returned, Ing!Running
  <2>5. Quiet'
    BY <2>2 DEF Quiet
  <2>6. ASSUME NEW t \in Threads PROVE Serves(t)'
    BY <2>1 DEF TInv, Serves, ivars, calls, IsApply
  <2> QED BY <2>4, <2>5, <2>6 DEF TInv
<1> QED BY <1>2, <1>3

\* Visitors only touch their own state.
LEMMA VisitKeepsTInv ==
    ASSUME TInv, NEW v \in Visitors, VisitStep(v)
    PROVE  TInv'
<1>1. UNCHANGED <<ivars, life, known, certified, calls>>
  BY DEF VisitStep, Redirect, Connect, GetCertificate, Match, Answered
<1>2. visit' \in [Visitors -> Visit] /\ \A w \in Visitors \ {v} : visit'[w] = visit[w]
  <2>0. /\ visit \in [Visitors -> Visit]
        /\ routes \in [Domains -> Ingresses \cup {NoRoute}]
        /\ Ingresses \subseteq Ing!Ingress
    BY AppliesAssumption DEF TInv, TypeOK, Ing!TypeOK
  <2>1. CASE \E d \in Domains : Redirect(v, d) \/ Connect(v, d)
    <3>1. PICK d \in Domains : Redirect(v, d) \/ Connect(v, d)
      BY <2>1
    <3>2. \A label \in {"redirected", "handshake"} :
             [NoVisit EXCEPT !.at = label, !.domain = d] \in Visit
      BY DEF NoVisit, Visit
    <3> QED BY <2>0, <3>1, <3>2 DEF Redirect, Connect
  <2>2. CASE GetCertificate(v)
    <3>1. \A c \in {"stored", "selfSigned"} :
             [visit[v] EXCEPT !.at = "match", !.certificate = c] \in Visit
      BY <2>0 DEF Visit
    <3>2. \E c \in {"stored", "selfSigned"} :
             visit' = [visit EXCEPT ![v] = [@ EXCEPT !.at = "match", !.certificate = c]]
      BY <2>0, <2>2 DEF GetCertificate
    <3> QED BY <2>0, <3>1, <3>2
  <2>3. CASE Match(v)
    BY <2>0, <2>3 DEF Match, Visit, Go, Ing!Ingress
  <2>4. CASE Answered(v)
    BY <2>0, <2>4 DEF Answered, Visit, NoVisit
  <2> QED BY <2>1, <2>2, <2>3, <2>4 DEF VisitStep
<1>3. main # "down"
  <2> SUFFICES ASSUME main = "down" PROVE FALSE
    OBVIOUS
  <2>1. visit[v].at = "none" /\ \A s \in Servers : server[s] = "starting"
    BY DEF TInv, Quiet, NoVisit
  <2> QED BY <2>1 DEF VisitStep, Redirect, Connect, GetCertificate, Match, Answered, Servers
<1>4. TypeOK'
  BY <1>1, <1>2 DEF TInv, TypeOK, ivars, life, calls, Ing!TypeOK, Ing!Returned, Ing!Running
<1>5. Quiet'
  BY <1>1, <1>3 DEF Quiet, life
<1>6. ASSUME NEW t \in Threads PROVE Serves(t)'
  BY <1>1 DEF TInv, Serves, ivars, calls, IsApply
<1> QED BY <1>4, <1>5, <1>6 DEF TInv

\* The steps inside the ingress manager keep its types and the place of their
\* request in it.
LEMMA IngressStepKeepsTInv ==
    ASSUME TInv, NEW t \in Threads, IngressStep(t)
    PROVE  /\ Ing!TypeOK'
           /\ \A u \in Threads : Serves(u)'
           /\ \A u \in Threads \ {t} :
                 ipc'[u] = ipc[u] /\ ingress'[u] = ingress[u] /\ todo'[u] = todo[u]
<1> DEFINE Goal == /\ Ing!TypeOK'
                   /\ \A u \in Threads : Serves(u)'
                   /\ \A u \in Threads \ {t} :
                         ipc'[u] = ipc[u] /\ ingress'[u] = ingress[u] /\ todo'[u] = todo[u]
<1>0. /\ Ing!TypeOK
      /\ \A u \in Threads : Serves(u)
      /\ UNCHANGED <<pc, request>>
  BY DEF TInv, TypeOK, IngressStep, calls
<1> USE <1>0 DEF Ing!TypeOK, Ing!Goto, Ing!Returned, Ing!Running, Serves, IsApply
<1>1. CASE Ing!MatchDomain(t)
  BY <1>1 DEF Ing!MatchDomain
<1>2. CASE MatchNothing(t)
  BY <1>2 DEF MatchNothing
<1>3. CASE Ing!SaveIngressRoute(t)
  <2>1. ingress[t] \in Ingresses
    BY <1>3, AppliesAssumption DEF Ing!SaveIngressRoute
  <2> QED BY <1>3, <2>1 DEF Ing!SaveIngressRoute
<1>4. CASE Ing!RemoveIngressRoute(t)
  BY <1>4 DEF Ing!RemoveIngressRoute
<1>5. CASE Ing!DatabaseError(t)
  BY <1>5 DEF Ing!DatabaseError
<1>6. CASE Ing!Certify(t)
  BY <1>6 DEF Ing!Certify
<1>7. CASE Ing!RoutesRemoved(t)
  BY <1>7 DEF Ing!RoutesRemoved
<1> QED BY <1>1, <1>2, <1>3, <1>4, <1>5, <1>6, <1>7 DEF IngressStep

\* So do the calls of the ingress manager and their returns, and what a request
\* does before and after them.
LEMMA CallsKeepTInv ==
    ASSUME TInv, NEW t \in Threads,
           \/ Client(t) \/ RemoveUnusedRoutes(t) \/ UnusedRoutesRemoved(t) \/ RegisterRoute(t)
           \/ RouteRegistered(t) \/ SaveProject(t) \/ RemoveProject(t) \/ Reply(t)
    PROVE  /\ Ing!TypeOK'
           /\ pc' \in [Threads -> Labels]
           /\ request' \in [Threads -> Applies \cup Projects \cup {None}]
           /\ \A u \in Threads : Serves(u)'
           /\ \A u \in Threads \ {t} :
                 /\ pc'[u] = pc[u] /\ request'[u] = request[u]
                 /\ ipc'[u] = ipc[u] /\ ingress'[u] = ingress[u] /\ todo'[u] = todo[u]
<1>0. /\ Ing!TypeOK
      /\ \A u \in Threads : Serves(u)
      /\ pc \in [Threads -> Labels]
      /\ request \in [Threads -> Applies \cup Projects \cup {None}]
  BY DEF TInv, TypeOK
<1>a. /\ \A ing \in Applies : /\ ing \in Ingresses /\ ing # None /\ ing \notin Projects
                              /\ ing.project \in Projects /\ ing.domains \subseteq Domains
      /\ None \notin Projects
  BY AppliesAssumption DEF Ing!Ingress
<1> USE <1>0, <1>a DEF Ing!TypeOK, Ing!Goto, Ing!Returned, Ing!Running, Serves, IsApply,
                       At, Goto, Labels, ivars
<1>1. CASE Client(t)
  BY <1>1 DEF Client, Apply, Delete
<1>2. CASE RemoveUnusedRoutes(t)
  <2>1. ProjectOf(t) \in Projects /\ KeptDomains(t) \subseteq Domains
    BY <1>2 DEF RemoveUnusedRoutes, ProjectOf, KeptDomains
  <2>2. CASE Ing!RemoveUnusedRoutes(t, ProjectOf(t), KeptDomains(t))
    BY <1>2, <2>1, <2>2 DEF RemoveUnusedRoutes, Ing!RemoveUnusedRoutes, Ing!RoutesOfProject
  <2>3. CASE NothingToRemove(t)
    BY <1>2, <2>1, <2>3 DEF RemoveUnusedRoutes, NothingToRemove
  <2> QED BY <1>2, <2>2, <2>3 DEF RemoveUnusedRoutes
<1>3. CASE UnusedRoutesRemoved(t)
  BY <1>3 DEF UnusedRoutesRemoved, Ing!Return
<1>4. CASE RegisterRoute(t)
  BY <1>4 DEF RegisterRoute, Ing!RegisterRoute
<1>5. CASE RouteRegistered(t)
  BY <1>5 DEF RouteRegistered, Ing!Return
<1>6. CASE SaveProject(t) \/ RemoveProject(t) \/ Reply(t)
  BY <1>6 DEF SaveProject, RemoveProject, Reply
<1> QED BY <1>1, <1>2, <1>3, <1>4, <1>5, <1>6

\* The project of a request, and the domains it may have
LEMMA RequestTypes ==
    ASSUME TInv, NEW t \in Threads, request[t] # None
    PROVE  ProjectOf(t) \in Projects /\ KeptDomains(t) \subseteq Domains
BY AppliesAssumption DEF TInv, TypeOK, ProjectOf, KeptDomains, IsApply, Ing!Ingress

\* A request changes neither the process nor the visits.
LEMMA RequestKeepsTInv ==
    ASSUME TInv, NEW t \in Threads, Client(t) \/ RequestStep(t)
    PROVE  /\ TInv'
           /\ UNCHANGED <<life, certified, visit>>
           /\ \A u \in Threads \ {t} :
                 /\ pc'[u] = pc[u] /\ request'[u] = request[u]
                 /\ ipc'[u] = ipc[u] /\ ingress'[u] = ingress[u] /\ todo'[u] = todo[u]
<1>1. UNCHANGED <<life, certified, visit>>
  BY DEF Client, Apply, Delete, RequestStep, RemoveUnusedRoutes, UnusedRoutesRemoved,
         RegisterRoute, RouteRegistered, SaveProject, RemoveProject, Reply, IngressStep
<1>2. /\ Ing!TypeOK'
      /\ pc' \in [Threads -> Labels]
      /\ request' \in [Threads -> Applies \cup Projects \cup {None}]
      /\ \A u \in Threads : Serves(u)'
      /\ \A u \in Threads \ {t} :
            /\ pc'[u] = pc[u] /\ request'[u] = request[u]
            /\ ipc'[u] = ipc[u] /\ ingress'[u] = ingress[u] /\ todo'[u] = todo[u]
  <2>1. CASE IngressStep(t)
    <3>1. UNCHANGED <<pc, request>>
      BY <2>1 DEF IngressStep, calls
    <3> QED BY <2>1, <3>1, IngressStepKeepsTInv DEF TInv, TypeOK
  <2>2. CASE ~IngressStep(t)
    BY <2>2, CallsKeepTInv DEF RequestStep
  <2> QED BY <2>1, <2>2
<1>3. known' \in SUBSET Projects
  <2>1. SaveProject(t) => request[t] # None
    BY DEF SaveProject, At, TInv, Serves
  <2>2. CASE SaveProject(t)
    BY <2>1, <2>2, RequestTypes DEF SaveProject, TInv, TypeOK
  <2>3. CASE RemoveProject(t)
    BY <2>3 DEF RemoveProject, TInv, TypeOK
  <2>4. CASE ~SaveProject(t) /\ ~RemoveProject(t)
    <3>1. UNCHANGED known
      BY <2>4 DEF Client, Apply, Delete, RequestStep, RemoveUnusedRoutes, UnusedRoutesRemoved,
                  RegisterRoute, RouteRegistered, Reply, IngressStep
    <3> QED BY <3>1 DEF TInv, TypeOK
  <2> QED BY <2>2, <2>3, <2>4
<1>4. main # "down"
  <2> SUFFICES ASSUME main = "down" PROVE FALSE
    OBVIOUS
  <2>1. pc[t] = "idle" /\ ipc[t] = "idle" /\ server["management"] = "starting"
    BY DEF TInv, Quiet, Serves, Servers
  <2>2. ~Client(t)
    BY <2>1 DEF Client, Apply, Delete
  <2>3. ~IngressStep(t)
    BY <2>1 DEF IngressStep, MatchNothing, Ing!MatchDomain, Ing!SaveIngressRoute,
                Ing!RemoveIngressRoute, Ing!DatabaseError, Ing!Certify, Ing!RoutesRemoved
  <2> QED BY <2>1, <2>2, <2>3 DEF RequestStep, RemoveUnusedRoutes, UnusedRoutesRemoved,
             RegisterRoute, RouteRegistered, SaveProject, RemoveProject, Reply, At
<1>5. TypeOK'
  BY <1>1, <1>2, <1>3 DEF TInv, TypeOK, life
<1>6. Quiet'
  BY <1>1, <1>4 DEF Quiet, life
<1> QED BY <1>1, <1>2, <1>5, <1>6 DEF TInv

\* Every step keeps the invariant.
LEMMA NextTInv == TInv /\ [Next]_vars => TInv'
<1> SUFFICES ASSUME TInv, [Next]_vars PROVE TInv'
  OBVIOUS
<1>1. ASSUME NEW t \in Threads, Client(t) \/ RequestStep(t) PROVE TInv'
  BY <1>1, RequestKeepsTInv
<1>2. ASSUME NEW v \in Visitors, VisitStep(v) PROVE TInv'
  BY <1>2, VisitKeepsTInv
<1>3. ASSUME NEW d \in Domains, SetCertificate(d) PROVE TInv'
  <2>1. UNCHANGED <<ivars, life, known, calls, visit>> /\ certified' \in SUBSET Domains
    BY <1>3 DEF SetCertificate, TInv, TypeOK
  <2>2. TypeOK'
    BY <2>1 DEF TInv, TypeOK, ivars, life, calls, Ing!TypeOK, Ing!Returned, Ing!Running
  <2> QED BY <2>1, <2>2 DEF TInv, Quiet, Serves, ivars, life, calls, IsApply
<1>4. CASE UNCHANGED vars
  BY <1>4 DEF vars, TInv, TypeOK, Quiet, Serves, ivars, life, calls, IsApply, Ing!TypeOK,
              Ing!Returned, Ing!Running
<1> QED BY <1>1, <1>2, <1>3, <1>4, ProcessKeepsTInv DEF Next

\* The variables keep to their types, through every stop and start.
THEOREM TypeCorrect == Spec => []TypeOK
<1>1. TInv => TypeOK
  BY DEF TInv
<1> QED BY <1>1, InitTInv, NextTInv, PTL DEF Spec

(***************************************************************************)
(* What a request has achieved                                             *)
(***************************************************************************)
Mine(t) == Ing!RoutesOfProject(ProjectOf(t))

\* Requests under way are for different projects, all of them among those that
\* clients apply.
Exclusive ==
    /\ \A t, u \in Threads :
          request[t] # None /\ request[u] # None /\ ProjectOf(t) = ProjectOf(u) => t = u
    /\ \A t \in Threads :
          request[t] # None => \E ing \in Applies : ing.project = ProjectOf(t)

\* What has been looked at is free or the service's own.
Matched(t) ==
    pc[t] = "registering" /\ ipc[t] = "match" =>
        \A d \in request[t].domains \ todo[t] :
           routes[d] = NoRoute \/ Ing!SameOwner(routes[d], request[t])

Unused(t) == pc[t] = "unrouting" /\ ipc[t] = "removed"
Registering(t) == pc[t] = "register" \/ (pc[t] = "registering" /\ ipc[t] = "match")
Registered(t) ==
    pc[t] = "save" \/ (pc[t] = "registering" /\ ipc[t] \in {"certify", "registered"})

Progress(t) ==
    /\ pc[t] = "unrouting" /\ ipc[t] = "remove" =>
          todo[t] \subseteq Mine(t) /\ Mine(t) \subseteq KeptDomains(t) \cup todo[t]
    /\ Unused(t) \/ Registering(t) => Mine(t) \subseteq KeptDomains(t)
    /\ pc[t] = "forget" => Mine(t) = {}
    /\ Registered(t) => Mine(t) = KeptDomains(t)

Learned(t) == DatabaseOpen => Matched(t) /\ Progress(t)

Reported(t) ==
    /\ pc[t] = "applied" => ProjectOf(t) \in known /\ Mine(t) = KeptDomains(t)
    /\ pc[t] = "deleted" => ProjectOf(t) \notin known /\ Mine(t) = {}

DInv == TInv /\ Exclusive /\ \A t \in Threads : Learned(t) /\ Reported(t)

\* The daemon is down at first.
LEMMA InitDInv == Init => DInv
<1> SUFFICES ASSUME Init PROVE DInv
  OBVIOUS
<1>1. Exclusive
  BY DEF Init, Exclusive
<1>2. ASSUME NEW t \in Threads PROVE Learned(t) /\ Reported(t)
  BY DEF Init, Learned, Reported, DatabaseOpen
<1> QED BY <1>1, <1>2, InitTInv DEF DInv

\* A request changes routes by the two writes of the ingress manager only, and
\* only while the database is open.
Saves(t) ==
    /\ DatabaseOpen
    /\ pc[t] = "registering" /\ ipc[t] = "match" /\ todo[t] = {} /\ request[t] \in Applies
    /\ routes' = [d \in Domains |-> IF d \in request[t].domains THEN request[t] ELSE routes[d]]

Removes(t) ==
    /\ DatabaseOpen
    /\ pc[t] = "unrouting" /\ ipc[t] = "remove"
    /\ \E d \in todo[t] :
          routes' = [routes EXCEPT ![d] = NoRoute] /\ todo'[t] = todo[t] \ {d}

LEMMA RouteChanges ==
    ASSUME TInv, NEW t \in Threads, Client(t) \/ RequestStep(t), ~UNCHANGED routes
    PROVE  Saves(t) \/ Removes(t)
<1>0. Serves(t) /\ todo \in [Threads -> SUBSET Domains]
  BY DEF TInv, TypeOK, Ing!TypeOK
<1>1. IngressStep(t)
  <2>1. ~Client(t)
    BY DEF Client, Apply, Delete, ivars
  <2>2. ~RemoveUnusedRoutes(t) /\ ~UnusedRoutesRemoved(t) /\ ~RegisterRoute(t)
    BY DEF RemoveUnusedRoutes, UnusedRoutesRemoved, RegisterRoute, Ing!RemoveUnusedRoutes,
           NothingToRemove, Ing!Return, Ing!RegisterRoute
  <2>3. ~RouteRegistered(t) /\ ~SaveProject(t) /\ ~RemoveProject(t) /\ ~Reply(t)
    BY DEF RouteRegistered, SaveProject, RemoveProject, Reply, Ing!Return, ivars
  <2> QED BY <2>1, <2>2, <2>3 DEF RequestStep
<1>2. CASE DatabaseOpen /\ Ing!SaveIngressRoute(t)
  BY <1>0, <1>2 DEF Ing!SaveIngressRoute, Saves, Serves, IsApply
<1>3. CASE DatabaseOpen /\ Ing!RemoveIngressRoute(t)
  <2>1. pc[t] = "unrouting" /\ ipc[t] = "remove"
    BY <1>0, <1>3 DEF Ing!RemoveIngressRoute, Serves
  <2> QED BY <1>0, <1>3, <2>1 DEF Ing!RemoveIngressRoute, Removes
<1> QED BY <1>1, <1>2, <1>3 DEF IngressStep, Ing!MatchDomain, MatchNothing, Ing!DatabaseError,
           Ing!Certify, Ing!RoutesRemoved

\* Neither of them touches the routes of another project, or takes a domain
\* from a service that has it.
LEMMA OwnRoutes ==
    ASSUME DInv, NEW t \in Threads, Saves(t) \/ Removes(t)
    PROVE  /\ request[t] # None
           /\ \A q : q # ProjectOf(t) => Ing!RoutesOfProject(q)' = Ing!RoutesOfProject(q)
           /\ \A d \in Domains :
                 routes[d] # NoRoute /\ routes'[d] # NoRoute
                    => Ing!SameOwner(routes[d], routes'[d])
           /\ \A d \in Domains :
                 routes'[d] # routes[d] /\ routes[d] # NoRoute => routes[d].project = ProjectOf(t)
<1>0. Serves(t) /\ Learned(t) /\ routes \in [Domains -> Ingresses \cup {NoRoute}]
  BY DEF DInv, TInv, TypeOK, Ing!TypeOK
<1>1. CASE Saves(t)
  <2>1. /\ request[t] # None /\ ProjectOf(t) = request[t].project
        /\ \A d \in request[t].domains :
              routes[d] = NoRoute \/ Ing!SameOwner(routes[d], request[t])
    BY <1>0, <1>1, AppliesAssumption DEF Saves, Learned, Matched, ProjectOf, IsApply
  <2> QED BY <1>0, <1>1, <2>1 DEF Saves, Ing!RoutesOfProject, Ing!SameOwner
<1>2. CASE Removes(t)
  <2>1. request[t] # None /\ todo[t] \subseteq Mine(t)
    BY <1>0, <1>2 DEF Removes, Learned, Progress, Serves
  <2> QED BY <1>0, <1>2, <2>1 DEF Removes, Mine, Ing!RoutesOfProject, Ing!SameOwner
<1> QED BY <1>1, <1>2

\* A request begins when there is no other one for its project.
LEMMA RequestKeepsExclusive ==
    ASSUME DInv, NEW t \in Threads, Client(t) \/ RequestStep(t)
    PROVE  Exclusive'
<1>0. Exclusive /\ request \in [Threads -> Applies \cup Projects \cup {None}]
  BY DEF DInv, TInv, TypeOK
<1> USE <1>0 DEF Exclusive, ProjectOf, IsApply
<1>1. CASE Client(t)
  BY <1>1, AppliesAssumption DEF Client, Apply, Delete, Unserved, Ing!Ingress
<1>2. CASE Reply(t)
  BY <1>2 DEF Reply
<1>3. CASE UNCHANGED request
  BY <1>3
<1> QED BY <1>1, <1>2, <1>3 DEF RequestStep, RemoveUnusedRoutes, UnusedRoutesRemoved,
           RegisterRoute, RouteRegistered, SaveProject, RemoveProject, IngressStep, calls

\* What another request has learned and reported stays true.
LEMMA OthersKept ==
    ASSUME DomainsDiffer, DInv, NEW t \in Threads, Client(t) \/ RequestStep(t),
           NEW u \in Threads, u # t
    PROVE  Learned(u)' /\ Reported(u)'
<1>0. /\ pc'[u] = pc[u] /\ request'[u] = request[u]
      /\ ipc'[u] = ipc[u] /\ todo'[u] = todo[u]
      /\ UNCHANGED <<main, server>>
  BY RequestKeepsTInv DEF DInv, life
<1>1. Serves(u) /\ Learned(u) /\ Reported(u) /\ Exclusive /\ (DatabaseOpen' <=> DatabaseOpen)
  BY <1>0 DEF DInv, TInv, DatabaseOpen
<1>2. CASE request[u] = None
  BY <1>0, <1>1, <1>2 DEF Serves, Learned, Reported, Matched, Progress, Unused, Registering,
                          Registered
<1>3. CASE request[u] # None
  <2>1. /\ ProjectOf(u)' = ProjectOf(u) /\ KeptDomains(u)' = KeptDomains(u)
        /\ request[t] # None => ProjectOf(t) # ProjectOf(u)
    BY <1>0, <1>1, <1>3 DEF ProjectOf, KeptDomains, IsApply, Exclusive
  <2>2. Mine(u)' = Mine(u)
    <3>1. CASE UNCHANGED routes
      BY <2>1, <3>1 DEF Mine, Ing!RoutesOfProject
    <3>2. CASE ~UNCHANGED routes
      <4>1. Saves(t) \/ Removes(t)
        BY <3>2, RouteChanges DEF DInv
      <4>2. /\ request[t] # None
            /\ Ing!RoutesOfProject(ProjectOf(u))' = Ing!RoutesOfProject(ProjectOf(u))
        BY <2>1, <4>1, OwnRoutes
      <4> QED BY <2>1, <4>2 DEF Mine, Ing!RoutesOfProject
    <3> QED BY <3>1, <3>2
  <2>3. ProjectOf(u) \in known' <=> ProjectOf(u) \in known
    <3>1. CASE SaveProject(t) \/ RemoveProject(t)
      <4>1. request[t] # None
        BY <3>1 DEF SaveProject, RemoveProject, At, DInv, TInv, Serves
      <4> QED BY <2>1, <3>1, <4>1 DEF SaveProject, RemoveProject
    <3>2. CASE ~SaveProject(t) /\ ~RemoveProject(t)
      BY <3>2 DEF Client, Apply, Delete, RequestStep, RemoveUnusedRoutes, UnusedRoutesRemoved,
                  RegisterRoute, RouteRegistered, Reply, IngressStep
    <3> QED BY <3>1, <3>2
  <2>4. Reported(u)'
    BY <1>0, <1>1, <2>1, <2>2, <2>3 DEF Reported
  <2>5. DatabaseOpen => Progress(u)'
    BY <1>0, <1>1, <2>1, <2>2 DEF Learned, Progress, Unused, Registering, Registered
  <2>6. DatabaseOpen => Matched(u)'
    <3> SUFFICES ASSUME DatabaseOpen, pc[u] = "registering", ipc[u] = "match",
                        NEW d \in request[u].domains \ todo[u]
                 PROVE  routes'[d] = NoRoute \/ Ing!SameOwner(routes'[d], request[u])
      BY <1>0 DEF Matched, Ing!SameOwner
    <3>0. request[u] \in Applies /\ d \in Domains
      BY <1>1, AppliesAssumption DEF Serves, IsApply, Ing!Ingress
    <3>1. routes[d] = NoRoute \/ Ing!SameOwner(routes[d], request[u])
      BY <1>1 DEF Learned, Matched
    <3>2. CASE UNCHANGED routes
      BY <3>1, <3>2
    <3>3. CASE Removes(t)
      BY <3>0, <3>1, <3>3 DEF Removes, DInv, TInv, TypeOK, Ing!TypeOK
    <3>4. CASE Saves(t)
      <4>1. d \notin request[t].domains
        <5> SUFFICES ASSUME d \in request[t].domains PROVE FALSE
          OBVIOUS
        <5>1. request[t] \in Applies /\ request[t].project = request[u].project
          BY <3>0, <3>4 DEF Saves, DomainsDiffer
        <5>2. ProjectOf(t) = ProjectOf(u) /\ request[t] # None
          BY <3>0, <5>1, AppliesAssumption DEF ProjectOf, IsApply
        <5> QED BY <2>1, <5>2
      <4> QED BY <3>0, <3>1, <3>4, <4>1 DEF Saves
    <3> QED BY <3>2, <3>3, <3>4, RouteChanges DEF DInv
  <2> QED BY <1>1, <2>4, <2>5, <2>6 DEF Learned
<1> QED BY <1>2, <1>3

\* A step inside the ingress manager: the domains looked at are free or its own,
\* the list holds what is left to remove, and the write puts all in place.
LEMMA IngressStepProgress ==
    ASSUME DInv, NEW t \in Threads, IngressStep(t)
    PROVE  Learned(t)' /\ Reported(t)'
<1>0. /\ Serves(t) /\ Learned(t) /\ Reported(t) /\ TypeOK /\ Ing!TypeOK
      /\ UNCHANGED <<pc, request, main, known>>
      /\ ProjectOf(t)' = ProjectOf(t) /\ KeptDomains(t)' = KeptDomains(t)
      /\ DatabaseOpen' <=> DatabaseOpen
  BY DEF DInv, TInv, TypeOK, IngressStep, calls, life, ProjectOf, KeptDomains, IsApply,
         DatabaseOpen
<1>1. pc[t] \in {"unrouting", "registering"}
  BY <1>0 DEF IngressStep, Serves, MatchNothing, Ing!MatchDomain, Ing!SaveIngressRoute,
              Ing!RemoveIngressRoute, Ing!DatabaseError, Ing!Certify, Ing!RoutesRemoved
<1>2. Reported(t)'
  BY <1>0, <1>1 DEF Reported
<1> SUFFICES ASSUME DatabaseOpen PROVE Matched(t)' /\ Progress(t)'
  BY <1>0, <1>2 DEF Learned
<1>3. Matched(t) /\ Progress(t)
  BY <1>0 DEF Learned
<1>4. CASE Ing!MatchDomain(t)
  <2>1. UNCHANGED routes /\ Mine(t)' = Mine(t) /\ pc[t] = "registering" /\ ipc[t] = "match"
    BY <1>0, <1>1, <1>4 DEF Ing!MatchDomain, Mine, Ing!RoutesOfProject, Serves
  <2>2. ipc'[t] \in {"match", "failed"}
    BY <1>0, <1>4 DEF Ing!MatchDomain, Ing!Goto, Ing!TypeOK
  <2>3. Matched(t)'
    BY <1>0, <1>3, <1>4, <2>1 DEF Ing!MatchDomain, Ing!Goto, Ing!TypeOK, Matched, Serves,
                                  Ing!SameOwner
  <2> QED BY <1>0, <1>3, <2>1, <2>2, <2>3 DEF Progress, Unused, Registering, Registered
<1>5. CASE Ing!SaveIngressRoute(t)
  <2>1. /\ pc[t] = "registering" /\ ipc[t] = "match" /\ ipc'[t] = "certify" /\ todo[t] = {}
        /\ request[t] \in Applies
        /\ routes' = [d \in Domains |-> IF d \in request[t].domains THEN request[t]
                                        ELSE routes[d]]
    BY <1>0, <1>1, <1>5 DEF Ing!SaveIngressRoute, Ing!Goto, Ing!TypeOK, Serves, IsApply
  <2>2. /\ KeptDomains(t) = request[t].domains /\ ProjectOf(t) = request[t].project
        /\ request[t].domains \subseteq Domains /\ request[t] # NoRoute
    BY <2>1, AppliesAssumption DEF KeptDomains, ProjectOf, IsApply, Ing!Ingress
  <2>3. Mine(t) \subseteq KeptDomains(t)
    BY <1>3, <2>1 DEF Progress, Registering
  <2>4. Mine(t)' = KeptDomains(t)
    BY <1>0, <2>1, <2>2, <2>3 DEF Mine, Ing!RoutesOfProject
  <2> QED BY <1>0, <2>1, <2>4 DEF Matched, Progress, Unused, Registering, Registered
<1>6. CASE Ing!RemoveIngressRoute(t)
  <2>1. /\ pc[t] = "unrouting" /\ ipc[t] = "remove" /\ ipc'[t] = "remove"
        /\ \E d \in todo[t] : /\ routes' = [routes EXCEPT ![d] = NoRoute]
                              /\ todo'[t] = todo[t] \ {d}
    BY <1>0, <1>1, <1>6 DEF Ing!RemoveIngressRoute, Ing!TypeOK, Serves
  <2>2. todo[t] \subseteq Mine(t) /\ Mine(t) \subseteq KeptDomains(t) \cup todo[t]
    BY <1>3, <2>1 DEF Progress
  <2>3. todo'[t] \subseteq Mine(t)' /\ Mine(t)' \subseteq KeptDomains(t) \cup todo'[t]
    BY <1>0, <2>1, <2>2 DEF Mine, Ing!RoutesOfProject, Ing!TypeOK
  <2> QED BY <1>0, <2>1, <2>3 DEF Matched, Progress, Unused, Registering, Registered
<1>7. CASE Ing!DatabaseError(t)
  <2>1. ipc'[t] = "failed" /\ pc'[t] \in {"unrouting", "registering"}
    BY <1>0, <1>1, <1>7 DEF Ing!DatabaseError, Ing!Goto, Ing!TypeOK
  <2> QED BY <2>1 DEF Matched, Progress, Unused, Registering, Registered
<1>8. CASE Ing!Certify(t)
  <2>1. /\ UNCHANGED routes /\ Mine(t)' = Mine(t)
        /\ pc[t] = "registering" /\ ipc[t] = "certify" /\ ipc'[t] \in {"registered", "failed"}
    BY <1>0, <1>1, <1>8 DEF Ing!Certify, Ing!Goto, Ing!TypeOK, Mine, Ing!RoutesOfProject, Serves
  <2> QED BY <1>0, <1>3, <2>1 DEF Matched, Progress, Unused, Registering, Registered
<1>9. CASE Ing!RoutesRemoved(t)
  <2>1. /\ UNCHANGED routes /\ Mine(t)' = Mine(t) /\ todo[t] = {}
        /\ pc[t] = "unrouting" /\ ipc[t] = "remove" /\ ipc'[t] = "removed"
    BY <1>0, <1>1, <1>9 DEF Ing!RoutesRemoved, Ing!Goto, Ing!TypeOK, Mine, Ing!RoutesOfProject,
                            Serves
  <2> QED BY <1>0, <1>3, <2>1 DEF Matched, Progress, Unused, Registering, Registered
<1> QED BY <1>4, <1>5, <1>6, <1>7, <1>8, <1>9 DEF IngressStep, Readable

\* The other steps of a request pass on what has been achieved.
LEMMA CallProgress ==
    ASSUME DInv, NEW t \in Threads,
           \/ Client(t) \/ RemoveUnusedRoutes(t) \/ UnusedRoutesRemoved(t) \/ RegisterRoute(t)
           \/ RouteRegistered(t) \/ SaveProject(t) \/ RemoveProject(t) \/ Reply(t)
    PROVE  Learned(t)' /\ Reported(t)'
<1>0. /\ Serves(t) /\ Learned(t) /\ Reported(t) /\ TypeOK /\ Ing!TypeOK
      /\ UNCHANGED <<main, routes>>
      /\ DatabaseOpen' <=> DatabaseOpen
  <2>1. UNCHANGED <<main, routes>>
    BY DEF Client, Apply, Delete, RemoveUnusedRoutes, UnusedRoutesRemoved, RegisterRoute,
           RouteRegistered, SaveProject, RemoveProject, Reply, life, ivars, Ing!Return,
           Ing!RemoveUnusedRoutes, Ing!RegisterRoute, NothingToRemove
  <2> QED BY <2>1 DEF DInv, TInv, TypeOK, DatabaseOpen
<1> USE <1>0 DEF Matched, Progress, Unused, Registering, Registered, Learned, Reported,
                 At, Goto, TypeOK
<1>1. CASE Client(t)
  <2>1. pc'[t] = "unroute"
    BY <1>1 DEF Client, Apply, Delete
  <2> QED BY <2>1
<1>2. CASE Reply(t)
  <2>1. pc'[t] = "idle"
    BY <1>2 DEF Reply
  <2> QED BY <2>1
<1>3. CASE ~Client(t) /\ ~Reply(t)
  <2>1. UNCHANGED request
    BY <1>3 DEF RemoveUnusedRoutes, UnusedRoutesRemoved, RegisterRoute, RouteRegistered,
                SaveProject, RemoveProject
  <2>2. /\ ProjectOf(t)' = ProjectOf(t) /\ KeptDomains(t)' = KeptDomains(t)
        /\ Mine(t)' = Mine(t)
        /\ ~IsApply(t) => KeptDomains(t) = {}
        /\ IsApply(t) => KeptDomains(t) = request[t].domains
    BY <2>1 DEF ProjectOf, KeptDomains, IsApply, Mine, Ing!RoutesOfProject
  <2>3. CASE RemoveUnusedRoutes(t)
    <3>1. pc'[t] = "unrouting" /\ ipc'[t] = "remove"
      BY <2>3 DEF RemoveUnusedRoutes, Ing!RemoveUnusedRoutes, NothingToRemove, Ing!Goto,
                  Ing!TypeOK
    <3>2. DatabaseOpen => todo'[t] = Mine(t) \ KeptDomains(t)
      BY <2>3 DEF RemoveUnusedRoutes, Ing!RemoveUnusedRoutes, Ing!TypeOK, Mine, Readable
    <3> QED BY <2>2, <3>1, <3>2
  <2>4. CASE UnusedRoutesRemoved(t)
    <3>1. /\ pc[t] = "unrouting" /\ ipc[t] \in {"removed", "failed"}
          /\ pc'[t] = IF ipc[t] = "failed" THEN "failed"
                      ELSE IF IsApply(t) THEN "register" ELSE "forget"
      BY <2>4 DEF UnusedRoutesRemoved, Ing!Return, Ing!Returned, Serves
    <3> QED BY <2>2, <3>1
  <2>5. CASE RegisterRoute(t)
    <3>1. /\ pc[t] = "register" /\ pc'[t] = "registering" /\ UNCHANGED request
          /\ todo'[t] = request[t].domains /\ IsApply(t)
          /\ ipc'[t] \in {"match", "failed"} \/ (ipc'[t] = "registered" /\ request[t].domains = {})
      BY <2>5 DEF RegisterRoute, Ing!RegisterRoute, Ing!Goto, Ing!TypeOK, Serves
    <3>2. Progress(t)' \/ ~DatabaseOpen
      BY <2>2, <3>1
    <3>3. Matched(t)'
      BY <3>1
    <3>4. Reported(t)'
      BY <3>1
    <3> QED BY <3>2, <3>3, <3>4
  <2>6. CASE RouteRegistered(t)
    <3>1. /\ pc[t] = "registering" /\ ipc[t] \in {"registered", "failed"}
          /\ pc'[t] = IF ipc[t] = "failed" THEN "failed" ELSE "save"
      BY <2>6 DEF RouteRegistered, Ing!Return, Ing!Returned, Serves
    <3> QED BY <2>2, <3>1
  <2>7. CASE SaveProject(t)
    <3>1. /\ pc[t] = "save"
          /\ \/ pc'[t] = "failed"
             \/ pc'[t] = "applied" /\ DatabaseOpen /\ ProjectOf(t) \in known'
      BY <2>7 DEF SaveProject
    <3> QED BY <2>2, <3>1
  <2>8. CASE RemoveProject(t)
    <3>1. /\ pc[t] = "forget"
          /\ \/ pc'[t] = "failed"
             \/ pc'[t] = "deleted" /\ DatabaseOpen /\ ProjectOf(t) \notin known'
      BY <2>8 DEF RemoveProject
    <3> QED BY <2>2, <3>1
  <2> QED BY <1>3, <2>3, <2>4, <2>5, <2>6, <2>7, <2>8
<1> QED BY <1>1, <1>2, <1>3

\* The steps of the process, of visitors and of orders leave requests and the
\* database alone, or forget all requests; the database opens at the start of a
\* process only, when there are none.
LEMMA NoRequestProgress ==
    ASSUME DInv, [Next]_vars, \A t \in Threads : ~Client(t) /\ ~RequestStep(t)
    PROVE  /\ UNCHANGED <<routes, known>>
           /\ Exclusive'
           /\ \A t \in Threads : Learned(t)' /\ Reported(t)'
<1>1. CASE Exit /\ UNCHANGED known
  <2>1. UNCHANGED routes /\ Exclusive'
    BY <1>1 DEF Exit, Ing!Crash, Exclusive
  <2>2. ASSUME NEW t \in Threads PROVE Learned(t)' /\ Reported(t)'
    BY <1>1 DEF Exit, Learned, Reported, DatabaseOpen
  <2> QED BY <1>1, <2>1, <2>2
<1>2. CASE ~Exit
  <2>1. UNCHANGED <<ivars, known, calls>>
    BY <1>2 DEF Next, ProcessStep, Start, Return, CloseDatabase, Finish, Listen, Shutdown, Signal,
                Crash, ListenFails, VisitStep, Redirect, Connect, GetCertificate, Match, Answered,
                SetCertificate, vars
  <2>2. DatabaseOpen' => DatabaseOpen \/ main = "down"
    BY <1>2 DEF Next, ProcessStep, Start, Return, CloseDatabase, Finish, Listen, Shutdown, Signal,
                Crash, ListenFails, VisitStep, Redirect, Connect, GetCertificate, Match, Answered,
                SetCertificate, vars, DatabaseOpen, life, TInv, TypeOK, DInv
  <2>3. UNCHANGED <<routes, ipc, todo, pc, request, known>>
    BY <2>1 DEF ivars, calls
  <2>4. Exclusive'
    BY <2>3 DEF Exclusive, DInv, ProjectOf, IsApply
  <2>5. ASSUME NEW t \in Threads PROVE Learned(t)' /\ Reported(t)'
    <3>1. /\ Mine(t)' = Mine(t) /\ KeptDomains(t)' = KeptDomains(t) /\ ProjectOf(t)' = ProjectOf(t)
          /\ Matched(t)' <=> Matched(t)
      BY <2>3 DEF Mine, Ing!RoutesOfProject, KeptDomains, ProjectOf, IsApply, Matched,
                  Ing!SameOwner
    <3>2. (Progress(t)' <=> Progress(t)) /\ (Reported(t)' <=> Reported(t))
      BY <2>3, <3>1 DEF Progress, Unused, Registering, Registered, Reported
    <3>3. main = "down" => Matched(t) /\ Progress(t)
      BY DEF DInv, TInv, Quiet, Matched, Progress, Unused, Registering, Registered
    <3> QED BY <2>2, <3>1, <3>2, <3>3 DEF DInv, Learned
  <2> QED BY <2>3, <2>4, <2>5
<1>3. Exit => UNCHANGED known
  BY DEF Exit
<1> QED BY <1>1, <1>2, <1>3

\* Every step keeps the invariant.
LEMMA NextDInv == ASSUME DomainsDiffer PROVE DInv /\ [Next]_vars => DInv'
<1> SUFFICES ASSUME DInv, [Next]_vars PROVE DInv'
  OBVIOUS
<1>1. ASSUME NEW t \in Threads, Client(t) \/ RequestStep(t) PROVE DInv'
  <2>1. ASSUME NEW u \in Threads, u # t PROVE Learned(u)' /\ Reported(u)'
    BY <1>1, <2>1, OthersKept
  <2>2. Learned(t)' /\ Reported(t)'
    BY <1>1, IngressStepProgress, CallProgress DEF RequestStep
  <2> QED BY <1>1, <2>1, <2>2, RequestKeepsTInv, RequestKeepsExclusive DEF DInv
<1>2. CASE \A t \in Threads : ~Client(t) /\ ~RequestStep(t)
  BY <1>2, NoRequestProgress, NextTInv DEF DInv
<1> QED BY <1>1, <1>2

\* Where the domains that clients apply differ between projects, a request that
\* reports success has stored what it reports, also while the daemon stops.
THEOREM Acknowledged == ASSUME DomainsDiffer PROVE Spec => []AcknowledgedIsStored
<1>1. DInv => AcknowledgedIsStored
  <2> SUFFICES ASSUME DInv, NEW t \in Threads
               PROVE  /\ At(t, "applied") =>
                            /\ ProjectOf(t) \in known
                            /\ Ing!RoutesOfProject(ProjectOf(t)) = request[t].domains
                      /\ At(t, "deleted") =>
                            /\ ProjectOf(t) \notin known
                            /\ Ing!RoutesOfProject(ProjectOf(t)) = {}
    BY DEF AcknowledgedIsStored
  <2>1. Reported(t) /\ (pc[t] = "applied" => KeptDomains(t) = request[t].domains)
    BY DEF DInv, TInv, Serves, KeptDomains
  <2> QED BY <2>1 DEF Reported, Mine, At
<1> QED BY <1>1, InitDInv, NextDInv, PTL DEF Spec

\* What requests do to routes and to the projects that are known
LEMMA StoreChanges ==
    ASSUME DInv, [Next]_vars
    PROVE  \/ UNCHANGED routes
           \/ \E t \in Threads : Saves(t) \/ Removes(t)
<1>1. ASSUME NEW t \in Threads, Client(t) \/ RequestStep(t)
      PROVE  UNCHANGED routes \/ Saves(t) \/ Removes(t)
  BY <1>1, RouteChanges DEF DInv
<1>2. CASE \A t \in Threads : ~Client(t) /\ ~RequestStep(t)
  BY <1>2, NoRequestProgress
<1> QED BY <1>1, <1>2

\* Under the same condition, a project is forgotten only when it has no routes,
\* whatever the lists of a closed database looked like.
THEOREM ForgottenUnrouted == ASSUME DomainsDiffer PROVE Spec => ForgottenWhenUnrouted
<1> DEFINE Forgets == \A p \in known \ known' : Ing!RoutesOfProject(p) = {}
<1>1. DInv /\ [Next]_vars => [Forgets]_vars
  <2> SUFFICES ASSUME DInv, [Next]_vars, NEW p \in known \ known'
               PROVE  Ing!RoutesOfProject(p) = {}
    OBVIOUS
  <2>1. PICK t \in Threads : Client(t) \/ RequestStep(t)
    BY NoRequestProgress
  <2>2. RemoveProject(t)
    BY <2>1 DEF Client, Apply, Delete, RequestStep, RemoveUnusedRoutes, UnusedRoutesRemoved,
                RegisterRoute, RouteRegistered, SaveProject, Reply, IngressStep
  <2>3. pc[t] = "forget" /\ DatabaseOpen /\ p = ProjectOf(t)
    BY <2>2 DEF RemoveProject, At
  <2> QED BY <2>3 DEF DInv, Learned, Progress, Mine
<1> QED BY <1>1, InitDInv, NextDInv, PTL DEF Spec, ForgottenWhenUnrouted

\* Under the same condition no domain goes from one service to another without
\* being released, although requests that are overtaken by the end of the daemon
\* find all domains free.
THEOREM Unstolen == ASSUME DomainsDiffer PROVE Spec => NeverStolen
<1> DEFINE Kept == \A d \in Domains :
                      routes[d] # NoRoute /\ routes'[d] # NoRoute
                         => Ing!SameOwner(routes[d], routes'[d])
<1>1. DInv /\ [Next]_vars => [Kept]_(Ing!ivars)
  <2> SUFFICES ASSUME DInv, [Next]_vars PROVE Kept
    OBVIOUS
  <2>1. CASE UNCHANGED routes
    BY <2>1 DEF Ing!SameOwner
  <2>2. ASSUME NEW t \in Threads, Saves(t) \/ Removes(t) PROVE Kept
    BY <2>2, OwnRoutes
  <2> QED BY <2>1, <2>2, StoreChanges
<1> QED BY <1>1, InitDInv, NextDInv, PTL DEF Spec, NeverStolen, Ing!RouteNeverStolen

(***************************************************************************)
(* Visitors                                                                *)
(***************************************************************************)

\* The database has what the bystanders need.
InPlace == \A d \in DomainsOf(Bystanders) : routes[d] = BystanderOf(d) /\ d \in certified

BInv == DInv /\ InPlace /\ BystandersServed

\* It has from the start, when there are no visitors.
LEMMA InitBInv == Init => BInv
<1> SUFFICES ASSUME Init PROVE BInv
  OBVIOUS
<1>1. InPlace
  BY AppliesAssumption DEF Init, InPlace, DomainsOf, Bystanders, Ing!Ingress
<1>2. BystandersServed
  BY DEF Init, BystandersServed, NoVisit
<1> QED BY <1>1, <1>2, InitDInv DEF BInv

\* No request is for a bystander's project.
LEMMA BystandersApart ==
    ASSUME DInv, NEW t \in Threads, request[t] # None, NEW d \in DomainsOf(Bystanders)
    PROVE  BystanderOf(d) # NoRoute /\ BystanderOf(d).project # ProjectOf(t) /\ d \in Domains
<1>1. PICK ing \in Applies : ing.project = ProjectOf(t)
  BY DEF DInv, Exclusive
<1>2. BystanderOf(d) \in Bystanders /\ d \in BystanderOf(d).domains
  BY DEF DomainsOf, BystanderOf
<1> QED BY <1>1, <1>2, AppliesAssumption DEF Bystanders, Ing!Ingress

\* The routes of bystanders stay, as they are not of the request's project, and
\* certificates are only added.
LEMMA NextInPlace ==
    ASSUME BInv, [Next]_vars
    PROVE  InPlace'
<1>1. certified \subseteq certified'
  <2>1. ASSUME NEW t \in Threads, Client(t) \/ RequestStep(t) PROVE UNCHANGED certified
    BY <2>1, RequestKeepsTInv DEF BInv, DInv
  <2>2. CASE \A t \in Threads : ~Client(t) /\ ~RequestStep(t)
    BY <2>2 DEF Next, ProcessStep, Start, Return, CloseDatabase, Finish, Listen, Shutdown, Signal,
                Crash, ListenFails, VisitStep, Redirect, Connect, GetCertificate, Match, Answered,
                SetCertificate, vars, Exit
  <2> QED BY <2>1, <2>2
<1>2. ASSUME NEW d \in DomainsOf(Bystanders) PROVE routes'[d] = routes[d]
  <2>1. ASSUME NEW t \in Threads, Saves(t) \/ Removes(t) PROVE routes'[d] = routes[d]
    <3>1. request[t] # None
      BY <2>1, OwnRoutes DEF BInv
    <3>2. BystanderOf(d) # NoRoute /\ BystanderOf(d).project # ProjectOf(t) /\ d \in Domains
      BY <3>1, BystandersApart DEF BInv
    <3> QED BY <2>1, <3>2, OwnRoutes DEF BInv, InPlace
  <2> QED BY <2>1, StoreChanges DEF BInv
<1>3. \A d \in DomainsOf(Bystanders) : BystanderOf(d)' = BystanderOf(d)
  BY DEF BystanderOf
<1> QED BY <1>1, <1>2, <1>3 DEF BInv, InPlace, DomainsOf, Bystanders

\* A visit reads the certificate and the route in two steps, and finds both.
LEMMA NextServed ==
    ASSUME BInv, [Next]_vars
    PROVE  BystandersServed'
<1> DEFINE Fine(v) ==
        visit[v].domain \in DomainsOf(Bystanders) =>
            \/ main = "closed"
            \/ /\ visit[v].certificate # "selfSigned"
               /\ visit[v].at # "refused"
               /\ visit[v].endpoint \in {None, BystanderOf(visit[v].domain).endpoint}
<1>0. /\ visit \in [Visitors -> Visit]
      /\ main \in {"down", "serving", "returned", "closed"}
      /\ \A v \in Visitors : Fine(v)
      /\ \A v \in Visitors : visit[v].at \in {"handshake", "match"} => main # "down"
      /\ \A d \in DomainsOf(Bystanders) : BystanderOf(d) # NoRoute
  <2>1. \A d \in DomainsOf(Bystanders) : BystanderOf(d) \in Ingresses
    BY DEF DomainsOf, BystanderOf, Bystanders
  <2> QED BY <2>1, AppliesAssumption
          DEF BInv, DInv, TInv, TypeOK, BystandersServed, Quiet, NoVisit
<1> SUFFICES ASSUME NEW v \in Visitors PROVE Fine(v)'
  BY DEF BystandersServed
<1>1. CASE Exit
  BY <1>1 DEF Exit, NoVisit
<1>2. CASE UNCHANGED visit /\ (main = "closed" => main' = "closed")
  BY <1>0, <1>2
<1>3. ASSUME NEW w \in Visitors, VisitStep(w) PROVE Fine(v)'
  <2>1. main' = main
    BY <1>3 DEF VisitStep, Redirect, Connect, GetCertificate, Match, Answered, life
  <2>2. CASE w # v
    <3>1. visit'[v] = visit[v]
      BY <1>0, <1>3, <2>2 DEF VisitStep, Redirect, Connect, GetCertificate, Match, Answered, Go
    <3> QED BY <1>0, <2>1, <3>1
  <2>3. CASE w = v
    <3>1. CASE \E d \in Domains : Redirect(v, d) \/ Connect(v, d)
      BY <1>0, <3>1 DEF Redirect, Connect, NoVisit
    <3>2. CASE GetCertificate(v)
      BY <1>0, <2>1, <3>2 DEF GetCertificate, Readable, DatabaseOpen, BInv, InPlace, Visit
    <3>3. CASE Match(v)
      BY <1>0, <2>1, <3>3 DEF Match, Readable, DatabaseOpen, BInv, InPlace, Visit, Go
    <3>4. CASE Answered(v)
      BY <1>0, <2>1, <3>4 DEF Answered, Visit, NoVisit
    <3> QED BY <1>3, <2>3, <3>1, <3>2, <3>3, <3>4 DEF VisitStep
  <2> QED BY <2>2, <2>3
<1>4. ASSUME NEW t \in Threads, Client(t) \/ RequestStep(t) PROVE UNCHANGED <<visit, main>>
  BY <1>4, RequestKeepsTInv DEF BInv, DInv, life
<1> QED BY <1>0, <1>1, <1>2, <1>3, <1>4 DEF Next, ProcessStep, Start, Return, CloseDatabase,
           Finish, Listen, Shutdown, Signal, Crash, ListenFails, SetCertificate, vars, life

\* Under the same condition, a domain that no request is about is served with its
\* certificate and from its endpoint until the database is closed, through any
\* number of stops and of requests that ask for it.
THEOREM Served == ASSUME DomainsDiffer PROVE Spec => []BystandersServed
<1>1. BInv /\ [Next]_vars => BInv'
  BY NextDInv, NextInPlace, NextServed DEF BInv
<1>2. BInv => BystandersServed
  BY DEF BInv
<1> QED BY <1>1, <1>2, InitBInv, PTL DEF Spec
=============================================================================
