------------------------------- MODULE Daemon -------------------------------
(***************************************************************************)
(* The life of the daemon process (src/cmd/daemon/main.go): it opens the   *)
(* database, starts three HTTP servers and, when it is told to stop, closes *)
(* the database while requests are still being served.  A read from a      *)
(* closed database looks like a read from an empty one; a write fails.     *)
(*                                                                         *)
(* Composed with the ingress manager.  Requests to the management server   *)
(* are those of ContainerManager without their calls to Docker, which the  *)
(* end of the daemon does not disturb; visitors of the proxy read a        *)
(* certificate and a route in two transactions.                            *)
(***************************************************************************)
EXTENDS Naturals

CONSTANTS
    Threads,       \* goroutines of the management server
    Visitors,      \* connections to the proxy
    Domains, Projects, Services, Endpoints, NoEndpoint,   \* see Ingress
    Ingresses, NoRoute, None, AcmeConfigured,
    Applies,       \* those ingresses that clients apply, as projects of one service
    Reachable,     \* the domains that point to this machine, and can be certified
    MaxStops       \* bound on signals, failing listeners and crashes

VARIABLES
    routes, ipc, ingress, project, excluded, todo,   \* the ingress manager
    main,        \* how far the function run has come
    ctxDone,     \* a signal has cancelled the context
    server,      \* server[s]: whether that HTTP server accepts connections
    known,       \* the projects bucket: the names of its entries
    certified,   \* the domains that a stored certificate is mapped to
    pc, request, \* the requests to the management server
    visit,       \* the requests to the proxy
    stops        \* how often the daemon was stopped

ivars == <<routes, ipc, ingress, project, excluded, todo>>
life == <<main, ctxDone, server, stops>>
calls == <<pc, request>>
vars == <<ivars, life, known, certified, calls, visit>>

Ing == INSTANCE Ingress

\* What was in place before, and no request is about.
Bystanders == Ingresses \ Applies

ASSUME AppliesAssumption ==
    /\ Applies \subseteq Ingresses
    /\ Ingresses \subseteq Ing!Ingress
    /\ {NoRoute, None} \cap Ingresses = {}
    /\ None \notin Projects
    /\ Applies \cap Projects = {}
    /\ MaxStops \in Nat
    /\ \A b \in Bystanders, other \in Ingresses : b # other => b.project # other.project
    /\ \A b, c \in Bystanders : b # c => b.domains \cap c.domains = {}

Servers == {"management", "http", "https"}

NoVisit == [at |-> "none", domain |-> None, certificate |-> "none", endpoint |-> None]
Visit == [at : {"none", "redirected", "handshake", "match", "forwarded", "refused"},
          domain : Domains \cup {None},
          certificate : {"none", "stored", "selfSigned"},
          endpoint : Endpoints \cup {NoEndpoint, None}]

Labels == {"idle", "unroute", "unrouting", "register", "registering", "save", "forget",
           "applied", "deleted", "failed"}

TypeOK ==
    /\ Ing!TypeOK
    /\ main \in {"down", "serving", "returned", "closed"}
    /\ ctxDone \in BOOLEAN
    /\ server \in [Servers -> {"starting", "listening", "shut"}]
    /\ known \in SUBSET Projects
    /\ certified \in SUBSET Domains
    /\ pc \in [Threads -> Labels]
    /\ request \in [Threads -> Applies \cup Projects \cup {None}]
    /\ visit \in [Visitors -> Visit]
    /\ stops \in 0 .. MaxStops

DomainsOf(ingresses) == UNION {i.domains : i \in ingresses}
BystanderOf(d) == CHOOSE b \in Bystanders : d \in b.domains

Init ==
    /\ routes = [d \in Domains |-> IF d \in DomainsOf(Bystanders) THEN BystanderOf(d) ELSE NoRoute]
    /\ ipc = [t \in Threads |-> "idle"]
    /\ ingress = [t \in Threads |-> None]
    /\ project = [t \in Threads |-> None]
    /\ excluded = [t \in Threads |-> {}]
    /\ todo = [t \in Threads |-> {}]
    /\ main = "down"
    /\ ctxDone = FALSE
    /\ server = [s \in Servers |-> "starting"]
    /\ known = {b.project : b \in Bystanders}
    /\ certified = DomainsOf(Bystanders)
    /\ pc = [t \in Threads |-> "idle"]
    /\ request = [t \in Threads |-> None]
    /\ visit = [v \in Visitors |-> NoVisit]
    /\ stops = 0

(***************************************************************************)
(* The process                                                             *)
(***************************************************************************)
Up == main # "down"

\* bbolt refuses transactions once it is closed.
DatabaseOpen == main \in {"serving", "returned"}

\* Mutant: reads are refused from the signal on, writes until the database is
\* closed.
ReadableUntilSignal == DatabaseOpen /\ ~ctxDone

\* Whether a read sees what is stored: db.Client does not report its errors, or
\* the callers take them for "not found".
Readable == DatabaseOpen

\* systemd starts the daemon whenever it is not running.
Start ==
    /\ main = "down"
    /\ main' = "serving"
    /\ UNCHANGED <<ivars, ctxDone, server, known, certified, calls, visit, stops>>

\* The process is gone, and with it all that was not in the database.
Exit ==
    /\ main' = "down"
    /\ ctxDone' = FALSE
    /\ server' = [s \in Servers |-> "starting"]
    /\ Ing!Crash
    /\ pc' = [t \in Threads |-> "idle"]
    /\ request' = [t \in Threads |-> None]
    /\ visit' = [v \in Visitors |-> NoVisit]
    /\ UNCHANGED <<known, certified>>

Stop == stops < MaxStops /\ stops' = stops + 1

Signal ==
    /\ Stop
    /\ Up /\ ~ctxDone
    /\ ctxDone' = TRUE
    /\ UNCHANGED <<ivars, main, server, known, certified, calls, visit>>

Crash == Stop /\ Up /\ Exit

Listen(s) ==
    /\ Up
    /\ server[s] = "starting"
    /\ server' = [server EXCEPT ![s] = "listening"]
    /\ UNCHANGED <<ivars, main, ctxDone, known, certified, calls, visit, stops>>

\* The address is in use.  A proxy ends the process at once (log.Fatalf); the
\* error of the management server is returned by run.
ListenFails(s) ==
    /\ Stop
    /\ Up
    /\ server[s] = "starting"
    /\ \/ s # "management" /\ Exit
       \/ /\ s = "management"
          /\ main = "serving"
          /\ main' = "returned"
          /\ server' = [server EXCEPT ![s] = "shut"]
          /\ UNCHANGED <<ivars, ctxDone, known, certified, calls, visit>>

\* Shutdown closes the listener first, and then waits for the handlers on a
\* goroutine of its own: ListenAndServe has returned by then.
Shutdown(s) ==
    /\ Up
    /\ ctxDone
    /\ server[s] # "shut"
    /\ server' = [server EXCEPT ![s] = "shut"]
    /\ UNCHANGED <<ivars, main, ctxDone, known, certified, calls, visit, stops>>

Return ==
    /\ main = "serving"
    /\ server["management"] = "shut"
    /\ main' = "returned"
    /\ UNCHANGED <<ivars, ctxDone, server, known, certified, calls, visit, stops>>

\* Mutant: the database is closed when the handlers are done.
CloseAfterHandlers ==
    /\ main = "returned"
    /\ \A t \in Threads : pc[t] = "idle"
    /\ main' = "closed"
    /\ UNCHANGED <<ivars, ctxDone, server, known, certified, calls, visit, stops>>

\* The deferred calls: the Docker client gives up idle connections only, the
\* database waits for the transactions that are open and refuses new ones.
CloseDatabase ==
    /\ main = "returned"
    /\ main' = "closed"
    /\ UNCHANGED <<ivars, ctxDone, server, known, certified, calls, visit, stops>>

Finish == main = "closed" /\ Exit /\ UNCHANGED stops

(***************************************************************************)
(* Requests to the management server                                       *)
(***************************************************************************)
At(t, label) == pc[t] = label
Goto(t, label) == pc' = [pc EXCEPT ![t] = label]

IsApply(t) == request[t] \in Applies
ProjectOf(t) == IF IsApply(t) THEN request[t].project ELSE request[t]
Unserved(p) == \A t \in Threads : request[t] # None => ProjectOf(t) # p

\* A client with no other request for the project under way
Apply(t, ing) ==
    /\ server["management"] = "listening"
    /\ At(t, "idle")
    /\ Unserved(ing.project)
    /\ request' = [request EXCEPT ![t] = ing]
    /\ Goto(t, "unroute")
    /\ UNCHANGED <<ivars, life, known, certified, visit>>

Delete(t, p) ==
    /\ server["management"] = "listening"
    /\ At(t, "idle")
    /\ Unserved(p)
    /\ Readable /\ p \in known
    /\ request' = [request EXCEPT ![t] = p]
    /\ Goto(t, "unroute")
    /\ UNCHANGED <<ivars, life, known, certified, visit>>

KeptDomains(t) == IF IsApply(t) THEN request[t].domains ELSE {}

\* The list of a closed database has no routes.
NothingToRemove(t) ==
    /\ ipc[t] = "idle"
    /\ ipc' = [ipc EXCEPT ![t] = "remove"]
    /\ project' = [project EXCEPT ![t] = ProjectOf(t)]
    /\ excluded' = [excluded EXCEPT ![t] = KeptDomains(t)]
    /\ UNCHANGED <<routes, ingress, todo>>

RemoveUnusedRoutes(t) ==
    /\ At(t, "unroute")
    /\ \/ Readable /\ Ing!RemoveUnusedRoutes(t, ProjectOf(t), KeptDomains(t))
       \/ ~Readable /\ NothingToRemove(t)
    /\ Goto(t, "unrouting")
    /\ UNCHANGED <<life, known, certified, request, visit>>

UnusedRoutesRemoved(t) ==
    /\ At(t, "unrouting")
    /\ Ing!Return(t)
    /\ Goto(t, IF ipc[t] = "failed" THEN "failed"
               ELSE IF IsApply(t) THEN "register" ELSE "forget")
    /\ UNCHANGED <<life, known, certified, request, visit>>

RegisterRoute(t) ==
    /\ At(t, "register")
    /\ Ing!RegisterRoute(t, request[t])
    /\ Goto(t, "registering")
    /\ UNCHANGED <<life, known, certified, request, visit>>

RouteRegistered(t) ==
    /\ At(t, "registering")
    /\ Ing!Return(t)
    /\ Goto(t, IF ipc[t] = "failed" THEN "failed" ELSE "save")
    /\ UNCHANGED <<life, known, certified, request, visit>>

\* Mutant: a write that is refused is not reported.
SaveUnreported(t) ==
    /\ At(t, "save")
    /\ known' = IF DatabaseOpen THEN known \cup {ProjectOf(t)} ELSE known
    /\ Goto(t, "applied")
    /\ UNCHANGED <<ivars, life, certified, request, visit>>

SaveProject(t) ==
    /\ At(t, "save")
    /\ \/ DatabaseOpen /\ known' = known \cup {ProjectOf(t)} /\ Goto(t, "applied")
       \/ ~DatabaseOpen /\ Goto(t, "failed") /\ UNCHANGED known
    /\ UNCHANGED <<ivars, life, certified, request, visit>>

RemoveProject(t) ==
    /\ At(t, "forget")
    /\ \/ DatabaseOpen /\ known' = known \ {ProjectOf(t)} /\ Goto(t, "deleted")
       \/ ~DatabaseOpen /\ Goto(t, "failed") /\ UNCHANGED known
    /\ UNCHANGED <<ivars, life, certified, request, visit>>

Reply(t) ==
    /\ pc[t] \in {"applied", "deleted", "failed"}
    /\ Goto(t, "idle")
    /\ request' = [request EXCEPT ![t] = None]
    /\ UNCHANGED <<ivars, life, known, certified, visit>>

\* Match fails on a closed database, and RegisterRoute takes that for a domain
\* that nobody uses.
MatchNothing(t) ==
    /\ ipc[t] = "match"
    /\ \E d \in todo[t] : todo' = [todo EXCEPT ![t] = @ \ {d}]
    /\ UNCHANGED <<routes, ipc, ingress, project, excluded>>

\* Inside the ingress manager; certificates are ordered in the background.
IngressStep(t) ==
    /\ \/ Readable /\ Ing!MatchDomain(t)
       \/ ~Readable /\ MatchNothing(t)
       \/ DatabaseOpen /\ (Ing!SaveIngressRoute(t) \/ Ing!RemoveIngressRoute(t))
       \/ ~DatabaseOpen /\ Ing!DatabaseError(t)
       \/ Ing!Certify(t) \/ Ing!RoutesRemoved(t)
    /\ UNCHANGED <<life, known, certified, calls, visit>>

\* The order of a certificate is complete; the route it was for may be gone.
SetCertificate(d) ==
    /\ Up /\ DatabaseOpen
    /\ d \in Reachable
    /\ certified' = certified \cup {d}
    /\ UNCHANGED <<ivars, life, known, calls, visit>>

(***************************************************************************)
(* Requests to the proxy                                                   *)
(***************************************************************************)
Go(v, label) == visit' = [visit EXCEPT ![v].at = label]

\* Plain HTTP is answered with a redirection; challenges are left to
\* Certificates.
Redirect(v, d) ==
    /\ server["http"] = "listening"
    /\ visit[v].at = "none"
    /\ visit' = [visit EXCEPT ![v] = [NoVisit EXCEPT !.at = "redirected", !.domain = d]]
    /\ UNCHANGED <<ivars, life, known, certified, calls>>

Connect(v, d) ==
    /\ server["https"] = "listening"
    /\ \/ visit[v].at = "none"
       \/ visit[v].at = "redirected" /\ visit[v].domain = d
    /\ visit' = [visit EXCEPT ![v] = [NoVisit EXCEPT !.at = "handshake", !.domain = d]]
    /\ UNCHANGED <<ivars, life, known, certified, calls>>

\* Mutant: there is no certificate to fall back on.
StoredCertificateOnly(v) ==
    /\ visit[v].at = "handshake"
    /\ visit' = [visit EXCEPT
                    ![v].at = "match",
                    ![v].certificate = IF Readable /\ visit[v].domain \in certified
                                       THEN "stored" ELSE None]
    /\ UNCHANGED <<ivars, life, known, certified, calls>>

\* The certificate of the connection, or one made on the spot
GetCertificate(v) ==
    /\ visit[v].at = "handshake"
    /\ visit' = [visit EXCEPT
                    ![v].at = "match",
                    ![v].certificate = IF Readable /\ visit[v].domain \in certified
                                       THEN "stored" ELSE "selfSigned"]
    /\ UNCHANGED <<ivars, life, known, certified, calls>>

\* The route is read in a transaction of its own.
Match(v) ==
    /\ visit[v].at = "match"
    /\ \/ /\ Readable /\ routes[visit[v].domain] # NoRoute
          /\ visit' = [visit EXCEPT ![v].at = "forwarded",
                                    ![v].endpoint = routes[visit[v].domain].endpoint]
       \/ /\ ~Readable \/ routes[visit[v].domain] = NoRoute
          /\ Go(v, "refused")
    /\ UNCHANGED <<ivars, life, known, certified, calls>>

\* The connection carries another request, until the server shuts down, or ends.
Answered(v) ==
    /\ visit[v].at \in {"forwarded", "refused"}
    /\ \/ visit' = [visit EXCEPT ![v] = NoVisit]
       \/ server["https"] = "listening" /\ visit' = [visit EXCEPT ![v].at = "match",
                                                                  ![v].endpoint = None]
    /\ UNCHANGED <<ivars, life, known, certified, calls>>

(***************************************************************************)
(* The specification                                                       *)
(***************************************************************************)
Client(t) ==
    \/ \E ing \in Applies : Apply(t, ing)
    \/ \E ing \in Applies : Delete(t, ing.project)

RequestStep(t) ==
    \/ RemoveUnusedRoutes(t) \/ UnusedRoutesRemoved(t) \/ RegisterRoute(t)
    \/ RouteRegistered(t) \/ SaveProject(t) \/ RemoveProject(t) \/ Reply(t)
    \/ IngressStep(t)

VisitStep(v) ==
    \/ \E d \in Domains : Redirect(v, d) \/ Connect(v, d)
    \/ GetCertificate(v) \/ Match(v) \/ Answered(v)

ProcessStep ==
    \/ Start \/ Return \/ CloseDatabase \/ Finish
    \/ \E s \in Servers : Listen(s) \/ Shutdown(s)

Next ==
    \/ ProcessStep
    \/ Signal \/ Crash \/ \E s \in Servers : ListenFails(s)
    \/ \E t \in Threads : Client(t) \/ RequestStep(t)
    \/ \E v \in Visitors : VisitStep(v)
    \/ \E d \in Domains : SetCertificate(d)

\* The goroutines of main and of the servers are run, and systemd restarts the
\* daemon (Restart=always).  Requests may hang for ever.
Fairness ==
    /\ WF_vars(Start) /\ WF_vars(Return) /\ WF_vars(CloseDatabase) /\ WF_vars(Finish)
    /\ \A s \in Servers : WF_vars(Listen(s)) /\ WF_vars(Shutdown(s))

Spec == Init /\ [][Next]_vars /\ Fairness

(***************************************************************************)
(* Properties                                                              *)
(***************************************************************************)

\* Whatever others apply and delete, and however often the daemon stops and
\* starts, a domain that no request is about is served with its certificate
\* and from its endpoint, by every server that runs, until the moment the
\* database is closed.
BystandersServed ==
    \A v \in Visitors : visit[v].domain \in DomainsOf(Bystanders) =>
        \/ main = "closed"
        \/ /\ visit[v].certificate # "selfSigned"
           /\ visit[v].at # "refused"
           /\ visit[v].endpoint \in {None, BystanderOf(visit[v].domain).endpoint}

\* An answer that reports success is true of what is stored, also when the
\* daemon is stopping: the reads that look empty never make it report a change
\* that is lost.
AcknowledgedIsStored ==
    \A t \in Threads :
        /\ At(t, "applied") => /\ ProjectOf(t) \in known
                               /\ Ing!RoutesOfProject(ProjectOf(t)) = request[t].domains
        /\ At(t, "deleted") => /\ ProjectOf(t) \notin known
                               /\ Ing!RoutesOfProject(ProjectOf(t)) = {}

\* A project is forgotten when it has no routes left, although the list of its
\* routes is empty for a deletion that is overtaken by the end of the daemon.
ForgottenWhenUnrouted ==
    [][\A p \in known \ known' : Ing!RoutesOfProject(p) = {}]_vars

\* A registration that is overtaken by the end of the daemon takes every
\* domain for unused, and still no domain changes hands.
NeverStolen == Ing!RouteNeverStolen

\* Whatever stops the daemon, it is soon up again, even if a request hangs for
\* ever: all three servers accept connections.
Serving == main = "serving" /\ \A s \in Servers : server[s] = "listening"
StopsAndStarts == <>[]Serving
=============================================================================
