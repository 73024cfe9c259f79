----------------------------- MODULE AcmeAccount ------------------------------
(***************************************************************************)
(* The ACME account of the daemon: CertificateManager.init                 *)
(* (src/manager/certificates.go), which runs once at every start, over the *)
(* acme.* keys of the config bucket (src/manager/db/config.go).            *)
(*                                                                         *)
(* The daemon reuses the stored account or registers a new one.  Each key  *)
(* is written, and cleared, in a transaction of its own, and the daemon    *)
(* may die between any two of them; meanwhile the operator may change the  *)
(* configuration and the certificate authority may drop the account.       *)
(***************************************************************************)
EXTENDS Naturals

CONSTANTS
    Emails,        \* email addresses
    Directories,   \* directory URLs: the certificate authorities
    Keys,          \* private keys, as numbers
    None,          \* an empty email, a key that is not stored
    MaxChanges,    \* bound on the changes of the configuration
    MaxMishaps     \* bound on crashes, failing calls and accounts dropped

\* A registration names the account at the certificate authority.
Account == [key : Keys, email : Emails, directory : Directories]

ASSUME ConstantsAssumption ==
    /\ Keys \subseteq Nat
    /\ MaxChanges \in Nat
    /\ MaxMishaps \in Nat
    /\ None \notin Emails \cup Directories \cup Keys \cup Account

VARIABLES
    config,     \* the configuration file: the email and the directory
    stored,     \* the acme.* keys of the config bucket
    accounts,   \* the accounts the certificate authorities know
    pc,         \* where the daemon is
    user,       \* the account it works with
    isRetry,    \* whether it is initializing for the second time
    changes,
    mishaps

vars == <<config, stored, accounts, pc, user, isRetry, changes, mishaps>>

Config == [email : Emails \cup {None}, directory : Directories]
Registration == Account \cup {None}

\* types.AcmeRegistration, and the same with the directory as it is stored
User == [email        : Emails \cup {None},
         key          : Keys \cup {None},
         registration : Registration]
Stored == [email        : Emails \cup {None},
           key          : Keys \cup {None},
           registration : Registration,
           directory    : Directories \cup {None}]

Starting == {"init", "register", "query"}
Saving == {"saveEmail", "saveKey", "saveRegistration", "saveDirectory"}
Clearing == {"clearEmail", "clearRegistration", "clearKey", "clearDirectory"}
Serving == {"ready", "unconfigured"}

TypeOK ==
    /\ config \in Config
    /\ stored \in Stored
    /\ accounts \in SUBSET Account
    /\ pc \in Starting \cup Saving \cup Clearing \cup Serving \cup {"down", "nilRegistration"}
    /\ user \in User
    /\ isRetry \in BOOLEAN
    /\ changes \in 0 .. MaxChanges
    /\ mishaps \in 0 .. MaxMishaps

NoUser == [email |-> None, key |-> None, registration |-> None]

Init ==
    /\ config \in Config
    /\ stored = [email |-> None, key |-> None, registration |-> None, directory |-> None]
    /\ accounts = {}
    /\ pc = "down"
    /\ user = NoUser
    /\ isRetry = FALSE
    /\ changes = 0
    /\ mishaps = 0

(***************************************************************************)
(* NewCertificateManger and the first half of init                         *)
(***************************************************************************)

\* Without an email there is no ACME client.
Start ==
    /\ pc = "down"
    /\ pc' = IF config.email = None THEN "unconfigured" ELSE "init"
    /\ UNCHANGED <<config, stored, accounts, user, isRetry, changes, mishaps>>

\* registration(): the account as it is stored
StoredUser == [email        |-> stored.email,
               key          |-> stored.key,
               registration |-> stored.registration]

IsValid(u) == u.registration # None /\ u.key # None /\ u.email # None

\* Mutant: the emails are not compared.
AnyEmailWillDo ==
    /\ IsValid(StoredUser)
    /\ config.directory = stored.directory

\* The stored account is complete and was made for this configuration.
Reusable ==
    /\ stored.email = config.email
    /\ IsValid(StoredUser)
    /\ config.directory = stored.directory

\* A key never generated before; the first one will do.
NewKey(k) ==
    LET Fresh(q) == /\ \A a \in accounts : a.key # q
                    /\ stored.key # q
                    /\ user.key # q
    IN  k \in Keys /\ Fresh(k) /\ \A q \in Keys : Fresh(q) => k <= q

Initialize ==
    /\ pc = "init"
    /\ \/ /\ Reusable
          /\ user' = StoredUser
          /\ pc' = "query"
       \/ /\ ~Reusable
          /\ \E k \in Keys :
                /\ NewKey(k)
                /\ user' = [email |-> config.email, key |-> k, registration |-> None]
          /\ pc' = "register"
    /\ UNCHANGED <<config, stored, accounts, isRetry, changes, mishaps>>

(***************************************************************************)
(* A new account                                                           *)
(***************************************************************************)
Register ==
    LET account == [key |-> user.key, email |-> user.email, directory |-> config.directory]
    IN  /\ pc = "register"
        /\ accounts' = accounts \cup {account}
        /\ user' = [user EXCEPT !.registration = account]
        /\ pc' = "saveEmail"
        /\ UNCHANGED <<config, stored, isRetry, changes, mishaps>>

\* setConfigContent, the one thing these steps change
Put(field, value) ==
    /\ stored' = [stored EXCEPT ![field] = value]
    /\ UNCHANGED <<config, accounts, user, isRetry, changes, mishaps>>

SaveEmail ==
    /\ pc = "saveEmail"
    /\ pc' = "saveKey"
    /\ Put("email", user.email)

\* Mutant: the email is stored as the key.
SaveWrongKey ==
    /\ pc = "saveKey"
    /\ pc' = "saveRegistration"
    /\ Put("key", user.email)

SaveKey ==
    /\ pc = "saveKey"
    /\ pc' = "saveRegistration"
    /\ Put("key", user.key)

SaveRegistration ==
    /\ pc = "saveRegistration"
    /\ pc' = "saveDirectory"
    /\ Put("registration", user.registration)

\* Mutant: the directory is saved with the first account only.
SaveFirstDirectory ==
    /\ pc = "saveDirectory"
    /\ pc' = "ready"
    /\ Put("directory", IF stored.directory = None THEN config.directory ELSE stored.directory)

SaveDirectory ==
    /\ pc = "saveDirectory"
    /\ pc' = "ready"
    /\ Put("directory", config.directory)

(***************************************************************************)
(* A stored account                                                        *)
(***************************************************************************)

\* The query is posted to the URI of the stored registration, whatever directory
\* is configured: the authority there knows the account and accepts requests
\* that are signed with the key.
Known ==
    /\ user.registration \in accounts
    /\ user.registration.key = user.key

\* Mutant: any answer of the certificate authority will do.
QueryIgnored ==
    /\ pc = "query"
    /\ pc' = "ready"
    /\ UNCHANGED <<config, stored, accounts, user, isRetry, changes, mishaps>>

\* Mutant: the daemon exits and keeps the account.
QueryOrExit ==
    /\ pc = "query"
    /\ pc' = IF Known THEN "ready" ELSE "down"
    /\ UNCHANGED <<config, stored, accounts, user, isRetry, changes, mishaps>>

QueryRegistration ==
    /\ pc = "query"
    /\ pc' = IF Known THEN "ready" ELSE "clearEmail"
    /\ UNCHANGED <<config, stored, accounts, user, isRetry, changes, mishaps>>

\* Mutant: the transaction is not committed.
ClearNothing(field) ==
    /\ stored' = stored
    /\ UNCHANGED <<config, accounts, user, changes, mishaps>>

\* removeConfigContent
Delete(field) ==
    /\ stored' = [stored EXCEPT ![field] = None]
    /\ UNCHANGED <<config, accounts, user, changes, mishaps>>

ClearEmail ==
    /\ pc = "clearEmail"
    /\ pc' = "clearRegistration"
    /\ Delete("email")
    /\ UNCHANGED isRetry

ClearRegistration ==
    /\ pc = "clearRegistration"
    /\ pc' = "clearKey"
    /\ Delete("registration")
    /\ UNCHANGED isRetry

ClearKey ==
    /\ pc = "clearKey"
    /\ pc' = "clearDirectory"
    /\ Delete("key")
    /\ UNCHANGED isRetry

\* init calls itself once.  The second time it would go on with the nil result
\* of the query that failed.
ClearDirectory ==
    /\ pc = "clearDirectory"
    /\ pc' = IF isRetry THEN "nilRegistration" ELSE "init"
    /\ isRetry' = TRUE
    /\ Delete("directory")

(***************************************************************************)
(* The operator, the certificate authority and the machine                 *)
(***************************************************************************)
GoDown ==
    /\ pc' = "down"
    /\ user' = NoUser
    /\ isRetry' = FALSE

Stop ==
    /\ pc \in Serving
    /\ GoDown
    /\ UNCHANGED <<config, stored, accounts, changes, mishaps>>

\* A new configuration takes effect at the next start.
Reconfigure(c) ==
    /\ pc = "down"
    /\ c # config
    /\ changes < MaxChanges
    /\ config' = c
    /\ changes' = changes + 1
    /\ UNCHANGED <<stored, accounts, pc, user, isRetry, mishaps>>

Mishap == mishaps < MaxMishaps /\ mishaps' = mishaps + 1

\* The certificate authority deactivates the account, or loses it.
Drop(a) ==
    /\ Mishap
    /\ accounts' = accounts \ {a}
    /\ UNCHANGED <<config, stored, pc, user, isRetry, changes>>

\* The query fails for another reason than the account.
QueryFails ==
    /\ Mishap
    /\ pc = "query"
    /\ pc' = "clearEmail"
    /\ UNCHANGED <<config, stored, accounts, user, isRetry, changes>>

\* The daemon is killed, a write panics, or a call of the ACME client fails
\* fatally (its directory cannot be fetched, the registration is refused).
Crash ==
    /\ Mishap
    /\ pc # "down"
    /\ GoDown
    /\ UNCHANGED <<config, stored, accounts, changes>>

(***************************************************************************)
(* The specification                                                       *)
(***************************************************************************)
Step ==
    \/ Initialize
    \/ Register \/ SaveEmail \/ SaveKey \/ SaveRegistration \/ SaveDirectory
    \/ QueryRegistration
    \/ ClearEmail \/ ClearRegistration \/ ClearKey \/ ClearDirectory

Next ==
    \/ Start \/ Step
    \/ Stop
    \/ \E c \in Config : Reconfigure(c)
    \/ \E a \in accounts : Drop(a)
    \/ QueryFails \/ Crash

Spec == Init /\ [][Next]_vars

\* systemd starts the daemon whenever it is down (Restart=always), and calls
\* to the database and to the certificate authority return.
FairSpec == Spec /\ WF_vars(Start) /\ WF_vars(Step)

(***************************************************************************)
(* Properties                                                              *)
(***************************************************************************)

\* Whenever the daemon serves requests with an ACME client, the private key it
\* signs with is that of its registration, whatever mixture of an old and a new
\* account earlier starts have left in the database.
ReadyWithItsKey ==
    pc = "ready" => user.registration # None /\ user.registration.key = user.key

\* "If the user is already registered no action will be undertaken"
\* (certificates.go:70): once the daemon is ready, what is stored is all that
\* the next start needs to work with the same account again.
ReadyIsStored == pc = "ready" => Reusable /\ StoredUser = user

\* The retry never comes to the query again, whose nil result it would go on
\* with (certificates.go:131).
NoNilRegistration == pc # "nilRegistration"

\* The account is registered with the configured email, at the configured
\* directory, as long as nothing fails.  A crash while a new account is saved
\* leaves a mixture that the next start is content with: the new email beside the
\* old account if the configuration has changed, and the registration at another
\* directory beside the old directory if it has changed and is changed back.
AccountAsConfigured ==
    pc = "ready" =>
        /\ mishaps = 0 \/ changes = 0 => user.registration.email = config.email
        /\ mishaps = 0 \/ changes < 2 => user.registration.directory = config.directory

\* How many steps of a start may lie ahead at most
StepsLeft ==
    CASE pc = "down" -> 13
      [] pc = "init" -> IF isRetry THEN 6 ELSE 12
      [] pc = "query" -> 11
      [] pc = "clearEmail" -> 10
      [] pc = "clearRegistration" -> 9
      [] pc = "clearKey" -> 8
      [] pc = "clearDirectory" -> 7
      [] pc = "register" -> 5
      [] pc = "saveEmail" -> 4
      [] pc = "saveKey" -> 3
      [] pc = "saveRegistration" -> 2
      [] pc = "saveDirectory" -> 1
      [] OTHER -> 0

\* init calls itself, but every start comes to its end: whatever the database
\* holds and the certificate authority answers, each step leaves fewer to go.
\* In particular the second round never asks about an account again.
EveryStartEnds == [][Start \/ Step \/ QueryFails => StepsLeft' < StepsLeft]_vars

\* The daemon always gets to serve requests again, however its start was
\* interrupted and whether or not its account is still known.
ReadyEventually == pc \notin Serving ~> pc \in Serving
=============================================================================
