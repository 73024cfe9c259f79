--------------------------- MODULE AcmeAccountProofs --------------------------
(***************************************************************************)
(* Theorems about AcmeAccount, for any emails, directories and keys and    *)
(* any number of mishaps and changes of the configuration.                 *)
(***************************************************************************)
EXTENDS AcmeAccount, TLAPS

(***************************************************************************)
(* The inductive invariant.  The keys are written one by one, so what is   *)
(* stored may mix an old account with a new one.  The query refuses a      *)
(* mixture of one private key with the registration of another, though not *)
(* one of email or directory.  A query that fails clears the email first,  *)
(* so that the retry registers a new account instead of asking again.      *)
(***************************************************************************)

\* The user is made for the configured email.
UserConfigured ==
    /\ pc \in {"init", "register", "query", "ready"} \cup Saving \cup Clearing
          => config.email # None
    /\ pc \in {"register", "query", "ready"} \cup Saving
          => user.email = config.email /\ user.key # None

\* While it is saved, the account is the one just registered.
JustRegistered ==
    pc \in Saving =>
        user.registration = [key |-> user.key, email |-> user.email, directory |-> config.directory]

\* The keys are saved in this order.
SavedInOrder ==
    /\ pc \in {"saveKey", "saveRegistration", "saveDirectory"} => stored.email = user.email
    /\ pc \in {"saveRegistration", "saveDirectory"} => stored.key = user.key
    /\ pc = "saveDirectory" => stored.registration = user.registration

\* The account that is queried is the stored one.
QueriesStored == pc = "query" => Reusable /\ StoredUser = user

\* The retry finds no email, since it was cleared first.
RetryFindsNoEmail ==
    /\ pc \in {"clearRegistration", "clearKey", "clearDirectory"} => stored.email = None
    /\ pc = "init" /\ isRetry => stored.email = None
    /\ pc \in {"down", "query"} \cup Clearing => ~isRetry

Bookkeeping ==
    /\ UserConfigured
    /\ JustRegistered
    /\ SavedInOrder
    /\ QueriesStored
    /\ RetryFindsNoEmail

\* Bookkeeping, and the properties it is for
Coherent ==
    /\ Bookkeeping
    /\ ReadyWithItsKey
    /\ ReadyIsStored
    /\ NoNilRegistration

IInv == TypeOK /\ Coherent

\* As long as nothing fails, an account is stored with the email and directory
\* it was registered with, but for the steps in which it replaces another one.
Unmixed ==
    mishaps = 0 /\ stored.registration # None =>
        /\ pc \notin {"saveKey", "saveRegistration"} /\ stored.email # None
              => stored.registration.email = stored.email
        /\ pc # "saveDirectory" /\ stored.directory # None
              => stored.registration.directory = stored.directory

\* As long as the configuration stays, all that is ever stored is made for it.
FirstConfiguration ==
    changes = 0 =>
        /\ stored.registration # None
              => /\ stored.registration.email = config.email
                 /\ stored.registration.directory = config.directory
        /\ stored.directory \in {None, config.directory}

\* The directory that was stored before a single change is not the new one.
SecondConfiguration ==
    changes < 2 /\ stored.registration # None /\ stored.directory = config.directory
        => stored.registration.directory = config.directory

StoredAsConfigured == Unmixed /\ FirstConfiguration /\ SecondConfiguration

\* Nothing is stored at first.
LEMMA InitIInv == Init => IInv /\ StoredAsConfigured
<1> SUFFICES ASSUME Init PROVE IInv /\ StoredAsConfigured
  OBVIOUS
<1>1. TypeOK
  <2>1. 0 \in 0 .. MaxChanges /\ 0 \in 0 .. MaxMishaps
    BY ConstantsAssumption
  <2> QED
    BY <2>1 DEF Init, TypeOK, Stored, User, Registration, NoUser
<1>2. pc = "down" /\ isRetry = FALSE
  BY DEF Init
<1>3. Bookkeeping
  BY <1>2 DEF Bookkeeping, UserConfigured, JustRegistered, SavedInOrder, QueriesStored,
              RetryFindsNoEmail, Saving, Clearing
<1>4. ReadyWithItsKey /\ ReadyIsStored /\ NoNilRegistration
  BY <1>2 DEF ReadyWithItsKey, ReadyIsStored, NoNilRegistration
<1>5. StoredAsConfigured
  <2>1. config.directory # None
    BY ConstantsAssumption DEF Init, Config
  <2> QED BY <2>1 DEF Init, StoredAsConfigured, Unmixed, FirstConfiguration, SecondConfiguration
<1> QED BY <1>1, <1>3, <1>4, <1>5 DEF IInv, Coherent

\* Every step keeps the types.
LEMMA NextKeepsTypes ==
    ASSUME TypeOK, UserConfigured, [Next]_vars
    PROVE  TypeOK'
<1> USE ConstantsAssumption
    DEF TypeOK, Stored, User, Registration, Account, Config, Starting, Saving, Clearing, Serving
<1>1. CASE Start
  BY <1>1 DEF Start
<1>2. CASE Initialize
  BY <1>2 DEF Initialize, StoredUser
<1>3. CASE Register
  <2> DEFINE account == [key |-> user.key, email |-> user.email, directory |-> config.directory]
  <2>1. account \in Account
    BY <1>3 DEF Register, UserConfigured
  <2>2. user' = [user EXCEPT !.registration = account] /\ accounts' = accounts \cup {account}
    BY <1>3 DEF Register
  <2> HIDE DEF account
  <2> QED BY <1>3, <2>1, <2>2 DEF Register
<1>4. CASE SaveEmail
  BY <1>4 DEF SaveEmail, Put
<1>5. CASE SaveKey
  BY <1>5 DEF SaveKey, Put
<1>6. CASE SaveRegistration
  BY <1>6 DEF SaveRegistration, Put
<1>7. CASE SaveDirectory
  BY <1>7 DEF SaveDirectory, Put
<1>8. CASE QueryRegistration
  BY <1>8 DEF QueryRegistration
<1>9. CASE ClearEmail
  BY <1>9 DEF ClearEmail, Delete
<1>10. CASE ClearRegistration
  BY <1>10 DEF ClearRegistration, Delete
<1>11. CASE ClearKey
  BY <1>11 DEF ClearKey, Delete
<1>12. CASE ClearDirectory
  BY <1>12 DEF ClearDirectory, Delete
<1>13. CASE Stop
  BY <1>13 DEF Stop, GoDown, NoUser
<1>14. ASSUME NEW c \in Config, Reconfigure(c) PROVE TypeOK'
  BY <1>14 DEF Reconfigure
<1>15. ASSUME NEW a \in accounts, Drop(a) PROVE TypeOK'
  <2>1. mishaps' \in 0 .. MaxMishaps
    BY <1>15 DEF Drop, Mishap
  <2> QED BY <1>15, <2>1 DEF Drop
<1>16. CASE QueryFails
  <2>1. mishaps' \in 0 .. MaxMishaps
    BY <1>16 DEF QueryFails, Mishap
  <2> QED BY <1>16, <2>1 DEF QueryFails
<1>17. CASE Crash
  <2>1. mishaps' \in 0 .. MaxMishaps
    BY <1>17 DEF Crash, Mishap
  <2>2. NoUser \in User
    BY DEF NoUser
  <2> QED BY <1>17, <2>1, <2>2 DEF Crash, GoDown
<1>18. CASE UNCHANGED vars
  BY <1>18 DEF vars
<1> QED
  BY <1>1, <1>2, <1>3, <1>4, <1>5, <1>6, <1>7, <1>8, <1>9, <1>10, <1>11, <1>12, <1>13, <1>14,
     <1>15, <1>16, <1>17, <1>18
  DEF Next, Step
\* Every step keeps the invariant.
LEMMA NextKeepsIInv ==
    ASSUME IInv, [Next]_vars
    PROVE  IInv'
<1>1. TypeOK'
  BY NextKeepsTypes DEF IInv, Coherent, Bookkeeping
<1>2. /\ Coherent
      /\ stored \in Stored
      /\ user \in User
      /\ config \in Config
      /\ isRetry \in BOOLEAN
  BY DEF IInv, TypeOK
<1> USE <1>2 DEF Coherent, Bookkeeping, UserConfigured, JustRegistered, SavedInOrder, QueriesStored,
            RetryFindsNoEmail, ReadyWithItsKey, ReadyIsStored, NoNilRegistration,
            Reusable, IsValid, StoredUser, Saving, Clearing, Stored, User
<1>3. ASSUME Start PROVE Coherent'
  BY <1>3 DEF Start
<1>4. ASSUME Initialize PROVE Coherent'
  <2>1. CASE Reusable /\ user' = StoredUser /\ pc' = "query"
    BY <1>4, <2>1 DEF Initialize
  <2>2. ASSUME NEW k \in Keys,
               user' = [email |-> config.email, key |-> k, registration |-> None],
               pc' = "register"
        PROVE  Coherent'
    <3>1. k # None
      BY ConstantsAssumption
    <3> QED BY <1>4, <2>2, <3>1 DEF Initialize
  <2> QED BY <1>4, <2>1, <2>2 DEF Initialize
<1>5. ASSUME Register PROVE Coherent'
  BY <1>5 DEF Register
<1>6. ASSUME SaveEmail PROVE Coherent'
  BY <1>6 DEF SaveEmail, Put
<1>7. ASSUME SaveKey PROVE Coherent'
  BY <1>7 DEF SaveKey, Put
<1>8. ASSUME SaveRegistration PROVE Coherent'
  BY <1>8 DEF SaveRegistration, Put
<1>9. ASSUME SaveDirectory PROVE Coherent'
  <2> DEFINE account == [key |-> user.key, email |-> user.email, directory |-> config.directory]
  <2>1. account \in Account
    BY <1>9 DEF SaveDirectory, Config, Account
  <2>2. /\ user.registration = account /\ account # None
        /\ account.key = user.key /\ account.directory = config.directory
    BY <1>9, <2>1, ConstantsAssumption DEF SaveDirectory
  <2> HIDE DEF account
  <2> QED BY <1>9, <2>2 DEF SaveDirectory, Put
<1>10. ASSUME QueryRegistration PROVE Coherent'
  BY <1>10 DEF QueryRegistration, Known
<1>11. ASSUME ClearEmail PROVE Coherent'
  BY <1>11 DEF ClearEmail, Delete
<1>12. ASSUME ClearRegistration PROVE Coherent'
  BY <1>12 DEF ClearRegistration, Delete
<1>13. ASSUME ClearKey PROVE Coherent'
  BY <1>13 DEF ClearKey, Delete
<1>14. ASSUME ClearDirectory PROVE Coherent'
  BY <1>14 DEF ClearDirectory, Delete
<1>15. ASSUME Stop PROVE Coherent'
  BY <1>15 DEF Stop, GoDown, Serving
<1>16. ASSUME NEW c \in Config, Reconfigure(c) PROVE Coherent'
  BY <1>16 DEF Reconfigure
<1>17. ASSUME NEW a \in accounts, Drop(a) PROVE Coherent'
  BY <1>17 DEF Drop
<1>18. ASSUME QueryFails PROVE Coherent'
  BY <1>18 DEF QueryFails
<1>19. ASSUME Crash PROVE Coherent'
  BY <1>19 DEF Crash, GoDown
<1>20. ASSUME UNCHANGED vars PROVE Coherent'
  BY <1>20 DEF vars
<1> QED
  BY <1>1, <1>3, <1>4, <1>5, <1>6, <1>7, <1>8, <1>9, <1>10, <1>11, <1>12, <1>13, <1>14, <1>15, <1>16, <1>17, <1>18, <1>19, <1>20
  DEF Next, Step, IInv
\* A step keeps what is stored as it is configured, under these conditions.
LEMMA NextKeepsConfigured ==
    ASSUME IInv, StoredAsConfigured, [Next]_vars
    PROVE  StoredAsConfigured'
<1>1. /\ Bookkeeping
      /\ stored \in Stored
      /\ mishaps \in Nat /\ changes \in Nat
      /\ config.directory # None
  BY ConstantsAssumption DEF IInv, Coherent, TypeOK, Config
<1> USE <1>1 DEF StoredAsConfigured, Unmixed, FirstConfiguration, SecondConfiguration, Stored
<1>2. CASE Start \/ Initialize \/ Stop \/ QueryRegistration \/ UNCHANGED vars
  BY <1>2 DEF Start, Initialize, Stop, GoDown, QueryRegistration, vars, Serving
<1>3. CASE Register
  BY <1>3 DEF Register
<1>4. CASE SaveEmail \/ SaveKey
  BY <1>4 DEF SaveEmail, SaveKey, Put
<1>5. CASE SaveRegistration
  <2>1. /\ user.registration.email = config.email
        /\ user.registration.email = stored.email
        /\ user.registration.directory = config.directory
    BY <1>5 DEF SaveRegistration, Bookkeeping, UserConfigured, JustRegistered, SavedInOrder, Saving
  <2> QED BY <1>5, <2>1 DEF SaveRegistration, Put
<1>6. CASE SaveDirectory
  <2>1. stored.registration.directory = config.directory
    BY <1>6 DEF SaveDirectory, Bookkeeping, JustRegistered, SavedInOrder, Saving
  <2> QED BY <1>6, <2>1 DEF SaveDirectory, Put
<1>7. CASE ClearEmail \/ ClearRegistration \/ ClearKey \/ ClearDirectory
  BY <1>7 DEF ClearEmail, ClearRegistration, ClearKey, ClearDirectory, Delete
<1>8. ASSUME NEW c \in Config, Reconfigure(c) PROVE StoredAsConfigured'
  <2>1. Unmixed'
    BY <1>8 DEF Reconfigure
  <2>2. changes' = changes + 1 /\ UNCHANGED <<stored, pc>> /\ config' = c
    BY <1>8 DEF Reconfigure
  <2>3. FirstConfiguration'
    BY <2>2
  <2>4. SecondConfiguration'
    <3>1. c.directory # None
      BY ConstantsAssumption DEF Config
    <3>2. CASE changes = 0
      BY <2>2, <3>1, <3>2
    <3>3. CASE changes # 0
      BY <2>2, <3>3
    <3> QED BY <3>2, <3>3
  <2> QED BY <2>1, <2>3, <2>4
<1>9. CASE QueryFails \/ Crash \/ \E a \in accounts : Drop(a)
  <2>1. mishaps' = mishaps + 1 /\ UNCHANGED <<stored, config, changes>>
    BY <1>9 DEF QueryFails, Crash, Drop, Mishap
  <2> QED BY <2>1
<1> QED
  BY <1>2, <1>3, <1>4, <1>5, <1>6, <1>7, <1>8, <1>9 DEF Next, Step

\* The invariant holds in every reachable state.
LEMMA Invariance == Spec => [](IInv /\ StoredAsConfigured)
<1>1. IInv /\ StoredAsConfigured /\ [Next]_vars => (IInv /\ StoredAsConfigured)'
  BY NextKeepsIInv, NextKeepsConfigured
<1> QED BY InitIInv, <1>1, PTL DEF Spec

(***************************************************************************)
(* Theorems                                                                *)
(***************************************************************************)

\* Every reachable state is well typed.
THEOREM TypeCorrect == Spec => []TypeOK
BY Invariance, PTL DEF IInv

\* A daemon that serves requests signs them with the key of its registration,
\* however often it died in init.
THEOREM UsesItsKey == Spec => []ReadyWithItsKey
BY Invariance, PTL DEF IInv, Coherent

\* A daemon that serves requests has stored all that the next start needs to
\* work with the same account.
THEOREM AccountIsKept == Spec => []ReadyIsStored
BY Invariance, PTL DEF IInv, Coherent

\* init never goes on with the nil result of a query that failed.
THEOREM NeverNil == Spec => []NoNilRegistration
BY Invariance, PTL DEF IInv, Coherent

\* Without mishaps, or without changes of the configuration, the account has the
\* configured email and directory; the directory also if it changed only once.
THEOREM AccountOfConfiguration == Spec => []AccountAsConfigured
<1>1. IInv /\ StoredAsConfigured => AccountAsConfigured
  <2> SUFFICES ASSUME IInv, StoredAsConfigured, pc = "ready"
               PROVE  /\ mishaps = 0 \/ changes = 0 => user.registration.email = config.email
                      /\ mishaps = 0 \/ changes < 2
                            => user.registration.directory = config.directory
    BY DEF AccountAsConfigured
  <2>1. /\ stored.email = config.email /\ config.email # None
        /\ stored.directory = config.directory /\ config.directory # None
    BY ConstantsAssumption DEF IInv, Coherent, Bookkeeping, UserConfigured, ReadyIsStored, Reusable, TypeOK, Config
  <2>2. stored.registration = user.registration /\ user.registration # None
    BY DEF IInv, Coherent, ReadyIsStored, ReadyWithItsKey, StoredUser
  <2> QED BY <2>1, <2>2
          DEF StoredAsConfigured, Unmixed, FirstConfiguration, SecondConfiguration
<1> QED BY Invariance, <1>1, PTL

\* Every start comes to its end in at most 13 steps of its own, whatever the
\* certificate authority answers: a second round begins with the email cleared,
\* so that it registers and does not ask again.
THEOREM StartsEnd == Spec => EveryStartEnds
<1>1. IInv /\ [Next]_vars => [Start \/ Step \/ QueryFails => StepsLeft' < StepsLeft]_vars
  <2> SUFFICES ASSUME IInv, Start \/ Step \/ QueryFails PROVE StepsLeft' < StepsLeft
    OBVIOUS
  <2> USE DEF StepsLeft
  <2>1. CASE Start
    <3>1. ~isRetry
      BY <2>1 DEF Start, IInv, Coherent, Bookkeeping, RetryFindsNoEmail
    <3> QED BY <2>1, <3>1 DEF Start
  <2>2. CASE Initialize
    <3>1. pc = "init" /\ isRetry' = isRetry /\ isRetry \in BOOLEAN
      BY <2>2 DEF Initialize, IInv, TypeOK
    <3>2. CASE isRetry
      <4>1. ~Reusable
        BY <3>1, <3>2 DEF IInv, Coherent, Bookkeeping, RetryFindsNoEmail, Reusable, IsValid,
                          StoredUser
      <4>2. pc' = "register"
        BY <2>2, <4>1 DEF Initialize
      <4> QED BY <3>1, <3>2, <4>2
    <3>3. CASE ~isRetry
      <4>1. pc' \in {"query", "register"}
        BY <2>2 DEF Initialize
      <4> QED BY <3>1, <3>3, <4>1
    <3> QED BY <3>2, <3>3
  <2>3. CASE Register
    BY <2>3 DEF Register
  <2>4. CASE SaveEmail \/ SaveKey \/ SaveRegistration \/ SaveDirectory
    BY <2>4 DEF SaveEmail, SaveKey, SaveRegistration, SaveDirectory
  <2>5. CASE QueryRegistration \/ QueryFails
    BY <2>5 DEF QueryRegistration, QueryFails
  <2>6. CASE ClearEmail \/ ClearRegistration \/ ClearKey \/ ClearDirectory
    BY <2>6 DEF ClearEmail, ClearRegistration, ClearKey, ClearDirectory
  <2> QED BY <2>1, <2>2, <2>3, <2>4, <2>5, <2>6 DEF Step
<1> QED BY Invariance, <1>1, PTL DEF Spec, EveryStartEnds
=============================================================================
