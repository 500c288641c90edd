----------------------------- MODULE OperatorProofs -----------------------------
(***************************************************************************)
(* Proofs about the processes of an operator and of the pods it runs: the  *)
(* migration of a Secret (RandomSecret), the calls of the client to the    *)
(* API server (ClientCalls), the SIGTERM of the operator with the tasks    *)
(* that wait for it (OperatorProcess), the containers of a pod that is     *)
(* stopped (VectorAgent) and the conditions of a cluster while a reconcile *)
(* run is under way (StatusConditions), for any number of processes,       *)
(* objects, faults, handles, log lines, workloads, replicas and changes,   *)
(* and any interval and timeout.                                           *)
(***************************************************************************)
EXTENDS RandomSecret, ClientCalls, OperatorProcess, VectorAgent, StatusConditions, TLAPS

(***************************************************************************)
(* RandomSecret: types                                                     *)
(***************************************************************************)
Secrets == [exists: BOOLEAN, contents: Nat, immutable: BOOLEAN]
Labels == {"called", "delete", "recreate", "create", "Ok", "Err"}

\* The Secret a migration starts from: the only one that is ever immutable.
IsLegacy(s) == s.exists /\ s.contents = 1

\* Contents are numbered in the order they are generated.  Only the Secret that was
\* there at first is immutable, and whoever is about to delete has read that one.
SecretTypes ==
  /\ secret \in Secrets /\ (secret.exists => secret.contents \in 1..(fresh - 1))
  /\ secret.immutable => IsLegacy(secret)
  /\ pc \in [Reconcilers -> Labels] /\ existing \in [Reconcilers -> Secrets]
  /\ fresh \in Nat /\ fresh >= 2 /\ kept \in Nat
  /\ interrupted \in BOOLEAN
  /\ \A p \in Reconcilers : pc[p] \in {"delete", "recreate"} => IsLegacy(existing[p])

\* The initial states have their types.
LEMMA SecretTypesInit ==
  ASSUME SecretInit
  PROVE  SecretTypes /\ (secret.exists \/ secret.contents = 0)
<1>1. /\ secret \in Secrets /\ (secret.immutable => secret.exists)
      /\ secret.contents = IF secret.exists THEN 1 ELSE 0
  <2>1. CASE secret = NoSecret
    BY <2>1 DEF NoSecret, Secrets
  <2>2. CASE secret \in [exists: {TRUE}, contents: {1}, immutable: BOOLEAN]
    <3>1. secret.exists = TRUE /\ secret.contents = 1
      BY <2>2
    <3>2. [exists: {TRUE}, contents: {1}, immutable: BOOLEAN] \subseteq Secrets
      BY {TRUE} \subseteq BOOLEAN, {1} \subseteq Nat DEF Secrets
    <3>3. QED
      BY <2>2, <3>1, <3>2
  <2>3. QED
    BY <2>1, <2>2 DEF SecretInit
<1>2. existing \in [Reconcilers -> Secrets] /\ pc \in [Reconcilers -> Labels]
      /\ \A p \in Reconcilers : pc[p] = "called"
  BY DEF SecretInit, NoSecret, Secrets, Labels
<1>3. fresh = 2 /\ kept \in Nat /\ interrupted \in BOOLEAN
  BY <1>1 DEF SecretInit, Secrets
<1>4. fresh \in Nat /\ fresh >= 2 /\ 1 \in 1..(fresh - 1)
  BY <1>3
<1>5. secret.immutable => IsLegacy(secret)
  BY <1>1 DEF IsLegacy
<1>6. QED
  BY <1>1, <1>2, <1>3, <1>4, <1>5 DEF SecretTypes

\* So has what a process creates.
LEMMA StoredTypes ==
  ASSUME SecretTypes, NEW p \in Reconcilers, StoreSecret(p), Generated(p)
  PROVE  /\ secret' \in Secrets /\ secret'.exists /\ ~secret'.immutable
         /\ secret'.contents = IF pc[p] = "recreate" THEN 1 ELSE fresh
         /\ fresh' \in Nat /\ fresh' >= 2 /\ secret'.contents \in 1..(fresh' - 1)
         /\ kept' = IF kept = 0 THEN secret'.contents ELSE kept
<1>1. CASE pc[p] = "recreate"
  <2>1. /\ secret' = [existing[p] EXCEPT !.immutable = FALSE]
        /\ existing[p] \in Secrets /\ IsLegacy(existing[p])
    BY <1>1 DEF StoreSecret, mutable_secret, SecretTypes
  <2>2. secret' \in Secrets /\ secret'.exists /\ secret'.contents = 1 /\ ~secret'.immutable
    BY <2>1 DEF IsLegacy, Secrets
  <2>3. fresh' = fresh /\ fresh \in Nat /\ fresh >= 2
    BY <1>1 DEF Generated, SecretTypes
  <2>4. 1 \in 1..(fresh' - 1)
    BY <2>3
  <2>5. kept' = IF kept = 0 THEN secret'.contents ELSE kept
    BY DEF StoreSecret
  <2>6. QED
    BY <1>1, <2>2, <2>3, <2>4, <2>5 DEF Secrets
<1>2. CASE pc[p] = "create"
  <2>1. secret' = [exists |-> TRUE, contents |-> fresh, immutable |-> FALSE]
    BY <1>2 DEF StoreSecret, random_secret
  <2>2. fresh' = fresh + 1 /\ fresh \in Nat /\ fresh >= 2
    BY <1>2 DEF Generated, SecretTypes
  <2>3. fresh \in 1..(fresh' - 1) /\ fresh' \in Nat /\ fresh' >= 2
    BY <2>2
  <2>4. kept' = IF kept = 0 THEN secret'.contents ELSE kept
    BY DEF StoreSecret
  <2>5. QED
    BY <1>2, <2>1, <2>2, <2>3, <2>4 DEF Secrets
<1>3. QED
  BY <1>1, <1>2 DEF StoreSecret

\* Every step keeps the types.
LEMMA SecretTypesStep == SecretTypes /\ [SecretNext]_secretVars => SecretTypes'
<1> SUFFICES ASSUME SecretTypes, [SecretNext]_secretVars PROVE SecretTypes'
  OBVIOUS
<1> USE DEF SecretTypes
<1>1. NoSecret \in Secrets /\ ~NoSecret.exists /\ ~NoSecret.immutable
  BY DEF NoSecret, Secrets
<1>2. ASSUME NEW p \in Reconcilers, Get(p) PROVE SecretTypes'
  <2>1. secret.exists /\ secret.immutable => IsLegacy(secret)
    OBVIOUS
  <2>2. QED
    BY <1>2, <2>1 DEF Get, Goto, Interrupt, Labels
<1>3. ASSUME NEW p \in Reconcilers, Delete(p) PROVE SecretTypes'
  BY <1>1, <1>3 DEF Delete, Goto, Interrupt, Labels
<1>4. ASSUME NEW p \in Reconcilers, DeleteLost(p) PROVE SecretTypes'
  BY <1>1, <1>4 DEF DeleteLost, Goto, Interrupt, Labels
<1>5. ASSUME NEW p \in Reconcilers,
             DeleteNotFound(p) \/ DeleteRejected(p) \/ AlreadyExists(p)
             \/ CreateRejected(p) \/ Crash(p)
      PROVE  SecretTypes'
  BY <1>5 DEF DeleteNotFound, DeleteRejected, AlreadyExists, CreateRejected, Crash,
              Goto, Interrupt, Labels
<1>6. ASSUME NEW p \in Reconcilers, Create(p) \/ CreateLost(p) PROVE SecretTypes'
  <2>1. StoreSecret(p) /\ Generated(p)
    BY <1>6 DEF Create, CreateLost
  <2>2. /\ secret' \in Secrets /\ ~secret'.immutable
        /\ fresh' \in Nat /\ fresh' >= 2 /\ secret'.contents \in 1..(fresh' - 1)
        /\ kept' = IF kept = 0 THEN secret'.contents ELSE kept
    BY <2>1, StoredTypes
  <2>3. UNCHANGED <<existing, interrupted>> /\ \E l \in {"Ok", "Err"} : Goto(p, l)
    BY <1>6 DEF Create, CreateLost
  <2>4. QED
    BY <2>2, <2>3 DEF Goto, Labels
<1>7. CASE UserDelete
  BY <1>1, <1>7 DEF UserDelete
<1>8. CASE UNCHANGED secretVars
  BY <1>8 DEF secretVars
<1>9. QED
  BY <1>2, <1>3, <1>4, <1>5, <1>6, <1>7, <1>8 DEF SecretNext, SecretStep

(***************************************************************************)
(* RandomSecret: contents are kept unless a migration is interrupted       *)
(***************************************************************************)
\* As long as no migration was interrupted: a stored Secret has the contents users
\* rely on.  A process between its delete and its create is alone in that, it holds
\* these contents, and nobody is about to create other ones; without such a process
\* a missing Secret means that there is nothing to be kept.  Where somebody is about
\* to create new contents, the first ones are gone for good.
Undisturbed ==
  /\ secret.exists => kept = secret.contents
  /\ \A p \in Reconcilers : pc[p] = "recreate" =>
       /\ ~secret.exists /\ kept = 1
       /\ \A q \in Reconcilers : q # p => pc[q] \notin {"recreate", "create"}
  /\ ~secret.exists /\ (\A p \in Reconcilers : pc[p] # "recreate") => kept = 0
  /\ \A p \in Reconcilers : pc[p] = "create" => (secret.exists => secret.contents # 1)

SecretInv == SecretTypes /\ (~interrupted => Undisturbed)

\* The initial states satisfy the inductive invariant.
LEMMA SecretInvInit == SecretInit => SecretInv
<1> SUFFICES ASSUME SecretInit PROVE SecretInv
  OBVIOUS
<1>1. Undisturbed
  <2>1. kept = secret.contents /\ \A p \in Reconcilers : pc[p] = "called"
    BY DEF SecretInit
  <2>2. QED
    BY <2>1, SecretTypesInit DEF Undisturbed
<1>2. QED
  BY <1>1, SecretTypesInit DEF SecretInv

\* Every step keeps it.
LEMMA SecretInvStep == SecretInv /\ [SecretNext]_secretVars => SecretInv'
<1> SUFFICES ASSUME SecretInv, [SecretNext]_secretVars, ~interrupted' PROVE Undisturbed'
  BY SecretTypesStep DEF SecretInv
<1>1. SecretTypes /\ SecretTypes'
  BY SecretTypesStep DEF SecretInv
<1>2. ~interrupted
  BY DEF SecretNext, SecretStep, Get, Delete, DeleteNotFound, DeleteRejected, DeleteLost, Create,
         CreateLost, AlreadyExists, CreateRejected, Crash, UserDelete, Interrupt, secretVars
<1>3. Undisturbed
  BY <1>2 DEF SecretInv
<1>4. ASSUME NEW p \in Reconcilers, Get(p) PROVE Undisturbed'
  <2>1. ~secret.exists => \A q \in Reconcilers : pc[q] # "recreate"
    BY <1>4 DEF Get, Interrupt, Migrating
  <2>2. UNCHANGED <<secret, kept>> /\ pc[p] # "recreate"
    BY <1>4 DEF Get
  <2>3. /\ pc'[p] \in {"create", "delete", "Ok"} /\ (pc'[p] = "create" => ~secret.exists)
        /\ \A q \in Reconcilers : q # p => pc'[q] = pc[q]
    BY <1>1, <1>4 DEF Get, Goto, SecretTypes
  <2>4. QED
    BY <1>3, <2>1, <2>2, <2>3 DEF Undisturbed
<1>5. ASSUME NEW p \in Reconcilers, Delete(p) PROVE Undisturbed'
  <2>1. secret.contents = 1
    BY <1>1, <1>5 DEF Delete, Interrupt, SecretTypes, IsLegacy
  <2>2. secret.exists /\ ~secret'.exists /\ kept' = kept
    BY <1>5 DEF Delete, NoSecret
  <2>3. pc'[p] = "recreate" /\ \A q \in Reconcilers : q # p => pc'[q] = pc[q]
    BY <1>1, <1>5 DEF Delete, Goto, SecretTypes
  <2>4. kept = 1 /\ \A q \in Reconcilers : pc[q] \notin {"recreate", "create"}
    BY <1>3, <2>1, <2>2 DEF Undisturbed
  <2>5. QED
    BY <2>2, <2>3, <2>4 DEF Undisturbed
<1>6. ASSUME NEW p \in Reconcilers, DeleteLost(p) PROVE Undisturbed'
  BY <1>6 DEF DeleteLost, Interrupt
<1>7. ASSUME NEW p \in Reconcilers,
             DeleteNotFound(p) \/ DeleteRejected(p) \/ AlreadyExists(p)
             \/ CreateRejected(p) \/ Crash(p)
      PROVE  Undisturbed'
  <2>1. UNCHANGED <<secret, kept>>
    BY <1>7 DEF DeleteNotFound, DeleteRejected, AlreadyExists, CreateRejected, Crash
  <2>2. /\ pc'[p] \in {"Err", "called"}
        /\ \A q \in Reconcilers : q # p => pc'[q] = pc[q]
    BY <1>1, <1>7 DEF DeleteNotFound, DeleteRejected, AlreadyExists, CreateRejected, Crash,
                      Goto, SecretTypes
  <2>3. pc[p] # "recreate"
    BY <1>3, <1>7 DEF DeleteNotFound, DeleteRejected, AlreadyExists, CreateRejected, Crash,
                      Interrupt, Migrating, Undisturbed
  <2>4. QED
    BY <1>3, <2>1, <2>2, <2>3 DEF Undisturbed
<1>8. ASSUME NEW p \in Reconcilers, Create(p) \/ CreateLost(p) PROVE Undisturbed'
  <2>1. StoreSecret(p) /\ Generated(p)
    BY <1>8 DEF Create, CreateLost
  <2>2. /\ secret'.exists /\ secret'.contents = IF pc[p] = "recreate" THEN 1 ELSE fresh
        /\ kept' = IF kept = 0 THEN secret'.contents ELSE kept
    BY <1>1, <2>1, StoredTypes
  <2>3. pc[p] \in {"recreate", "create"} /\ ~secret.exists
    BY <2>1 DEF StoreSecret
  <2>4. /\ pc'[p] \in {"Ok", "Err"}
        /\ \A q \in Reconcilers : q # p => pc'[q] = pc[q]
    BY <1>1, <1>8 DEF Create, CreateLost, Goto, SecretTypes
  <2>5. \A q \in Reconcilers : q # p => pc[q] # "recreate"
    BY <1>3, <2>3 DEF Undisturbed
  <2>6. CASE pc[p] = "recreate"
    BY <1>3, <2>2, <2>4, <2>5, <2>6 DEF Undisturbed
  <2>7. CASE pc[p] = "create"
    <3>1. kept = 0 /\ fresh # 1
      BY <1>1, <1>3, <2>3, <2>5, <2>7 DEF Undisturbed, SecretTypes
    <3>2. QED
      BY <2>2, <2>4, <2>5, <2>7, <3>1 DEF Undisturbed
  <2>8. QED
    BY <2>3, <2>6, <2>7
<1>9. CASE UserDelete
  <2>1. secret.exists /\ ~secret'.exists /\ kept' = 0 /\ pc' = pc
    BY <1>9 DEF UserDelete, NoSecret
  <2>2. QED
    BY <1>3, <2>1 DEF Undisturbed
<1>10. CASE UNCHANGED secretVars
  BY <1>3, <1>10 DEF secretVars, Undisturbed
<1>11. QED
  BY <1>4, <1>5, <1>6, <1>7, <1>8, <1>9, <1>10 DEF SecretNext, SecretStep

\* The contents of the Secret are kept (create_random_secret_if_not_exists) by any
\* number of processes that migrate it, with requests that are rejected and responses
\* that are lost, unless a migration is interrupted between its delete and its create.
THEOREM ContentsAreKept == SecretSpec => []KeptUnlessInterrupted
<1>1. SecretInv => KeptUnlessInterrupted
  BY DEF SecretInv, KeptUnlessInterrupted, Undisturbed, ContentsKept
<1>2. SecretInit /\ [][SecretNext]_secretVars => []SecretInv
  BY SecretInvInit, SecretInvStep, PTL
<1>3. QED
  BY <1>1, <1>2, PTL DEF SecretSpec

\* A process that is alone is about to delete what it has read.
ReadIsStored ==
  \A p \in Reconcilers : pc[p] = "delete" /\ secret.exists => secret.contents = 1

\* The promise of create_random_secret_if_not_exists, "The contents of the Secret
\* will be kept", for an operator that is alone: it holds whatever is rejected before
\* the delete, if the response to the create is lost, and when users delete the
\* Secret.  The three faults that are excluded all fall between delete and create.
THEOREM ContentsAreKeptAlone ==
  ASSUME \A p, q \in Reconcilers : p = q,
         Faults \cap {"delete lost", "create rejected", "crash"} = {}
  PROVE  SecretSpec => []ContentsKept
<1> DEFINE Inv == SecretInv /\ ~interrupted /\ ReadIsStored
<1>1. ASSUME SecretInit PROVE Inv
  <2>1. SecretInv
    BY <1>1, SecretInvInit
  <2>2. ~interrupted /\ ReadIsStored
    BY <1>1 DEF SecretInit, ReadIsStored
  <2>3. QED
    BY <2>1, <2>2
<1>2. ASSUME Inv, [SecretNext]_secretVars PROVE Inv'
  <2>1. SecretInv' /\ SecretTypes
    BY <1>2, SecretInvStep DEF SecretInv
  <2>2. ~Disturb("delete lost") /\ ~Disturb("create rejected") /\ ~Disturb("crash")
    BY DEF Disturb
  <2>3. ASSUME NEW p \in Reconcilers, Get(p) PROVE ~interrupted' /\ ReadIsStored'
    <3>1. ~interrupted'
      BY <1>2, <2>3 DEF Get, Interrupt, Migrating
    <3>2. pc'[p] = "delete" => secret.contents = 1
      BY <2>1, <2>3 DEF Get, Goto, SecretTypes, IsLegacy
    <3>3. QED
      BY <2>3, <3>1, <3>2 DEF Get, ReadIsStored
  <2>4. ASSUME NEW p \in Reconcilers, Delete(p) PROVE ~interrupted' /\ ReadIsStored'
    <3>1. secret.contents = existing[p].contents
      BY <1>2, <2>1, <2>4 DEF Delete, ReadIsStored, SecretTypes, IsLegacy
    <3>2. QED
      BY <1>2, <2>4, <3>1 DEF Delete, Interrupt, NoSecret, ReadIsStored
  <2>5. ASSUME NEW p \in Reconcilers, Create(p) \/ CreateLost(p)
        PROVE  ~interrupted' /\ ReadIsStored'
    <3>1. ~interrupted'
      BY <1>2, <2>5 DEF Create, CreateLost
    <3>2. \A q \in Reconcilers : pc'[q] \in {"Ok", "Err"}
      BY <2>1, <2>5 DEF Create, CreateLost, Goto, SecretTypes
    <3>3. QED
      BY <3>1, <3>2 DEF ReadIsStored
  <2>6. ASSUME NEW p \in Reconcilers, DeleteNotFound(p) \/ DeleteRejected(p) \/ AlreadyExists(p)
        PROVE  ~interrupted' /\ ReadIsStored'
    <3>1. ~interrupted'
      BY <1>2, <2>6 DEF DeleteNotFound, DeleteRejected, AlreadyExists
    <3>2. \A q \in Reconcilers : pc'[q] = "Err"
      BY <2>1, <2>6 DEF DeleteNotFound, DeleteRejected, AlreadyExists, Goto, SecretTypes
    <3>3. QED
      BY <3>1, <3>2 DEF ReadIsStored
  <2>7. ASSUME NEW p \in Reconcilers, DeleteLost(p) \/ CreateRejected(p) \/ Crash(p) PROVE FALSE
    BY <2>2, <2>7 DEF DeleteLost, CreateRejected, Crash
  <2>8. ASSUME UserDelete PROVE ~interrupted' /\ ReadIsStored'
    BY <1>2, <2>8 DEF UserDelete, NoSecret, ReadIsStored
  <2>9. ASSUME UNCHANGED secretVars PROVE ~interrupted' /\ ReadIsStored'
    BY <1>2, <2>9 DEF secretVars, ReadIsStored
  <2>10. QED
    BY <1>2, <2>1, <2>3, <2>4, <2>5, <2>6, <2>7, <2>8, <2>9 DEF SecretNext, SecretStep
<1>3. ASSUME Inv PROVE ContentsKept
  BY <1>3 DEF SecretInv, ContentsKept, Undisturbed
<1>4. SecretInit => Inv
  BY <1>1
<1>5. Inv /\ [SecretNext]_secretVars => Inv'
  BY <1>2
<1>6. Inv => ContentsKept
  BY <1>3
<1> HIDE DEF Inv
<1>7. QED
  BY <1>4, <1>5, <1>6, PTL DEF SecretSpec

(***************************************************************************)
(* ClientCalls implements AtomicStore                                      *)
(***************************************************************************)
\* A call that returns an object returns one, or none.
HoldsObject(k) ==
  k # None /\ k.op \in Returning /\ k.reply # None /\ k.reply.ok => k.reply.value \in Objects \cup {None}

\* A call of ensure_deleted knows the uid of the object it deleted exactly while it
\* waits for that object to be gone.
ClientInv ==
  /\ store \in [Paths -> Objects \cup {None}]
  /\ uids \in Nat
  /\ call \in [Callers -> Requests \cup {None}]
  /\ \A c \in Callers : call[c] # None => (call[c].at = "await" <=> call[c].uid # None)
  /\ \A c \in Callers : HoldsObject(call[c])

\* The object of a call.
LEMMA StoredObject ==
  ASSUME ClientInv, NEW c \in Callers, call[c] # None
  PROVE  /\ call[c] \in Requests /\ call[c].resource \in Resources
         /\ path(call[c].resource) \in Paths
         /\ Stored(c) \in Objects \cup {None}
<1>1. call[c] \in Requests /\ call[c].resource \in Resources
  BY DEF ClientInv, Requests
<1>2. path(call[c].resource) \in Paths
  BY <1>1 DEF Paths
<1>3. QED
  BY <1>1, <1>2 DEF ClientInv, Stored

\* What is written at the path of a resource changes that resource and no other: the
\* paths of two resources differ.
LEMMA WriteChangesOne ==
  ASSUME ClientInv, NEW r \in Resources, NEW o \in Objects \cup {None},
         store' = [store EXCEPT ![path(r)] = o]
  PROVE  /\ store' \in [Paths -> Objects \cup {None}]
         /\ store'[path(r)] = o
         /\ \A s \in Resources : s # r => store'[path(s)] = store[path(s)]
<1>1. \A s \in Resources : path(s) \in Paths
  BY DEF Paths
<1>2. \A s \in Resources : s # r => path(s) # path(r)
  BY ClientConstants
<1>3. QED
  BY <1>1, <1>2 DEF ClientInv

\* A legal write is a change of the abstract store.
LEMMA LegalWrite ==
  ASSUME ClientInv, NEW r \in Resources, NEW o \in Objects \cup {None},
         store' = [store EXCEPT ![path(r)] = o], Store!LegalChange(store[path(r)], o)
  PROVE  Store!OnlyChanges(r)
<1>1. /\ store'[path(r)] = o
      /\ \A s \in Resources : s # r => store'[path(s)] = store[path(s)]
  BY WriteChangesOne
<1>2. [s \in Resources |-> store[path(s)]][r] = store[path(r)]
  OBVIOUS
<1>3. [s \in Resources |-> store'[path(s)]][r] = o
  BY <1>1
<1>4. [s \in Resources |-> store'[path(s)]]
      = [[s \in Resources |-> store[path(s)]] EXCEPT ![r] = o]
  BY <1>1
<1>5. QED
  BY <1>2, <1>3, <1>4 DEF Store!OnlyChanges

\* A step that leaves the store alone changes no resource.
LEMMA NothingWritten ==
  ASSUME ClientInv, NEW r \in Resources, UNCHANGED <<store, uids>>
  PROVE  Store!OnlyChanges(r)
<1>1. path(r) \in Paths
  BY DEF Paths
<1>2. store[path(r)] \in Objects \cup {None} /\ store' = [store EXCEPT ![path(r)] = store[path(r)]]
  BY <1>1 DEF ClientInv
<1>3. Store!LegalChange(store[path(r)], store[path(r)])
  BY <1>2 DEF Store!LegalChange, Objects
<1>4. QED
  BY <1>2, <1>3, LegalWrite

\* An answer to a call: the reply is set and nothing else of the call changes.
LEMMA CallAnswered ==
  ASSUME ClientInv, NEW c \in Callers, Asks(c), NEW reply \in Replies, Reply(c, reply)
  PROVE  /\ call' \in [Callers -> Requests \cup {None}]
         /\ \A d \in Callers : call'[d] # None => (call'[d].at = "await" <=> call'[d].uid # None)
         /\ call'[c] = [call[c] EXCEPT !.reply = reply] /\ call'[c] # None
         /\ \A d \in Callers : d # c => call'[d] = call[d]
<1>1. call[c] \in Requests /\ call[c] # None
  BY StoredObject DEF Asks
<1>2. [call[c] EXCEPT !.reply = reply] \in Requests
  BY <1>1 DEF Requests
<1>3. /\ [call[c] EXCEPT !.reply = reply].at = call[c].at
      /\ [call[c] EXCEPT !.reply = reply].uid = call[c].uid
  BY <1>1 DEF Requests
<1>4. /\ call'[c] = [call[c] EXCEPT !.reply = reply]
      /\ \A d \in Callers : d # c => call'[d] = call[d]
      /\ call' \in [Callers -> Requests \cup {None}]
  BY <1>2 DEF ClientInv, Reply
<1>5. \A d \in Callers : call'[d] # None => (call'[d].at = "await" <=> call'[d].uid # None)
  <2>1. call[c].at = "await" <=> call[c].uid # None
    BY <1>1 DEF ClientInv
  <2>2. call'[c].at = "await" <=> call'[c].uid # None
    BY <1>3, <1>4, <2>1
  <2>3. QED
    BY <1>4, <2>2 DEF ClientInv
<1>6. QED
  BY <1>2, <1>4, <1>5, ClientConstants

\* What an answered call holds afterwards.
LEMMA AnswerHolds ==
  ASSUME ClientInv, NEW c \in Callers, Asks(c), NEW reply \in Replies, Reply(c, reply),
         reply.ok /\ call[c].op \in Returning => reply.value \in Objects \cup {None}
  PROVE  \A d \in Callers : HoldsObject(call'[d])
<1>1. call[c] \in Requests /\ call[c] # None
  BY StoredObject DEF Asks
<1>2. /\ call'[c] = [call[c] EXCEPT !.reply = reply]
      /\ \A d \in Callers : d # c => call'[d] = call[d]
  BY CallAnswered
<1>3. call'[c].op = call[c].op /\ call'[c].reply = reply
  BY <1>1, <1>2 DEF Requests
<1>4. HoldsObject(call'[c])
  BY <1>3 DEF HoldsObject
<1>5. QED
  BY <1>2, <1>4 DEF ClientInv

\* What is promised of a call that returns the object is the object before or after it.
LEMMA PromisedObject ==
  ASSUME NEW k, NEW before, NEW after, NEW value, k.op \in Returning,
         Store!Promise(k, before, after, value)
  PROVE  value \in {before, after}
<1>1. k.op \in {"get", "get_opt", "create", "create_if_missing", "merge_patch", "json_patch",
                "apply_patch", "update"}
  BY DEF Returning, Operations
<1>2. QED
  BY <1>1 DEF Store!Promise

\* The call of c, as AtomicStore has it.
AskedOf(c) == IF call[c] = None THEN None
              ELSE [op |-> call[c].op, resource |-> call[c].resource, read |-> call[c].read,
                    uid |-> call[c].uid, reply |-> call[c].reply]

\* An answer that tells what happened to the resource is one of AtomicStore.
LEMMA AnswerRefines ==
  ASSUME ClientInv, NEW c \in Callers, Asks(c), NEW reply \in Replies, Reply(c, reply),
         LET r == call[c].resource IN
         \/ Store!OnlyChanges(r) /\ ~reply.ok
         \/ /\ Store!OnlyChanges(r) /\ reply.ok
            /\ Store!Promise(call[c], store[path(r)], store'[path(r)], reply.value)
         \/ /\ call[c].op = "list" /\ UNCHANGED <<store, uids>>
            /\ reply.value = {s \in Resources : endpoint(s) = endpoint(r) /\ store[path(s)] # None}
  PROVE  Store!Answer(c)
<1> DEFINE objs == [r \in Resources |-> store[path(r)]]
           as == [d \in Callers |-> AskedOf(d)]
           col == [r \in Resources |-> endpoint(r)]
<1>1. call[c] \in Requests /\ call[c] # None /\ call[c].reply = None /\ call[c].resource \in Resources
  BY StoredObject DEF Asks
<1>2. /\ call'[c] = [call[c] EXCEPT !.reply = reply] /\ call'[c] # None
      /\ \A d \in Callers : d # c => call'[d] = call[d]
  BY CallAnswered
<1>3. /\ call'[c].op = call[c].op /\ call'[c].resource = call[c].resource
      /\ call'[c].read = call[c].read /\ call'[c].uid = call[c].uid /\ call'[c].reply = reply
  BY <1>1, <1>2 DEF Requests
<1>4. /\ as[c] = [op |-> call[c].op, resource |-> call[c].resource, read |-> call[c].read,
                  uid |-> call[c].uid, reply |-> None]
      /\ as'[c] = [op |-> call[c].op, resource |-> call[c].resource, read |-> call[c].read,
                   uid |-> call[c].uid, reply |-> reply]
      /\ \A d \in Callers : d # c => as'[d] = as[d]
  BY <1>1, <1>2, <1>3 DEF AskedOf
<1>5. as[c] # None /\ as[c].reply = None /\ as'[c].reply = reply /\ reply # None
  <2>1. as[c] \in AskedCalls
    BY <1>1, <1>4 DEF AskedCalls, Requests
  <2>2. QED
    BY <1>4, <2>1, ClientConstants
<1>6. as' = [as EXCEPT ![c].reply = as'[c].reply]
  <2>1. as'[c] = [as[c] EXCEPT !.reply = reply]
    BY <1>4
  <2>2. QED
    BY <1>4, <1>5, <2>1
<1>7. /\ as[c].op = call[c].op /\ as[c].resource = call[c].resource
      /\ as[c].read = call[c].read /\ as[c].uid = call[c].uid
      /\ objs[call[c].resource] = store[path(call[c].resource)]
      /\ objs'[call[c].resource] = store'[path(call[c].resource)]
  BY <1>1, <1>4
<1>8. \/ Store!OnlyChanges(as[c].resource) /\ ~as'[c].reply.ok
      \/ /\ Store!OnlyChanges(as[c].resource) /\ as'[c].reply.ok
         /\ Store!Promise(as[c], objs[as[c].resource], objs'[as[c].resource], as'[c].reply.value)
      \/ /\ as[c].op = "list" /\ UNCHANGED <<objs, uids>>
         /\ as'[c].reply.value = {r \in Resources : col[r] = col[as[c].resource] /\ objs[r] # None}
  <2>1. ASSUME Store!Promise(call[c], store[path(call[c].resource)],
                             store'[path(call[c].resource)], reply.value)
        PROVE  Store!Promise(as[c], objs[as[c].resource], objs'[as[c].resource], as'[c].reply.value)
    BY <1>5, <1>7, <2>1 DEF Store!Promise
  <2>2. {s \in Resources : endpoint(s) = endpoint(call[c].resource) /\ store[path(s)] # None}
        = {r \in Resources : col[r] = col[as[c].resource] /\ objs[r] # None}
    BY <1>1, <1>7
  <2>3. QED
    BY <1>5, <1>7, <2>1, <2>2
<1>9. QED
  BY <1>5, <1>6, <1>8 DEF Store!Answer, AskedOf

\* A request that is answered and changes nothing.
LEMMA AnswerOnly ==
  ASSUME ClientInv, NEW c \in Callers, Asks(c), UNCHANGED <<store, uids>>,
         NEW reply \in Replies, Reply(c, reply),
         reply.ok => Store!Promise(call[c], Stored(c), Stored(c), reply.value)
  PROVE  ClientInv' /\ Store!Answer(c)
<1>1. Stored(c) \in Objects \cup {None}
  BY StoredObject DEF Asks
<1>2. \A d \in Callers : HoldsObject(call'[d])
  BY <1>1, AnswerHolds, PromisedObject
<1>3. ClientInv'
  BY <1>2, CallAnswered DEF ClientInv
<1>4. Store!OnlyChanges(call[c].resource)
  BY StoredObject, NothingWritten DEF Asks
<1>5. QED
  BY <1>3, <1>4, AnswerRefines DEF Stored

\* A request that is answered and puts o at the path of its resource.
LEMMA AnswerPut ==
  ASSUME ClientInv, NEW c \in Callers, Asks(c), NEW o \in Objects \cup {None}, Put(c, o),
         uids' \in Nat, Store!LegalChange(Stored(c), o),
         NEW reply \in Replies, Reply(c, reply),
         reply.ok => Store!Promise(call[c], Stored(c), o, reply.value)
  PROVE  ClientInv' /\ Store!Answer(c)
<1>1. call[c].resource \in Resources /\ Stored(c) \in Objects \cup {None}
  BY StoredObject DEF Asks
<1>2. store' \in [Paths -> Objects \cup {None}] /\ store'[path(call[c].resource)] = o
  BY <1>1, WriteChangesOne DEF Put
<1>3. \A d \in Callers : HoldsObject(call'[d])
  BY <1>1, AnswerHolds, PromisedObject
<1>4. ClientInv'
  BY <1>2, <1>3, CallAnswered DEF ClientInv
<1>5. Store!OnlyChanges(call[c].resource)
  BY <1>1, LegalWrite DEF Put, Stored
<1>6. QED
  BY <1>2, <1>4, <1>5, AnswerRefines DEF Stored

\* Objects and lists of resources are replies.
LEMMA OkReply ==
  ASSUME NEW v \in Objects \cup {None} \cup SUBSET Resources
  PROVE  Ok(v) \in Replies /\ Ok(v).ok /\ Ok(v).value = v
  BY DEF Ok, Replies

\* Refusals, and the calls that only read.
LEMMA ReadsRefine ==
  ASSUME ClientInv, NEW c \in Callers, Refuse(c) \/ get(c) \/ list(c) \/ wait_created(c)
  PROVE  ClientInv' /\ Store!Answer(c)
<1>1. Asks(c) /\ UNCHANGED <<store, uids>> /\ Stored(c) \in Objects \cup {None}
  BY StoredObject DEF Refuse, get, list, wait_created, At, Asks
<1>2. CASE Refuse(c)
  <2>1. Err("refused") \in Replies /\ ~Err("refused").ok
    BY DEF Err, Replies, Errors
  <2>2. Reply(c, Err("refused"))
    BY <1>2 DEF Refuse
  <2>3. QED
    BY <1>1, <2>1, <2>2, AnswerOnly
<1>3. CASE get(c)
  <2>1. CASE call[c].op = "get" /\ Stored(c) = None
    <3>1. Err("GetResource") \in Replies /\ ~Err("GetResource").ok
      BY DEF Err, Replies, Errors
    <3>2. Reply(c, Err("GetResource"))
      BY <1>3, <2>1 DEF get
    <3>3. QED
      BY <1>1, <3>1, <3>2, AnswerOnly
  <2>2. CASE ~(call[c].op = "get" /\ Stored(c) = None)
    <3>1. Store!Promise(call[c], Stored(c), Stored(c), Stored(c))
      BY <1>3 DEF get, Store!Promise
    <3>2. Ok(Stored(c)) \in Replies /\ Ok(Stored(c)).value = Stored(c)
      BY <1>1, OkReply
    <3>3. QED
      BY <1>1, <1>3, <2>2, <3>1, <3>2, AnswerOnly DEF get
  <2>3. QED
    BY <2>1, <2>2
<1>4. CASE list(c)
  <2> DEFINE found == {r \in Resources : /\ endpoint(r) = endpoint(call[c].resource)
                                         /\ store[path(r)] # None}
  <2>1. Ok(found) \in Replies /\ Ok(found).value = found
    BY OkReply
  <2>2. Reply(c, Ok(found)) /\ call[c].op = "list"
    BY <1>4 DEF list
  <2>3. call[c].op \notin Returning
    BY <2>2 DEF Returning
  <2>4. ClientInv'
    BY <1>1, <2>1, <2>2, <2>3, CallAnswered, AnswerHolds DEF ClientInv
  <2>5. QED
    BY <1>1, <2>1, <2>2, <2>4, AnswerRefines
<1>5. CASE wait_created(c)
  <2>1. Store!Promise(call[c], Stored(c), Stored(c), Stored(c))
    BY <1>5 DEF wait_created, At, Store!Promise
  <2>2. Ok(Stored(c)) \in Replies /\ Ok(Stored(c)).value = Stored(c)
    BY <1>1, OkReply
  <2>3. QED
    BY <1>1, <1>5, <2>1, <2>2, AnswerOnly DEF wait_created
<1>6. QED
  BY <1>2, <1>3, <1>4, <1>5

\* A creation takes effect at one moment, for create, for the second request of
\* create_if_missing and for a server-side apply of a missing object.
LEMMA CreateRefines ==
  ASSUME ClientInv, NEW c \in Callers, Asks(c), create(c),
         call[c].op \in {"create", "create_if_missing", "apply_patch"}
  PROVE  ClientInv' /\ Store!Answer(c)
<1>1. CASE Stored(c) # None /\ Reply(c, Err("CreateResource")) /\ UNCHANGED <<store, uids>>
  <2>1. Err("CreateResource") \in Replies /\ ~Err("CreateResource").ok
    BY DEF Err, Replies, Errors
  <2>2. QED
    BY <1>1, <2>1, AnswerOnly
<1>2. CASE /\ Stored(c) = None /\ Put(c, NewObject) /\ uids' = uids + 1
           /\ Answered(c, NewObject)
  <2>1. NewObject \in Objects /\ NewObject # None /\ NewObject.uid = uids + 1 /\ uids' \in Nat
    <3>1. NewObject \in Objects /\ NewObject.uid = uids + 1 /\ uids' \in Nat
      BY <1>2 DEF ClientInv, NewObject, Objects
    <3>2. QED
      BY <3>1, ClientConstants
  <2>2. Store!LegalChange(Stored(c), NewObject)
    BY <1>2, <2>1 DEF Store!LegalChange
  <2>3. Store!Promise(call[c], Stored(c), NewObject, NewObject)
    BY <1>2, <2>1 DEF Store!Promise
  <2>4. Ok(NewObject) \in Replies /\ Ok(NewObject).value = NewObject
    BY <2>1, OkReply
  <2>5. CASE Reply(c, Ok(NewObject))
    BY <1>2, <2>1, <2>2, <2>3, <2>4, <2>5, AnswerPut
  <2>6. CASE Reply(c, Err("lost"))
    <3>1. Err("lost") \in Replies /\ ~Err("lost").ok
      BY DEF Err, Replies, Errors
    <3>2. QED
      BY <1>2, <2>1, <2>2, <2>6, <3>1, AnswerPut
  <2>7. QED
    BY <1>2, <2>5, <2>6 DEF Answered
<1>3. QED
  BY <1>1, <1>2 DEF create

\* An answer that is an error.
LEMMA FailureRefines ==
  ASSUME ClientInv, NEW c \in Callers, Asks(c), UNCHANGED <<store, uids>>,
         NEW e \in Errors, Reply(c, Err(e))
  PROVE  ClientInv' /\ Store!Answer(c)
<1>1. Err(e) \in Replies /\ ~Err(e).ok
  BY DEF Err, Replies
<1>2. QED
  BY <1>1, AnswerOnly

\* A request that changes an object in place or removes it.
LEMMA ChangeRefines ==
  ASSUME ClientInv, NEW c \in Callers, Asks(c), Stored(c) # None, uids' = uids,
         NEW o \in Objects \cup {None}, Put(c, o),
         o # None => o.uid = Stored(c).uid /\ o.version >= Stored(c).version,
         NEW v \in Objects \cup {None}, Answered(c, v),
         Store!Promise(call[c], Stored(c), o, v)
  PROVE  ClientInv' /\ Store!Answer(c)
<1>1. uids' \in Nat /\ Store!LegalChange(Stored(c), o)
  BY DEF ClientInv, Store!LegalChange
<1>2. CASE Reply(c, Ok(v))
  <2>1. Ok(v) \in Replies /\ Ok(v).value = v
    BY OkReply
  <2>2. QED
    BY <1>1, <1>2, <2>1, AnswerPut
<1>3. CASE Reply(c, Err("lost"))
  <2>1. Err("lost") \in Replies /\ ~Err("lost").ok
    BY DEF Err, Replies, Errors
  <2>2. QED
    BY <1>1, <1>3, <2>1, AnswerPut
<1>4. QED
  BY <1>2, <1>3 DEF Answered

\* An update of an object.
LEMMA NewVersion ==
  ASSUME NEW o \in Objects
  PROVE  /\ [o EXCEPT !.version = @ + 1] \in Objects
         /\ [o EXCEPT !.version = @ + 1] # None
         /\ [o EXCEPT !.version = @ + 1].uid = o.uid
         /\ [o EXCEPT !.version = @ + 1].version = o.version + 1
         /\ [o EXCEPT !.version = @ + 1].version >= o.version
<1>1. [o EXCEPT !.version = @ + 1] \in Objects
  BY DEF Objects
<1>2. /\ [o EXCEPT !.version = @ + 1].uid = o.uid
      /\ [o EXCEPT !.version = @ + 1].version = o.version + 1 /\ o.version \in Nat
  BY DEF Objects
<1>3. QED
  BY <1>1, <1>2, ClientConstants

\* The patches and update.
LEMMA WritesRefine ==
  ASSUME ClientInv, NEW c \in Callers, patch(c) \/ update(c)
  PROVE  ClientInv' /\ Store!Answer(c)
<1>1. Asks(c) /\ Stored(c) \in Objects \cup {None}
  BY StoredObject DEF patch, update, Asks
<1> DEFINE outdated == update(c) /\ call[c].read \notin {None, Stored(c)}
<1>2. CASE Stored(c) = None \/ outdated
  <2>1. CASE patch(c) /\ Stored(c) = None /\ call[c].op = "apply_patch"
    <3>1. create(c)
      BY <2>1 DEF patch
    <3>2. QED
      BY <1>1, <2>1, <3>1, CreateRefines
  <2>2. CASE ~(patch(c) /\ Stored(c) = None /\ call[c].op = "apply_patch")
    <3>1. /\ UNCHANGED <<store, uids>>
          /\ \E e \in {"PatchResource", "UpdateResource"} : Reply(c, Err(e))
      BY <1>2, <2>2 DEF patch, update
    <3>2. {"PatchResource", "UpdateResource"} \subseteq Errors
      BY DEF Errors
    <3>3. QED
      BY <1>1, <3>1, <3>2, FailureRefines
  <2>3. QED
    BY <2>1, <2>2
<1>3. CASE Stored(c) # None /\ ~outdated
  <2> DEFINE new == [Stored(c) EXCEPT !.version = @ + 1]
  <2>1. /\ Put(c, new) /\ Answered(c, new) /\ uids' = uids
        /\ call[c].op \in {"merge_patch", "json_patch", "apply_patch", "update"}
        /\ update(c) => call[c].read \in {None, Stored(c)}
        /\ call[c].op # "update" \/ update(c)
    BY <1>3 DEF patch, update
  <2>2. /\ new \in Objects /\ new # None /\ new.uid = Stored(c).uid
        /\ new.version = Stored(c).version + 1 /\ new.version >= Stored(c).version
    BY <1>1, <1>3, NewVersion
  <2> HIDE DEF new
  <2>3. call[c].op = "update" /\ call[c].read # None => Stored(c) = call[c].read
    BY <2>1
  <2>4. Store!Promise(call[c], Stored(c), new, new)
    BY <1>3, <2>1, <2>2, <2>3 DEF Store!Promise
  <2>5. QED
    BY <1>1, <1>3, <2>1, <2>2, <2>4, ChangeRefines
<1>4. QED
  BY <1>2, <1>3

\* What a deletion leaves behind: nothing, or the same object marked.
LEMMA RemovedObject ==
  ASSUME NEW c \in Callers, Stored(c) \in Objects, NEW o \in Removed(c)
  PROVE  /\ o \in Objects \cup {None}
         /\ o # None => o.uid = Stored(c).uid /\ o.version >= Stored(c).version /\ o.deleting
<1>1. CASE o = None
  BY <1>1
<1>2. CASE o = [Stored(c) EXCEPT !.deleting = TRUE]
  <2>1. o.uid = Stored(c).uid /\ o.version = Stored(c).version /\ o.deleting = TRUE
    BY <1>2 DEF Objects
  <2>2. o \in Objects
    BY <1>2 DEF Objects
  <2>3. Stored(c).version \in Nat
    BY DEF Objects
  <2>4. QED
    BY <2>1, <2>2, <2>3
<1>3. QED
  BY <1>1, <1>2 DEF Removed

\* delete.
LEMMA DeleteRefines ==
  ASSUME ClientInv, NEW c \in Callers, delete(c)
  PROVE  ClientInv' /\ Store!Answer(c)
<1>1. Asks(c) /\ Stored(c) \in Objects \cup {None} /\ call[c].op = "delete"
  BY StoredObject DEF delete, Asks
<1>2. CASE Stored(c) = None
  <2>1. UNCHANGED <<store, uids>> /\ Reply(c, Err("DeleteResource"))
    BY <1>2 DEF delete
  <2>2. "DeleteResource" \in Errors
    BY DEF Errors
  <2>3. QED
    BY <1>1, <2>1, <2>2, FailureRefines
<1>3. CASE Stored(c) # None
  <2>1. PICK o \in Removed(c) : Put(c, o) /\ Answered(c, None) /\ UNCHANGED uids
    BY <1>3 DEF delete
  <2>2. /\ o \in Objects \cup {None}
        /\ o # None => o.uid = Stored(c).uid /\ o.version >= Stored(c).version /\ o.deleting
    BY <1>1, <1>3, RemovedObject
  <2>3. Store!Promise(call[c], Stored(c), o, None)
    BY <1>1, <1>3, <2>2 DEF Store!Promise
  <2>4. QED
    BY <1>1, <1>3, <2>1, <2>2, <2>3, ChangeRefines
<1>4. QED
  BY <1>2, <1>3

\* The progress of a call: what changes of it and what AtomicStore sees of that.
LEMMA CallProgress ==
  ASSUME ClientInv, NEW c \in Callers, NEW k \in Requests, call' = [call EXCEPT ![c] = k],
         k.reply = None, k.at = "await" <=> k.uid # None
  PROVE  /\ call' \in [Callers -> Requests \cup {None}]
         /\ \A d \in Callers : call'[d] # None => (call'[d].at = "await" <=> call'[d].uid # None)
         /\ \A d \in Callers : HoldsObject(call'[d])
         /\ call'[c] = k /\ k # None
         /\ \A d \in Callers : d # c => call'[d] = call[d]
<1>1. call'[c] = k /\ \A d \in Callers : d # c => call'[d] = call[d]
  BY DEF ClientInv
<1>2. HoldsObject(k)
  BY DEF HoldsObject
<1>3. QED
  BY <1>1, <1>2, ClientConstants DEF ClientInv

\* create_if_missing: the look that finds no object is invisible, what follows is one
\* creation that fails if somebody was faster.
LEMMA CreateIfMissingRefines ==
  ASSUME ClientInv, NEW c \in Callers, create_if_missing(c)
  PROVE  ClientInv' /\ (Store!Answer(c) \/ UNCHANGED Store!storeVars)
<1>1. /\ Asks(c) /\ Stored(c) \in Objects \cup {None} /\ call[c].op = "create_if_missing"
      /\ call[c] \in Requests /\ call[c] # None
  BY StoredObject DEF create_if_missing, At, Asks
<1>2. CASE At(c, "create_if_missing", "create") /\ create(c)
  BY <1>1, <1>2, CreateRefines
<1>3. CASE /\ At(c, "create_if_missing", "request") /\ Stored(c) # None
           /\ Reply(c, Ok(Stored(c))) /\ UNCHANGED <<store, uids>>
  <2>1. Store!Promise(call[c], Stored(c), Stored(c), Stored(c))
    BY <1>1, <1>3 DEF Store!Promise
  <2>2. Ok(Stored(c)) \in Replies /\ Ok(Stored(c)).value = Stored(c)
    BY <1>1, OkReply
  <2>3. QED
    BY <1>1, <1>3, <2>1, <2>2, AnswerOnly
<1>4. CASE /\ At(c, "create_if_missing", "request") /\ call' = [call EXCEPT ![c].at = "create"]
           /\ UNCHANGED <<store, uids>>
  <2> DEFINE k == [call[c] EXCEPT !.at = "create"]
  <2>1. /\ k \in Requests /\ k.op = call[c].op /\ k.resource = call[c].resource
        /\ k.read = call[c].read /\ k.uid = call[c].uid /\ k.reply = call[c].reply
        /\ k.at = "create" /\ call[c].reply = None
    BY <1>1 DEF Requests, Asks
  <2>2. call[c].uid = None
    BY <1>1, <1>4 DEF At, ClientInv
  <2>3. call' = [call EXCEPT ![c] = k]
    BY <1>4
  <2> HIDE DEF k
  <2>4. /\ call' \in [Callers -> Requests \cup {None}]
        /\ \A d \in Callers : call'[d] # None => (call'[d].at = "await" <=> call'[d].uid # None)
        /\ \A d \in Callers : HoldsObject(call'[d])
        /\ call'[c] = k /\ k # None
        /\ \A d \in Callers : d # c => call'[d] = call[d]
    <3>1. k.reply = None /\ (k.at = "await" <=> k.uid # None)
      BY <2>1, <2>2
    <3>2. QED
      BY <2>1, <2>3, <3>1, CallProgress
  <2>5. ClientInv'
    BY <1>4, <2>4 DEF ClientInv
  <2>6. \A d \in Callers : AskedOf(d)' = AskedOf(d)
    BY <1>1, <2>1, <2>4 DEF AskedOf
  <2>7. QED
    BY <1>4, <2>5, <2>6 DEF Store!storeVars, AskedOf
<1>5. QED
  BY <1>2, <1>3, <1>4 DEF create_if_missing

\* ensure_deleted: the deletion marks the object whose end the watch waits for.
LEMMA EnsureDeletedRefines ==
  ASSUME ClientInv, NEW c \in Callers, ensure_deleted(c)
  PROVE  ClientInv' /\ (Store!Answer(c) \/ Store!Mark(c))
<1>1. /\ Asks(c) /\ Stored(c) \in Objects \cup {None} /\ call[c].op = "ensure_deleted"
      /\ call[c] \in Requests /\ call[c] # None /\ uids' = uids
      /\ call[c].reply = None /\ call[c].resource \in Resources
  BY StoredObject DEF ensure_deleted, At, Asks
<1>2. CASE At(c, "ensure_deleted", "await") /\ Deleted(c) /\ Reply(c, Ok(None)) /\ UNCHANGED <<store, uids>>
  <2>1. call[c].uid # None
    BY <1>1, <1>2 DEF At, ClientInv
  <2>2. Store!Promise(call[c], Stored(c), Stored(c), None)
    BY <1>1, <1>2, <2>1 DEF Deleted, Store!Promise
  <2>3. Ok(None) \in Replies /\ Ok(None).value = None
    BY OkReply
  <2>4. QED
    BY <1>1, <1>2, <2>2, <2>3, AnswerOnly
<1>3. CASE /\ At(c, "ensure_deleted", "request") /\ Stored(c) = None
           /\ Reply(c, Err("DeleteAndFinalizeResource")) /\ UNCHANGED <<store, uids>>
  <2>1. "DeleteAndFinalizeResource" \in Errors
    BY DEF Errors
  <2>2. QED
    BY <1>1, <1>3, <2>1, FailureRefines
<1>4. ASSUME At(c, "ensure_deleted", "request"), Stored(c) # None, NEW o \in Removed(c), Put(c, o),
             \/ call' = [call EXCEPT ![c].at = "await", ![c].uid = Stored(c).uid]
             \/ Reply(c, Err("lost"))
      PROVE  ClientInv' /\ (Store!Answer(c) \/ Store!Mark(c))
  <2>1. /\ o \in Objects \cup {None}
        /\ o # None => o.uid = Stored(c).uid /\ o.version >= Stored(c).version /\ o.deleting
    BY <1>1, <1>4, RemovedObject
  <2>2. uids' \in Nat /\ Store!LegalChange(Stored(c), o)
    BY <1>1, <1>4, <2>1 DEF ClientInv, Store!LegalChange
  <2>3. CASE Reply(c, Err("lost"))
    <3>1. Err("lost") \in Replies /\ ~Err("lost").ok
      BY DEF Err, Replies, Errors
    <3>2. QED
      BY <1>1, <1>4, <2>1, <2>2, <2>3, <3>1, AnswerPut
  <2>4. CASE call' = [call EXCEPT ![c].at = "await", ![c].uid = Stored(c).uid]
    <3> DEFINE k == [call[c] EXCEPT !.at = "await", !.uid = Stored(c).uid]
    <3>1. Stored(c).uid \in Nat /\ Stored(c).uid # None
      BY <1>1, <1>4, ClientConstants DEF Objects
    <3>2. /\ k \in Requests /\ k.op = call[c].op /\ k.resource = call[c].resource
          /\ k.read = call[c].read /\ k.uid = Stored(c).uid /\ k.reply = call[c].reply /\ k.at = "await"
      BY <1>1, <3>1 DEF Requests
    <3>3. call' = [call EXCEPT ![c] = k]
      BY <2>4
    <3>4. call[c].uid = None
      BY <1>1, <1>4 DEF At, ClientInv
    <3> HIDE DEF k
    <3>5. store' \in [Paths -> Objects \cup {None}] /\ Store!OnlyChanges(call[c].resource)
      BY <1>1, <1>4, <2>1, <2>2, WriteChangesOne, LegalWrite DEF Put, Stored
    <3>6. ClientInv'
      <4>1. k.reply = None /\ (k.at = "await" <=> k.uid # None)
        BY <1>1, <3>1, <3>2
      <4>2. /\ call' \in [Callers -> Requests \cup {None}]
            /\ \A d \in Callers : call'[d] # None => (call'[d].at = "await" <=> call'[d].uid # None)
            /\ \A d \in Callers : HoldsObject(call'[d])
        BY <3>2, <3>3, <4>1, CallProgress
      <4>3. QED
        BY <2>2, <3>5, <4>2 DEF ClientInv
    <3>7. /\ AskedOf(c) = [op |-> "ensure_deleted", resource |-> call[c].resource,
                           read |-> call[c].read, uid |-> None, reply |-> None]
          /\ AskedOf(c)' = [op |-> "ensure_deleted", resource |-> call[c].resource,
                            read |-> call[c].read, uid |-> Stored(c).uid, reply |-> None]
          /\ \A d \in Callers : d # c => AskedOf(d)' = AskedOf(d)
      BY <1>1, <3>1, <3>2, <3>3, <3>4, CallProgress DEF AskedOf
    <3>8. AskedOf(c) # None
      <4>1. AskedOf(c) \in AskedCalls
        BY <1>1, <3>4, <3>7 DEF AskedCalls, Operations, Requests
      <4>2. QED
        BY <4>1, ClientConstants
    <3> DEFINE as == [d \in Callers |-> AskedOf(d)]
               objs == [r \in Resources |-> store[path(r)]]
    <3>9. as' = [as EXCEPT ![c].uid = objs[as[c].resource].uid]
      <4>1. AskedOf(c)' = [as[c] EXCEPT !.uid = Stored(c).uid]
        BY <3>7
      <4>2. objs[as[c].resource].uid = Stored(c).uid
        BY <1>1, <3>7 DEF Stored
      <4>3. QED
        BY <3>7, <4>1, <4>2
    <3>10. /\ as[c] # None /\ as[c].op = "ensure_deleted" /\ as[c].reply = None
           /\ as[c].uid = None /\ objs[as[c].resource] # None
           /\ Store!OnlyChanges(as[c].resource)
      BY <1>1, <1>4, <3>5, <3>7, <3>8 DEF Stored
    <3>11. Store!Mark(c)
      BY <3>9, <3>10 DEF Store!Mark, AskedOf
    <3>12. QED
      BY <3>6, <3>11
  <2>5. QED
    BY <1>4, <2>3, <2>4
<1>5. QED
  BY <1>1, <1>2, <1>3, <1>4 DEF ensure_deleted

\* The object a caller holds.
LEMMA HeldObject ==
  ASSUME ClientInv, NEW c \in Callers, ~Asks(c), NEW r \in Resources
  PROVE  Held(c, r) \in Objects \cup {None}
<1>1. CASE call[c] # None /\ call[c].reply.ok /\ call[c].op \in Returning
  BY <1>1 DEF Asks, Held, HoldsObject, ClientInv
<1>2. CASE ~(call[c] # None /\ call[c].reply.ok /\ call[c].op \in Returning)
  BY <1>2 DEF Held
<1>3. QED
  BY <1>1, <1>2

\* A new call.
LEMMA IssueRefines ==
  ASSUME ClientInv, NEW c \in Callers, NEW k \in Calls, Issue(c, k[1][2], k[2])
  PROVE  ClientInv' /\ Store!Ask(c)
<1> DEFINE q(read) == [op |-> k[1][2], resource |-> k[2], read |-> read, at |-> "request",
                       uid |-> None, reply |-> None]
           as == [d \in Callers |-> AskedOf(d)]
<1>1. k[1][2] \in Operations /\ k[2] \in Resources
  BY ClientConstants
<1>2. ~Asks(c) /\ UNCHANGED <<store, uids>>
  BY DEF Issue
<1>3. PICK read \in {None, IF k[1][2] = "update" THEN Held(c, k[2]) ELSE None} :
        call' = [call EXCEPT ![c] = q(read)]
  BY DEF Issue
<1>4. read \in Objects \cup {None}
  BY <1>1, <1>2, <1>3, HeldObject
<1>5. /\ q(read) \in Requests /\ q(read).op = k[1][2] /\ q(read).resource = k[2]
      /\ q(read).at = "request" /\ q(read).read = read /\ q(read).uid = None /\ q(read).reply = None
  BY <1>1, <1>4 DEF Requests
<1> HIDE DEF q
<1>6. ClientInv'
  BY <1>2, <1>3, <1>5, CallProgress DEF ClientInv
<1>7. /\ AskedOf(c)' = [op |-> k[1][2], resource |-> k[2], read |-> read, uid |-> None, reply |-> None]
      /\ \A d \in Callers : d # c => AskedOf(d)' = AskedOf(d)
  BY <1>3, <1>5, CallProgress DEF AskedOf
<1>8. as[c] = None \/ as[c].reply # None
  BY <1>2 DEF AskedOf, Asks
<1>9. as' = [as EXCEPT ![c] = as'[c]] /\ as'[c].reply = None /\ as'[c].uid = None
  <2>1. as'[c] = AskedOf(c)' /\ \A d \in Callers : d # c => as'[d] = as[d]
    BY <1>7
  <2>2. AskedOf(c)'.reply = None /\ AskedOf(c)'.uid = None
    BY <1>7
  <2>3. QED
    BY <2>1, <2>2
<1>10. QED
  BY <1>2, <1>6, <1>8, <1>9 DEF Store!Ask, AskedOf

\* Whoever else uses the API server creates, changes and finalizes single objects.
LEMMA OthersRefine ==
  ASSUME ClientInv, NEW p \in Paths, OthersCreate(p) \/ OthersChange(p) \/ Finalize(p)
  PROVE  ClientInv' /\ Store!Others
<1>1. PICK r \in Resources : p = path(r)
  BY DEF Paths
<1>2. store[p] \in Objects \cup {None} /\ call' = call
  BY DEF ClientInv, OthersCreate, OthersChange, Finalize
<1>3. \E o \in Objects \cup {None} :
        store' = [store EXCEPT ![p] = o] /\ Store!LegalChange(store[p], o) /\ uids' \in Nat
  <2>1. CASE OthersCreate(p)
    <3>1. NewObject \in Objects /\ NewObject.uid = uids + 1 /\ uids' \in Nat
      BY <2>1 DEF OthersCreate, ClientInv, NewObject, Objects
    <3>2. Store!LegalChange(store[p], NewObject)
      BY <2>1, <3>1, ClientConstants DEF OthersCreate, Store!LegalChange
    <3>3. QED
      BY <2>1, <3>1, <3>2 DEF OthersCreate
  <2>2. CASE OthersChange(p)
    <3> DEFINE new == [store[p] EXCEPT !.version = @ + 1]
    <3>1. store[p] # None /\ store' = [store EXCEPT ![p] = new] /\ uids' = uids
      BY <2>2 DEF OthersChange
    <3>2. new \in Objects /\ new # None /\ new.uid = store[p].uid /\ new.version >= store[p].version
      BY <1>2, <3>1, NewVersion
    <3> HIDE DEF new
    <3>3. Store!LegalChange(store[p], new) /\ uids' \in Nat
      BY <3>1, <3>2 DEF Store!LegalChange, ClientInv
    <3>4. QED
      BY <3>1, <3>2, <3>3
  <2>3. CASE Finalize(p)
    BY <2>3 DEF Finalize, Store!LegalChange, ClientInv
  <2>4. QED
    BY <2>1, <2>2, <2>3
<1>4. PICK o \in Objects \cup {None} :
        store' = [store EXCEPT ![p] = o] /\ Store!LegalChange(store[p], o) /\ uids' \in Nat
  BY <1>3
<1>5. store' \in [Paths -> Objects \cup {None}] /\ Store!OnlyChanges(r)
  BY <1>1, <1>4, WriteChangesOne, LegalWrite
<1>6. ClientInv'
  BY <1>2, <1>4, <1>5 DEF ClientInv
<1>7. QED
  BY <1>2, <1>5, <1>6 DEF Store!Others

\* The initial states are those of AtomicStore.
LEMMA ClientInitRefines == ClientInit => ClientInv /\ Store!StoreInit
<1> SUFFICES ASSUME ClientInit PROVE ClientInv /\ Store!StoreInit
  OBVIOUS
<1>1. ClientInv
  BY DEF ClientInit, ClientInv, HoldsObject
<1>2. \A r \in Resources : path(r) \in Paths
  BY DEF Paths
<1>3. QED
  BY <1>1, <1>2 DEF ClientInit, Store!StoreInit

\* Every step is a step of AtomicStore or invisible to it.
LEMMA ClientStepRefines ==
  ClientInv /\ [ClientNext]_clientVars => ClientInv' /\ [Store!StoreNext]_(Store!storeVars)
<1> SUFFICES ASSUME ClientInv, [ClientNext]_clientVars
             PROVE  ClientInv' /\ [Store!StoreNext]_(Store!storeVars)
  OBVIOUS
<1>1. ASSUME NEW c \in Callers, NEW k \in Calls, Issue(c, k[1][2], k[2])
      PROVE  ClientInv' /\ Store!StoreNext
  BY <1>1, IssueRefines DEF Store!StoreNext
<1>2. ASSUME NEW c \in Callers, Refuse(c) \/ Serve(c)
      PROVE  ClientInv' /\ (Store!Answer(c) \/ Store!Mark(c) \/ UNCHANGED Store!storeVars)
  <2>1. CASE At(c, "create", "request") /\ create(c)
    BY <2>1, CreateRefines DEF At
  <2>2. QED
    BY <1>2, <2>1, ReadsRefine, WritesRefine, DeleteRefines, CreateIfMissingRefines,
       EnsureDeletedRefines DEF Serve
<1>3. ASSUME NEW p \in Paths, OthersCreate(p) \/ OthersChange(p) \/ Finalize(p)
      PROVE  ClientInv' /\ Store!StoreNext
  BY <1>3, OthersRefine DEF Store!StoreNext
<1>4. ASSUME UNCHANGED clientVars PROVE ClientInv' /\ UNCHANGED Store!storeVars
  BY <1>4 DEF clientVars, ClientInv, Store!storeVars
<1>5. ASSUME NEW c \in Callers, Store!Answer(c) \/ Store!Mark(c) PROVE Store!StoreNext
  BY <1>5 DEF Store!StoreNext
<1>6. QED
  BY <1>1, <1>2, <1>3, <1>4, <1>5 DEF ClientNext

\* The calls of the client are atomic (client/mod.rs): whatever other callers, the owners
\* of finalizers and the rest of the cluster do between the requests of a call, and
\* whatever is refused or lost, a call that succeeds took effect at one moment on its own
\* resource, ensure_deleted returns only when the very object that it deleted is gone, a
\* list has the objects of one namespace and no others, and an update made from an object
\* that somebody changed or created anew since fails.
THEOREM CallsTakeEffectOnce == ClientSpec => CallsAreAtomic
<1>1. ClientInit /\ [][ClientNext]_clientVars => Store!StoreInit /\ [][Store!StoreNext]_(Store!storeVars)
  BY ClientInitRefines, ClientStepRefines, PTL
<1>2. QED
  BY <1>1, PTL DEF ClientSpec, CallsAreAtomic, Store!StoreSpec

(***************************************************************************)
(* VectorAgent                                                             *)
(***************************************************************************)
ScriptLabels == {"remove", "prepare", "start", "assign", "check", "wait", "untrap",
                 "wait_again", "create", "exited", "aborted"}

Scripts == [at: ScriptLabels, trap: BOOLEAN, pid: BOOLEAN, kill_needed: BOOLEAN]

Pods == [restart_policy: {"Always", "Never"}, nounset: BOOLEAN, deleted: BOOLEAN]

PodTypes ==
  /\ pod \in Pods
  /\ script \in Scripts
  /\ product \in {"none", "running", "stopping", "ended"}
  /\ unshipped \in Nat

\* Of a pod that is not restarted.  The file exists once the script is through, the
\* script gets that far when the product has ended, and it is past starting one.
\* Vector begins to end when it found the file, and has sent everything when it ends.
ShutdownOrder ==
  /\ shutdown_file => script.at = "exited"
  /\ agent \in {"sleep", "exited"} => shutdown_file
  /\ script.at \in {"create", "exited"} => product = "ended"
  /\ agent = "exited" => unshipped = 0

PodInv == PodTypes /\ (pod.restart_policy = "Never" => ShutdownOrder)

\* The initial states satisfy the inductive invariant.
LEMMA PodInvInit == PodInit => PodInv
<1> SUFFICES ASSUME PodInit PROVE PodInv
  OBVIOUS
<1>1. pod \in Pods
  BY {FALSE} \subseteq BOOLEAN DEF PodInit, Pods
<1>2. QED
  BY <1>1 DEF PodInit, PodInv, PodTypes, ShutdownOrder, NewScript, Scripts, ScriptLabels

\* What a move of the script changes.
LEMMA ScriptMoves ==
  ASSUME script \in Scripts, NEW from, NEW to \in ScriptLabels, Goes(from, to)
  PROVE  script.at = from /\ script' \in Scripts /\ script'.at = to
  BY DEF Goes, Scripts

\* Every step keeps the types.
LEMMA PodTypesStep ==
  ASSUME PodTypes, PodNext
  PROVE  PodTypes'
<1> USE DEF PodTypes
<1>1. ASSUME RemoveFile \/ StartProduct \/ CheckKillNeeded \/ Wait \/ FinishWaiting \/ CreateFile
      PROVE  script' \in Scripts
  <2>1. \E from, to \in ScriptLabels : Goes(from, to)
    BY <1>1 DEF RemoveFile, StartProduct, CheckKillNeeded, Wait, FinishWaiting, CreateFile,
                ScriptLabels
  <2>2. QED
    BY <2>1, ScriptMoves
<1>2. CASE RemoveFile \/ StartProduct \/ CheckKillNeeded \/ Wait \/ FinishWaiting \/ CreateFile
  BY <1>1, <1>2 DEF RemoveFile, StartProduct, CheckKillNeeded, Wait, FinishWaiting, CreateFile,
                    Signalled
<1>3. CASE prepare_signal_handlers \/ AssignPid \/ Untrap
  <2>1. prepare_signal_handlers => script' \in Scripts
    BY DEF prepare_signal_handlers, Scripts, ScriptLabels
  <2>2. AssignPid => script' \in Scripts
    BY DEF AssignPid, Scripts, ScriptLabels
  <2>3. Untrap => script' \in Scripts
    BY DEF Untrap, Scripts, ScriptLabels
  <2>4. QED
    BY <1>3, <2>1, <2>2, <2>3 DEF prepare_signal_handlers, AssignPid, Untrap
<1>4. CASE Trap
  <2>1. script' \in Scripts
    BY <1>4 DEF Trap, handle_term_signal, Scripts, ScriptLabels
  <2>2. QED
    BY <1>4, <2>1 DEF Trap, handle_term_signal, Signalled
<1>5. CASE WriteLog \/ Stop \/ Exit \/ Ship \/ AgentStep \/ RestartVector
  BY <1>5 DEF WriteLog, Stop, Exit, Ship, AgentStep, RestartVector,
              StartVector, TestFile, WatchDirectory, KillVector
<1>6. CASE RestartProduct
  BY <1>6 DEF RestartProduct, NewScript, Scripts, ScriptLabels
<1>7. CASE DeletePod
  <2>1. pod' \in Pods
    BY <1>7 DEF DeletePod, Pods
  <2>2. QED
    BY <1>7, <2>1 DEF DeletePod
<1>8. QED
  BY <1>2, <1>3, <1>4, <1>5, <1>6, <1>7 DEF PodNext, ScriptStep

\* Every step keeps the order in which the containers of a pod end.
LEMMA ShutdownOrderStep ==
  ASSUME PodTypes, ShutdownOrder, pod.restart_policy = "Never", PodNext
  PROVE  ShutdownOrder'
<1> USE DEF PodTypes, ShutdownOrder
<1>1. ~Restarts
  BY DEF Restarts
<1>2. CASE RemoveFile
  BY <1>2, ScriptMoves DEF RemoveFile, remove_vector_shutdown_file, ScriptLabels
<1>3. CASE prepare_signal_handlers \/ AssignPid \/ Untrap
  <2>1. script.at # "exited" /\ UNCHANGED <<product, shutdown_file, agent, unshipped>>
    BY <1>3 DEF prepare_signal_handlers, AssignPid, Untrap
  <2>2. script'.at \in {"start", "check", "wait_again"}
    <3>1. prepare_signal_handlers => script'.at = "start"
      BY DEF prepare_signal_handlers
    <3>2. AssignPid => script'.at = "check"
      BY DEF AssignPid, Scripts
    <3>3. Untrap => script'.at = "wait_again"
      BY DEF Untrap, Scripts
    <3>4. QED
      BY <1>3, <3>1, <3>2, <3>3
  <2>3. QED
    BY <2>1, <2>2
<1>4. CASE StartProduct
  BY <1>4, ScriptMoves DEF StartProduct, ScriptLabels
<1>5. CASE CheckKillNeeded
  BY <1>5, ScriptMoves DEF CheckKillNeeded, ScriptLabels
<1>6. CASE Wait
  BY <1>6, ScriptMoves DEF Wait, ScriptLabels
<1>7. CASE FinishWaiting
  BY <1>7, ScriptMoves DEF FinishWaiting, WaitAgain, ScriptLabels
<1>8. CASE CreateFile
  BY <1>8, ScriptMoves DEF CreateFile, create_vector_shutdown_file, ScriptLabels
<1>9. CASE Trap
  <2>1. script.at # "exited" /\ ~shutdown_file /\ UNCHANGED <<shutdown_file, agent, unshipped>>
    BY <1>9 DEF Trap
  <2>2. script'.at \in {script.at, "untrap", "aborted"}
    BY <1>9 DEF Trap, handle_term_signal, Scripts
  <2>3. product = "ended" => product' = "ended"
    BY <1>9 DEF Trap, handle_term_signal, Signalled
  <2>4. QED
    BY <2>1, <2>2, <2>3
<1>10. CASE AgentStep
  BY <1>10 DEF AgentStep, StartVector, TestFile, WatchDirectory, KillVector
<1>11. CASE WriteLog \/ Stop \/ Exit \/ DeletePod
  BY <1>11 DEF WriteLog, Stop, Exit, DeletePod
<1>12. CASE Ship
  BY <1>12 DEF Ship, AgentRuns
<1>13. QED
  BY <1>1, <1>2, <1>3, <1>4, <1>5, <1>6, <1>7, <1>8, <1>9, <1>10, <1>11, <1>12
  DEF PodNext, ScriptStep, RestartProduct, RestartVector

\* Every step keeps the inductive invariant: the restart policy of a pod is fixed.
LEMMA PodInvStep == PodInv /\ [PodNext]_podVars => PodInv'
<1> SUFFICES ASSUME PodInv, [PodNext]_podVars PROVE PodInv'
  OBVIOUS
<1>1. CASE UNCHANGED podVars
  BY <1>1 DEF podVars, PodInv, PodTypes, ShutdownOrder
<1>2. CASE PodNext
  <2>1. pod'.restart_policy = "Never" => pod.restart_policy = "Never"
    <3>1. pod' = pod \/ pod' = [pod EXCEPT !.deleted = TRUE]
      BY <1>2 DEF PodNext, ScriptStep, AgentStep, RemoveFile, prepare_signal_handlers,
                  StartProduct, AssignPid, CheckKillNeeded, Wait, Untrap, FinishWaiting,
                  CreateFile, Trap, StartVector, TestFile, WatchDirectory, KillVector,
                  WriteLog, Stop, Exit, Ship, DeletePod, RestartProduct, RestartVector
    <3>2. QED
      BY <3>1 DEF PodInv, PodTypes, Pods
  <2>2. QED
    BY <1>2, <2>1, PodTypesStep, ShutdownOrderStep DEF PodInv
<1>3. QED
  BY <1>1, <1>2

\* In a pod that is not restarted Vector ends last, after it has sent everything
\* (create_vector_shutdown_file and the script of vector_container), wherever SIGTERM
\* interrupts the script of the product.
THEOREM VectorEndsLast == PodSpec => []VectorOutlivesProduct
<1>1. PodInv => VectorOutlivesProduct
  BY DEF PodInv, ShutdownOrder, VectorOutlivesProduct
<1>2. PodInit /\ [][PodNext]_podVars => []PodInv
  BY PodInvInit, PodInvStep, PTL
<1>3. QED
  BY <1>1, <1>2, PTL DEF PodSpec

(***************************************************************************)
(* OperatorProcess                                                         *)
(***************************************************************************)
\* Versions of the watch channel: 1 once the signal was sent, when its sender is gone.
\* No receiver ever marks a version as seen.  Whoever waits has a channel to wait on, and
\* the checker waits on its own handle exactly while it runs.
SignalInv ==
  /\ watch \in {None} \cup [version: {0, 1}, open: BOOLEAN]
  /\ watch # None => (watch.open <=> watch.version = 0)
  /\ receiver \in [Handles -> [at: {"absent", "pending", "completed"}, seen: {0}]]
  /\ \A h \in Handles : receiver[h].at # "absent" => watch # None
  /\ \A h \in Handles : receiver[h].at = "completed" => watch.version = 1
  /\ eos \in [at: {"idle", "running", "returned", "ParseBuiltTime"}, due: Nat,
              checks: BOOLEAN, warned: BOOLEAN]
  /\ eos.at = "idle" => receiver[EosHandle].at = "absent"
  /\ eos.at = "running" => receiver[EosHandle].at = "pending"
  /\ now \in Nat

\* A timeout is reported by a wait that is over, after its deadline.
WaitInv ==
  /\ now \in Nat
  /\ wait \in [at: {"idle", "waiting", "returned"}, deadline: Nat,
               result: {None, "established", "Api", "TimeoutElapsed"}]
  /\ crd \in [established: BOOLEAN, seen: BOOLEAN]
  /\ wait.result # None => wait.at = "returned"
  /\ TimeoutIsNotEarly

\* The initial states satisfy both invariants.
LEMMA ProcessInvInit == ProcessInit => SignalInv /\ WaitInv
<1> SUFFICES ASSUME ProcessInit PROVE SignalInv /\ WaitInv
  OBVIOUS
<1>1. SignalInv
  BY ProcessAssumption DEF ProcessInit, SignalInv
<1>2. WaitInv
  BY ProcessAssumption DEF ProcessInit, WaitInv, TimeoutIsNotEarly
<1>3. QED
  BY <1>1, <1>2

\* Every step keeps the invariant about the wait for the CRD.
LEMMA WaitInvStep ==
  ASSUME WaitInv, [ProcessNext]_processVars
  PROVE  WaitInv'
<1> USE DEF WaitInv, TimeoutIsNotEarly
<1>1. CASE InferConfig \/ initialize_operator \/ sigterm \/ SendSignal \/ StartChecker
           \/ CheckEndOfSupport \/ StopChecker
           \/ (\E h \in Handles : AcquireHandle(h) \/ CompleteHandle(h))
  <2>1. UNCHANGED <<now, crd, wait>>
    BY <1>1 DEF InferConfig, initialize_operator, sigterm, SendSignal, StartChecker,
                CheckEndOfSupport, StopChecker, AcquireHandle, CompleteHandle
  <2>2. QED
    BY <2>1
<1>2. CASE crd_established
  <2>1. wait.at = "idle" /\ wait' = [wait EXCEPT !.at = "waiting", !.deadline = now + CrdTimeout]
    BY <1>2 DEF crd_established
  <2>2. now + CrdTimeout \in Nat
    BY ProcessAssumption
  <2>3. /\ wait' \in [at: {"idle", "waiting", "returned"}, deadline: Nat,
                      result: {None, "established", "Api", "TimeoutElapsed"}]
        /\ wait'.result = wait.result
    BY <2>1, <2>2
  <2>4. crd' \in [established: BOOLEAN, seen: BOOLEAN] /\ now' = now
    BY <1>2 DEF crd_established
  <2>5. wait.result = None
    BY <2>1
  <2>6. QED
    BY <2>3, <2>4, <2>5, ProcessAssumption
<1>3. CASE ChangeCrd
  <2>1. crd' \in [established: BOOLEAN, seen: BOOLEAN] /\ crd'.seen = crd.seen
    BY <1>3 DEF ChangeCrd
  <2>2. QED
    BY <1>3, <2>1 DEF ChangeCrd
<1>4. CASE DeliverCrd
  <2>1. crd' \in [established: BOOLEAN, seen: BOOLEAN] /\ wait.result = None
    BY <1>4 DEF DeliverCrd
  <2>2. QED
    BY <1>4, <2>1, ProcessAssumption DEF DeliverCrd
<1>5. ASSUME NEW r \in {"established", "Api", "TimeoutElapsed"}, ReturnFromWait(r)
      PROVE  WaitInv'
  <2>1. /\ wait' \in [at: {"idle", "waiting", "returned"}, deadline: Nat,
                      result: {None, "established", "Api", "TimeoutElapsed"}]
        /\ wait'.result = r /\ wait'.at = "returned" /\ wait'.deadline = wait.deadline
    BY <1>5 DEF ReturnFromWait
  <2>2. r = "TimeoutElapsed" => now >= wait.deadline /\ ~crd.seen
    BY <1>5 DEF ReturnFromWait, CrdOutcome
  <2>3. UNCHANGED <<now, crd>>
    BY <1>5 DEF ReturnFromWait
  <2>4. QED
    BY <2>1, <2>2, <2>3
<1>6. CASE PassTime
  BY <1>6 DEF PassTime
<1>7. CASE UNCHANGED processVars
  BY <1>7 DEF processVars
<1>8. QED
  BY <1>1, <1>2, <1>3, <1>4, <1>5, <1>6, <1>7 DEF ProcessNext

\* crd_established reports a timeout only when the whole timeout has passed, and never
\* for a CRD that its watch has seen established.
THEOREM TimeoutsAreNotEarly == ProcessSpec => []TimeoutIsNotEarly
<1>1. WaitInv => TimeoutIsNotEarly
  BY DEF WaitInv
<1>2. ProcessInit => WaitInv
  BY ProcessInvInit
<1>3. WaitInv /\ [ProcessNext]_processVars => WaitInv'
  BY WaitInvStep
<1>4. QED
  BY <1>1, <1>2, <1>3, PTL DEF ProcessSpec

\* What the checker is at.
Checkers == [at: {"idle", "running", "returned", "ParseBuiltTime"}, due: Nat,
             checks: BOOLEAN, warned: BOOLEAN]

\* A new state of one handle.
LEMMA HandleMoves ==
  ASSUME SignalInv, NEW h \in Handles, NEW to \in {"pending", "completed"},
         receiver' = [receiver EXCEPT ![h] = [at |-> to, seen |-> 0]]
  PROVE  /\ receiver' \in [Handles -> [at: {"absent", "pending", "completed"}, seen: {0}]]
         /\ receiver'[h].at = to
         /\ \A g \in Handles : g # h => receiver'[g] = receiver[g]
  BY DEF SignalInv

\* A handle that completes had not seen the signal, which was sent.
LEMMA CompletedHandle ==
  ASSUME SignalInv, NEW h \in Handles, Changed(h), receiver' = [receiver EXCEPT ![h].at = "completed"]
  PROVE  /\ watch # None /\ watch.version = 1 /\ receiver[h].at = "pending"
         /\ receiver' = [receiver EXCEPT ![h] = [at |-> "completed", seen |-> 0]]
<1>1. receiver[h] \in [at: {"absent", "pending", "completed"}, seen: {0}]
  BY DEF SignalInv
<1>2. watch # None /\ watch.version = 1 /\ receiver[h].at = "pending"
  BY <1>1 DEF SignalInv, Changed
<1>3. [receiver[h] EXCEPT !.at = "completed"] = [at |-> "completed", seen |-> 0]
  BY <1>1
<1>4. QED
  BY <1>2, <1>3

\* Every step keeps the invariant about the signal and is one of SignalBroadcast or
\* invisible to it; after the signal the checker makes no check.
LEMMA SignalStep ==
  ASSUME SignalInv, ProcessNext
  PROVE  /\ SignalInv'
         /\ Broadcast!BroadcastNext \/ UNCHANGED Broadcast!broadcastVars
         /\ eos'.checks # eos.checks => watch.version = 0
<1>1. CASE InferConfig \/ initialize_operator \/ crd_established \/ ChangeCrd \/ DeliverCrd
           \/ PassTime \/ \E r \in {"established", "Api", "TimeoutElapsed"} : ReturnFromWait(r)
  <2>1. UNCHANGED <<watch, receiver, eos>> /\ now' \in Nat
    BY <1>1 DEF InferConfig, initialize_operator, crd_established, ChangeCrd, DeliverCrd,
                PassTime, ReturnFromWait, SignalInv
  <2>2. QED
    BY <2>1 DEF SignalInv, Broadcast!broadcastVars, Handles_
<1>2. CASE sigterm
  <2>1. watch = None /\ UNCHANGED <<receiver, eos, now>>
        /\ watch' \in {None, [version |-> 0, open |-> TRUE]}
    BY <1>2 DEF sigterm
  <2>2. \A h \in Handles : receiver[h].at = "absent"
    BY <2>1 DEF SignalInv
  <2>3. SignalInv'
    <3>1. /\ watch' \in {None} \cup [version: {0, 1}, open: BOOLEAN]
          /\ watch' # None => watch'.open = TRUE /\ watch'.version = 0
      <4>1. CASE watch' = None
        BY <4>1
      <4>2. CASE watch' = [version |-> 0, open |-> TRUE]
        BY <4>2
      <4>3. QED
        BY <2>1, <4>1, <4>2
    <3>2. QED
      BY <2>1, <2>2, <3>1 DEF SignalInv
  <2>4. UNCHANGED Broadcast!broadcastVars
    BY <2>1 DEF Broadcast!broadcastVars, Handles_
  <2>5. QED
    BY <2>1, <2>3, <2>4
<1>3. CASE SendSignal
  <2>1. /\ watch # None /\ watch.open /\ watch' = [version |-> 1, open |-> FALSE]
        /\ UNCHANGED <<receiver, eos, now>>
    BY <1>3 DEF SendSignal
  <2>2. watch.version = 0 /\ watch' # None /\ watch'.version = 1 /\ watch'.open = FALSE
    <3>1. watch.version = 0
      BY <2>1 DEF SignalInv
    <3>2. watch' \in [version: {0, 1}, open: BOOLEAN] /\ watch'.version = 1 /\ watch'.open = FALSE
      BY <2>1
    <3>3. QED
      BY <3>1, <3>2, ProcessAssumption
  <2>3. SignalInv'
    BY <2>1, <2>2 DEF SignalInv
  <2>4. Broadcast!Send
    BY <2>1, <2>2 DEF Broadcast!Send, Handles_
  <2>5. QED
    BY <2>1, <2>3, <2>4 DEF Broadcast!BroadcastNext
<1>4. ASSUME NEW h \in Handles, AcquireHandle(h)
      PROVE  SignalInv' /\ Broadcast!Acquire(h) /\ UNCHANGED eos
  <2>1. /\ receiver' = [receiver EXCEPT ![h] = [at |-> "pending", seen |-> 0]]
        /\ watch # None /\ receiver[h].at = "absent" /\ h # EosHandle
        /\ UNCHANGED <<watch, eos, now>>
    BY <1>4 DEF AcquireHandle, handle
  <2>2. /\ receiver' \in [Handles -> [at: {"absent", "pending", "completed"}, seen: {0}]]
        /\ receiver'[h].at = "pending"
        /\ \A g \in Handles : g # h => receiver'[g] = receiver[g]
    BY <2>1, HandleMoves
  <2>3. SignalInv'
    BY <2>1, <2>2, ProcessAssumption DEF SignalInv
  <2>4. Broadcast!Acquire(h)
    BY <2>1, <2>2 DEF Broadcast!Acquire, Handles_
  <2>5. QED
    BY <2>1, <2>3, <2>4
<1>5. ASSUME NEW h \in Handles, CompleteHandle(h)
      PROVE  SignalInv' /\ Broadcast!Complete(h) /\ UNCHANGED eos
  <2>1. /\ receiver' = [receiver EXCEPT ![h].at = "completed"] /\ Changed(h)
        /\ h # EosHandle /\ UNCHANGED <<watch, eos, now>>
    BY <1>5 DEF CompleteHandle
  <2>2. /\ watch # None /\ watch.version = 1 /\ receiver[h].at = "pending"
        /\ receiver' \in [Handles -> [at: {"absent", "pending", "completed"}, seen: {0}]]
        /\ receiver'[h].at = "completed"
        /\ \A g \in Handles : g # h => receiver'[g] = receiver[g]
    BY <2>1, CompletedHandle, HandleMoves
  <2>3. SignalInv'
    BY <2>1, <2>2, ProcessAssumption DEF SignalInv
  <2>4. Broadcast!Complete(h)
    BY <2>1, <2>2 DEF Broadcast!Complete, Handles_
  <2>5. QED
    BY <2>1, <2>3, <2>4
<1>6. CASE StartChecker
  <2>1. /\ watch # None /\ eos.at = "idle" /\ receiver[EosHandle].at = "absent"
        /\ eos \in Checkers /\ now \in Nat /\ UNCHANGED <<watch, now>>
    BY <1>6 DEF StartChecker, SignalInv, Checkers
  <2>2. CASE UNCHANGED receiver /\ \E to \in {"ParseBuiltTime", "returned"} : eos' = [eos EXCEPT !.at = to]
    <3>1. eos' \in Checkers /\ eos'.at \in {"ParseBuiltTime", "returned"} /\ eos'.checks = eos.checks
      BY <2>1, <2>2 DEF Checkers
    <3>2. SignalInv'
      BY <2>1, <2>2, <3>1 DEF SignalInv, Checkers
    <3>3. UNCHANGED Broadcast!broadcastVars
      BY <2>1, <2>2 DEF Broadcast!broadcastVars, Handles_
    <3>4. QED
      BY <3>1, <3>2, <3>3
  <2>3. CASE eos' = [eos EXCEPT !.at = "running", !.due = now] /\ receiver' = handle(EosHandle)
    <3>1. eos' \in Checkers /\ eos'.at = "running" /\ eos'.checks = eos.checks
      BY <2>1, <2>3 DEF Checkers
    <3>2. /\ receiver' \in [Handles -> [at: {"absent", "pending", "completed"}, seen: {0}]]
          /\ receiver'[EosHandle].at = "pending"
          /\ \A g \in Handles : g # EosHandle => receiver'[g] = receiver[g]
      BY <2>3, HandleMoves, ProcessAssumption DEF handle
    <3>3. SignalInv'
      BY <2>1, <3>1, <3>2, ProcessAssumption DEF SignalInv, Checkers
    <3>4. Broadcast!Acquire(EosHandle)
      BY <2>1, <3>2, ProcessAssumption DEF Broadcast!Acquire, Handles_
    <3>5. QED
      BY <3>1, <3>3, <3>4, ProcessAssumption DEF Broadcast!BroadcastNext
  <2>4. QED
    BY <1>6, <2>2, <2>3 DEF StartChecker
<1>7. CASE CheckEndOfSupport
  <2>1. /\ eos.at = "running" /\ ~Changed(EosHandle) /\ UNCHANGED <<watch, receiver, now>>
        /\ eos \in Checkers /\ now \in Nat
    BY <1>7 DEF CheckEndOfSupport, TickReady, SignalInv, Checkers
  <2>2. watch.version = 0
    BY <2>1, ProcessAssumption DEF Changed, SignalInv
  <2>3. eos' \in Checkers /\ eos'.at = "running"
    <3>1. eos.due + Interval \in Nat
      BY <2>1, ProcessAssumption DEF Checkers
    <3>2. eos' = [eos EXCEPT !.due = eos.due + Interval, !.checks = ~eos.checks,
                             !.warned = eos.warned \/ ~(now <= EosDate)]
      BY <1>7 DEF CheckEndOfSupport
    <3>3. QED
      BY <2>1, <3>1, <3>2, (~eos.checks) \in BOOLEAN,
         (eos.warned \/ ~(now <= EosDate)) \in BOOLEAN DEF Checkers
  <2>4. SignalInv'
    BY <2>1, <2>3 DEF SignalInv, Checkers
  <2>5. UNCHANGED Broadcast!broadcastVars
    BY <2>1 DEF Broadcast!broadcastVars, Handles_
  <2>6. QED
    BY <2>2, <2>4, <2>5
<1>8. CASE StopChecker
  <2>1. /\ eos.at = "running" /\ Changed(EosHandle) /\ eos \in Checkers
        /\ eos' = [eos EXCEPT !.at = "returned"] /\ UNCHANGED <<watch, now>>
        /\ receiver' = [receiver EXCEPT ![EosHandle].at = "completed"]
    BY <1>8 DEF StopChecker, SignalInv, Checkers
  <2>2. eos' \in Checkers /\ eos'.at = "returned" /\ eos'.checks = eos.checks
    BY <2>1 DEF Checkers
  <2>3. /\ watch # None /\ watch.version = 1 /\ receiver[EosHandle].at = "pending"
        /\ receiver' \in [Handles -> [at: {"absent", "pending", "completed"}, seen: {0}]]
        /\ receiver'[EosHandle].at = "completed"
        /\ \A g \in Handles : g # EosHandle => receiver'[g] = receiver[g]
    BY <2>1, CompletedHandle, HandleMoves, ProcessAssumption
  <2>4. SignalInv'
    BY <2>1, <2>2, <2>3 DEF SignalInv, Checkers
  <2>5. Broadcast!Complete(EosHandle)
    BY <2>1, <2>3, ProcessAssumption DEF Broadcast!Complete, Handles_
  <2>6. QED
    BY <2>2, <2>4, <2>5, ProcessAssumption DEF Broadcast!BroadcastNext
<1>9. QED
  BY <1>1, <1>2, <1>3, <1>4, <1>5, <1>6, <1>7, <1>8 DEF ProcessNext, Broadcast!BroadcastNext

\* A step that changes nothing keeps the invariant and is invisible.
LEMMA SignalStutter ==
  ASSUME SignalInv, UNCHANGED processVars
  PROVE  SignalInv' /\ UNCHANGED Broadcast!broadcastVars
  BY DEF processVars, SignalInv, Broadcast!broadcastVars, Handles_

\* SignalWatcher does what SignalBroadcast says (utils/signal.rs): no handle completes
\* before the signal, a handle that was acquired after it can complete as well, and no
\* handle completes twice.  That they do complete is checked by TLC.
THEOREM SignalIsMultiplied == ProcessSpec => Broadcast!BroadcastSafety
<1>1. ProcessInit => SignalInv /\ Broadcast!BroadcastInit
  BY ProcessInvInit DEF ProcessInit, Broadcast!BroadcastInit, Handles_
<1>2. SignalInv /\ [ProcessNext]_processVars
      => SignalInv' /\ [Broadcast!BroadcastNext]_(Broadcast!broadcastVars)
  BY SignalStep, SignalStutter
<1>3. QED
  BY <1>1, <1>2, PTL DEF ProcessSpec, Broadcast!BroadcastSafety

\* Once the signal was sent the end-of-support checker makes no check (the biased select
\* of EndOfSupportChecker::run), however many ticks are due.
THEOREM ShutdownStopsChecks == ProcessSpec => NoCheckAfterShutdown
<1>1. ProcessInit => SignalInv
  BY ProcessInvInit
<1>2. SignalInv /\ [ProcessNext]_processVars
      => SignalInv' /\ [eos'.checks # eos.checks => watch.version = 0]_processVars
  BY SignalStep, SignalStutter
<1>3. QED
  BY <1>1, <1>2, PTL DEF ProcessSpec, NoCheckAfterShutdown

(***************************************************************************)
(* StatusConditions: types                                                 *)
(***************************************************************************)
Conditions == [status: {"None", "True", "False", "Unknown"}, time: Nat, names: SUBSET Workloads]
ConditionSets == [Types -> Conditions]
OverrideFunctions == UNION {[D -> 0..Replicas] : D \in SUBSET (StatefulSets \cup Deployments)}
ClusterObjects == [operation: ClusterOperations, overrides: OverrideFunctions,
                   conditions: ConditionSets]
SeenWorkloads ==
  UNION {[D -> [requested: 0..Replicas, ready: 0..Replicas]] : D \in SUBSET Workloads}
Runs == [at: {"idle", "adding", "computed"}, resource: ClusterObjects,
         seen: SeenWorkloads, computed: ConditionSets]

TypeOK ==
  /\ operation \in ClusterOperations /\ overrides \in OverrideFunctions
  /\ requested \in [Workloads -> 0..Replicas] /\ ready \in [Workloads -> 0..Replicas]
  /\ status \in ConditionSets /\ cache \in ClusterObjects /\ run \in Runs
  /\ clock \in Nat \ {0} /\ changes \in Nat

\* The empty condition set, and a condition that a builder makes, have their types.
LEMMA BuiltTypes ==
  /\ NoStatus \in Conditions /\ Empty \in ConditionSets
  /\ \A s \in {"True", "False", "Unknown"}, names \in SUBSET Workloads :
       Condition(s, names) \in Conditions /\ Condition(s, names) # NoStatus
BY DEF Conditions, ConditionSets, Types, NoStatus, Empty, Condition

\* Merging two condition sets gives one, whichever function combines them.
LEMMA JoinTypes ==
  ASSUME NEW olds \in ConditionSets, NEW news \in ConditionSets
  PROVE  merge(olds, news, "update_message") \in ConditionSets
<1>1. ASSUME NEW old \in Conditions, NEW new \in Conditions
      PROVE  update_message(old, new) \in Conditions
  BY DEF update_message, Conditions
<1>2. QED
  BY <1>1 DEF merge, ConditionSets

\* The same for the merge into the old conditions.
LEMMA StampTypes ==
  ASSUME NEW olds \in ConditionSets, NEW news \in ConditionSets, clock \in Nat \ {0}
  PROVE  merge(olds, news, "update_timestamps") \in ConditionSets
<1>1. ASSUME NEW old \in Conditions, NEW new \in Conditions
      PROVE  update_timestamps(old, new) \in Conditions
  BY DEF update_timestamps, Conditions
<1>2. QED
  BY <1>1 DEF merge, ConditionSets

\* What each builder makes is a condition set: the workload builders set Available,
\* the one for the cluster operation sets ReconciliationPaused and Stopped.
LEMMA BuilderTypes ==
  /\ \A seen : \A kind \in SUBSET Workloads : available(seen, kind) \in ConditionSets
  /\ \A op \in ClusterOperations : operations(op) \in ConditionSets
<1>1. ASSUME NEW seen, NEW kind \in SUBSET Workloads
      PROVE  available(seen, kind) \in ConditionSets
  BY BuiltTypes DEF available, ConditionSets
<1>2. ASSUME NEW op \in ClusterOperations PROVE operations(op) \in ConditionSets
  <2>1. cluster_stopped(op) \in {"True", "False", "Unknown"}
    BY DEF cluster_stopped
  <2>2. QED
    BY <2>1, BuiltTypes DEF operations, ConditionSets
<1>3. QED
  BY <1>1, <1>2

(***************************************************************************)
(* StatusConditions: what compute_conditions makes of what was there and   *)
(* of what was seen                                                        *)
(***************************************************************************)
Unavailable(kind, seen) == {w \in kind : ~is_available(w, seen)}

\* A condition set of workload builders that found the workloads of S unavailable
Says(set, S) ==
  /\ set \in ConditionSets
  /\ set["Available"].status = IF S = {} THEN "True" ELSE "False"
  /\ set["Available"].names = S
  /\ \A t \in Types \ {"Available"} : set[t] = NoStatus

\* The condition of one builder: True with no workload named, or False with those
\* that are not available.
LEMMA OneBuilder ==
  ASSUME NEW seen, NEW kind \in SUBSET Workloads
  PROVE  Says(available(seen, kind), Unavailable(kind, seen))
<1>1. available(seen, kind) \in ConditionSets
  BY BuilderTypes
<1>2. QED
  BY <1>1 DEF Says, available, Unavailable, Empty, Types, Condition

\* Merging the conditions of two builders keeps that: False wins over True, and
\* the names are joined.
LEMMA TwoBuilders ==
  ASSUME NEW a, NEW b, NEW S, NEW T, Says(a, S), Says(b, T)
  PROVE  Says(merge(a, b, "update_message"), S \cup T)
<1> DEFINE m == merge(a, b, "update_message")
<1> USE DEF Says
<1>1. "Available" \in Types
  BY DEF Types
<1>2. a["Available"] # NoStatus /\ b["Available"] # NoStatus
  BY DEF NoStatus
<1>3. m["Available"] = update_message(a["Available"], b["Available"])
  BY <1>1, <1>2 DEF merge
<1>4. a["Available"] \in Conditions /\ b["Available"] \in Conditions
  BY <1>1 DEF ConditionSets
<1>5. /\ m["Available"].status = IF S \cup T = {} THEN "True" ELSE "False"
      /\ m["Available"].names = S \cup T
  <2>1. Rank("True") = 1 /\ Rank("False") = 2
    BY DEF Rank
  <2>2. CASE a["Available"].status = b["Available"].status
    BY <1>3, <1>4, <2>2 DEF update_message, Conditions
  <2>3. CASE a["Available"].status # b["Available"].status
    BY <1>3, <1>4, <2>1, <2>3 DEF update_message, Conditions
  <2>4. QED
    BY <2>2, <2>3
<1>6. \A t \in Types \ {"Available"} : m[t] = NoStatus
  BY DEF merge
<1>7. m \in ConditionSets
  BY JoinTypes
<1>8. QED
  BY <1>5, <1>6, <1>7

\* The joined conditions of all builders.
Joined(op, seen) ==
  LET workloads == merge(merge(available(seen, StatefulSets), available(seen, Deployments),
                               "update_message"),
                         available(seen, DaemonSets), "update_message")
  IN  merge(workloads, operations(op), "update_message")

\* However the workloads spread over the three builders, the joined condition names
\* all of them that are not available, and Stopped is that of the cluster operation.
LEMMA AllBuilders ==
  ASSUME NEW op \in ClusterOperations, NEW seen
  PROVE  /\ Joined(op, seen) \in ConditionSets
         /\ Joined(op, seen)["Available"].status =
              IF Unavailable(Workloads, seen) = {} THEN "True" ELSE "False"
         /\ Joined(op, seen)["Available"].names = Unavailable(Workloads, seen)
         /\ Joined(op, seen)["Stopped"].status = cluster_stopped(op)
<1> DEFINE a == available(seen, StatefulSets)
           b == available(seen, Deployments)
           c == available(seen, DaemonSets)
           abc == merge(merge(a, b, "update_message"), c, "update_message")
           S == Unavailable(StatefulSets, seen)
           T == Unavailable(Deployments, seen)
           U == Unavailable(DaemonSets, seen)
           o == operations(op)
<1>1. StatefulSets \in SUBSET Workloads /\ Deployments \in SUBSET Workloads
      /\ DaemonSets \in SUBSET Workloads
  BY DEF Workloads
<1>2. Says(a, S) /\ Says(b, T) /\ Says(c, U)
  BY <1>1, OneBuilder
<1>3. Says(merge(a, b, "update_message"), S \cup T)
  BY <1>2, TwoBuilders
<1>4. Says(abc, (S \cup T) \cup U)
  BY <1>2, <1>3, TwoBuilders
<1>5. (S \cup T) \cup U = Unavailable(Workloads, seen)
  BY DEF Unavailable, Workloads
<1>6. Says(abc, Unavailable(Workloads, seen))
  BY <1>4, <1>5
<1>7. Joined(op, seen) = merge(abc, o, "update_message")
  BY DEF Joined
<1>8. o \in ConditionSets /\ o["Available"] = NoStatus /\ o["Stopped"].status = cluster_stopped(op)
  BY BuilderTypes DEF operations, Empty, Types, Condition
<1> HIDE DEF abc, o
<1>9. "Available" \in Types /\ "Stopped" \in Types \ {"Available"}
  BY DEF Types
<1>10. merge(abc, o, "update_message")["Available"] = abc["Available"]
  <2>1. abc["Available"] # NoStatus
    BY <1>6 DEF Says, NoStatus
  <2>2. QED
    BY <1>8, <1>9, <2>1 DEF merge
<1>11. merge(abc, o, "update_message")["Stopped"] = o["Stopped"]
  BY <1>6, <1>9 DEF merge, Says
<1>12. merge(abc, o, "update_message") \in ConditionSets
  BY <1>6, <1>8, JoinTypes DEF Says
<1>13. QED
  BY <1>6, <1>7, <1>8, <1>10, <1>11, <1>12 DEF Says

\* The old conditions contribute transition times only: what is written says what
\* the builders say, with a time that moves exactly when the status changes.
LEMMA ComputedConditions ==
  ASSUME NEW old \in ConditionSets, NEW op \in ClusterOperations, NEW seen, clock \in Nat \ {0}
  PROVE  LET c == compute_conditions(old, op, seen)
         IN  /\ c \in ConditionSets
             /\ c["Available"].status = "True" <=> Unavailable(Workloads, seen) = {}
             /\ c["Available"].names = Unavailable(Workloads, seen)
             /\ c["Stopped"].status = cluster_stopped(op)
             /\ \A t \in Types : old[t] # NoStatus =>
                  IF c[t].status = old[t].status THEN c[t].time = old[t].time ELSE c[t].time = clock
<1> DEFINE j == Joined(op, seen)
           c == compute_conditions(old, op, seen)
<1>1. c = merge(old, j, "update_timestamps")
  BY DEF compute_conditions, Joined
<1>2. /\ j \in ConditionSets
      /\ j["Available"].status = IF Unavailable(Workloads, seen) = {} THEN "True" ELSE "False"
      /\ j["Available"].names = Unavailable(Workloads, seen)
      /\ j["Stopped"].status = cluster_stopped(op)
  BY AllBuilders
<1> HIDE DEF j, c
<1>3. c \in ConditionSets
  BY <1>1, <1>2, StampTypes
<1>4. ASSUME NEW t \in Types, j[t] # NoStatus
      PROVE  c[t].status = j[t].status /\ c[t].names = j[t].names
  <2>1. old[t] \in Conditions /\ j[t] \in Conditions
    BY <1>2 DEF ConditionSets
  <2>2. c[t] = IF old[t] = NoStatus THEN j[t] ELSE update_timestamps(old[t], j[t])
    BY <1>1, <1>4 DEF merge
  <2>3. QED
    BY <2>1, <2>2 DEF update_timestamps, Conditions
<1>5. ASSUME NEW t \in Types, old[t] # NoStatus
      PROVE  IF c[t].status = old[t].status THEN c[t].time = old[t].time ELSE c[t].time = clock
  <2>1. old[t] \in Conditions /\ j[t] \in Conditions
    BY <1>2 DEF ConditionSets
  <2>2. c[t] = IF j[t] = NoStatus THEN old[t] ELSE update_timestamps(old[t], j[t])
    BY <1>1, <1>5 DEF merge
  <2>3. QED
    BY <2>1, <2>2 DEF update_timestamps, Conditions
<1>6. "Available" \in Types /\ "Stopped" \in Types
  BY DEF Types
<1>7. j["Available"] # NoStatus /\ j["Stopped"] # NoStatus
  <2>1. cluster_stopped(op) # "None"
    BY DEF cluster_stopped
  <2>2. QED
    BY <1>2, <2>1 DEF NoStatus
<1>8. QED
  BY <1>2, <1>3, <1>4, <1>5, <1>6, <1>7 DEF c

(***************************************************************************)
(* StatusConditions: every step keeps the types                            *)
(***************************************************************************)
\* A cluster that was just created is not overridden, stopped or paused.
LEMMA NewResourceTypes == NewResource \in ClusterObjects
<1>1. [w \in {} |-> 0] \in OverrideFunctions
  BY DEF OverrideFunctions
<1>2. QED
  BY <1>1, BuiltTypes DEF NewResource, ClusterObjects, ClusterOperations

\* A run that starts has seen nothing and computed nothing.
LEMMA NewRunTypes ==
  /\ NoRun \in Runs
  /\ \A resource \in ClusterObjects : NewRun("adding", resource) \in Runs
<1>1. [w \in {} |-> 0] \in SeenWorkloads
  BY DEF SeenWorkloads
<1>2. QED
  BY <1>1, BuiltTypes, NewResourceTypes DEF NoRun, NewRun, Runs

\* The initial states have their types.
LEMMA TypeInit == Init => TypeOK
<1> SUFFICES ASSUME Init PROVE TypeOK
  OBVIOUS
<1>1. NewResource \in ClusterObjects /\ Empty \in ConditionSets
  BY NewResourceTypes, BuiltTypes
<1>2. NewResource.operation \in ClusterOperations /\ NewResource.overrides \in OverrideFunctions
  BY <1>1 DEF ClusterObjects
<1>3. requested \in [Workloads -> 0..Replicas] /\ ready \in [Workloads -> 0..Replicas]
  BY ConditionConstants DEF Init
<1>4. run \in Runs
  BY <1>1, NewRunTypes DEF Init
<1>5. QED
  BY <1>1, <1>2, <1>3, <1>4 DEF TypeOK, Init

\* What `add` returns becomes part of what the run has seen.
LEMMA AddTypes ==
  ASSUME TypeOK, NEW w \in Workloads, Add(w)
  PROVE  /\ requested' \in [Workloads -> 0..Replicas] /\ run' \in Runs
         /\ run'.at = "adding" /\ run'.resource = run.resource /\ run'.computed = run.computed
         /\ DOMAIN run'.seen = DOMAIN run.seen \cup {w}
         /\ \A v \in DOMAIN run'.seen :
              run'.seen[v] = IF v = w THEN [requested |-> requested'[w], ready |-> ready[w]]
                                      ELSE run.seen[v]
<1> DEFINE op == run.resource.operation
           o == run.resource.overrides
           mutated == IF op.stopped THEN 0 ELSE Replicas
           spec == IF op.paused THEN requested[w] ELSE IF w \in DOMAIN o THEN o[w] ELSE mutated
           seen == [v \in (DOMAIN run.seen) \cup {w} |->
                      IF v = w THEN [requested |-> spec, ready |-> ready[w]] ELSE run.seen[v]]
<1>1. spec \in 0..Replicas
  <2>1. PICK D \in SUBSET (StatefulSets \cup Deployments) : o \in [D -> 0..Replicas]
    BY DEF TypeOK, Runs, ClusterObjects, OverrideFunctions
  <2>2. requested[w] \in 0..Replicas /\ mutated \in 0..Replicas
    BY ConditionConstants DEF TypeOK
  <2>3. QED
    BY <2>1, <2>2
<1>2. requested' = [requested EXCEPT ![w] = spec] /\ run' = [run EXCEPT !.seen = seen]
  BY DEF Add
<1>3. requested' \in [Workloads -> 0..Replicas] /\ requested'[w] = spec
  BY <1>1, <1>2 DEF TypeOK
<1>4. PICK D \in SUBSET Workloads : run.seen \in [D -> [requested: 0..Replicas, ready: 0..Replicas]]
  BY DEF TypeOK, Runs, SeenWorkloads
<1>5. seen \in [D \cup {w} -> [requested: 0..Replicas, ready: 0..Replicas]]
  BY <1>1, <1>4 DEF TypeOK
<1> HIDE DEF seen, spec
<1>6. seen \in SeenWorkloads
  <2>1. D \cup {w} \in SUBSET Workloads
    OBVIOUS
  <2>2. QED
    BY <1>5, <2>1 DEF SeenWorkloads
<1>7. run' \in Runs /\ run'.seen = seen /\ run'.resource = run.resource /\ run'.computed = run.computed
      /\ run'.at = run.at
  BY <1>2, <1>6 DEF TypeOK, Runs
<1>8. run.at = "adding"
  BY DEF Add
<1>9. QED
  BY <1>3, <1>7, <1>8 DEF seen

\* A run that computes gets a condition set.
LEMMA ComputeTypes ==
  ASSUME TypeOK, Compute
  PROVE  /\ run' \in Runs /\ run'.at = "computed" /\ run'.resource = run.resource
         /\ run'.seen = run.seen /\ DOMAIN run.seen = Workloads
         /\ run'.computed = compute_conditions(run.resource.conditions,
                                               run.resource.operation, run.seen)
<1> DEFINE c == compute_conditions(run.resource.conditions, run.resource.operation, run.seen)
<1>1. run.resource.conditions \in ConditionSets /\ run.resource.operation \in ClusterOperations
  BY DEF TypeOK, Runs, ClusterObjects
<1>2. c \in ConditionSets
  <2>1. clock \in Nat \ {0}
    BY DEF TypeOK
  <2>2. QED
    BY <1>1, <2>1, ComputedConditions
<1>3. run' = [run EXCEPT !.at = "computed", !.computed = c] /\ DOMAIN run.seen = Workloads
  BY DEF Compute
<1> HIDE DEF c
<1>4. run' \in Runs /\ run'.at = "computed" /\ run'.resource = run.resource
      /\ run'.seen = run.seen /\ run'.computed = c
  BY <1>2, <1>3 DEF TypeOK, Runs
<1>5. QED
  BY <1>3, <1>4 DEF c

\* So has every state that a step leads to.
LEMMA TypeStep == TypeOK /\ [Next]_vars => TypeOK'
<1> SUFFICES ASSUME TypeOK, [Next]_vars PROVE TypeOK'
  OBVIOUS
<1>0. cache \in ClusterObjects
  BY DEF TypeOK
<1>1. CASE Begin
  <2>1. NewRun("adding", cache) \in Runs
    BY <1>0, NewRunTypes
  <2>2. QED
    BY <1>1, <2>1 DEF Begin, TypeOK
<1>2. ASSUME NEW w \in Workloads, Add(w) PROVE TypeOK'
  BY <1>2, AddTypes DEF Add, TypeOK
<1>3. CASE Compute
  BY <1>3, ComputeTypes DEF Compute, TypeOK
<1>4. CASE PatchStatus
  <2>1. run.computed \in ConditionSets
    BY DEF TypeOK, Runs
  <2>2. QED
    BY <1>4, <2>1, NewRunTypes DEF PatchStatus, TypeOK
<1>5. CASE Abandon
  BY <1>5, NewRunTypes DEF Abandon, Change, TypeOK
<1>6. CASE WatchEvent
  <2>1. Resource \in ClusterObjects
    BY DEF Resource, ClusterObjects, TypeOK
  <2>2. QED
    BY <1>6, <2>1 DEF WatchEvent, TypeOK
<1>7. CASE Tick
  BY <1>7 DEF Tick, TypeOK
<1>8. ASSUME NEW op \in ClusterOperations, EditOperation(op) PROVE TypeOK'
  BY <1>8 DEF EditOperation, Change, TypeOK
<1>9. ASSUME NEW o \in Overrides, EditOverrides(o) PROVE TypeOK'
  <2>1. o \in OverrideFunctions
    BY ConditionConstants DEF OverrideFunctions
  <2>2. QED
    BY <1>9, <2>1 DEF EditOverrides, Change, TypeOK
<1>10. ASSUME NEW w \in Workloads, NEW n \in 0..Replicas, SetReady(w, n) PROVE TypeOK'
  BY <1>10 DEF SetReady, Change, TypeOK
<1>11. CASE UNCHANGED vars
  BY <1>11 DEF vars, TypeOK
<1>12. QED
  BY <1>1, <1>2, <1>3, <1>4, <1>5, <1>6, <1>7, <1>8, <1>9, <1>10, <1>11 DEF Next, Reconcile

(***************************************************************************)
(* StatusConditions: the inductive invariant                               *)
(***************************************************************************)
\* While a cluster is to be stopped and is not paused, the workloads a run has
\* applied ask for no replicas, but for those that the user overrides.
SeenStopped ==
  run.at # "idle" /\ run.resource.operation.stopped /\ ~run.resource.operation.paused =>
    \A w \in DOMAIN run.seen :
      run.seen[w].requested =
        IF w \in DOMAIN run.resource.overrides THEN run.resource.overrides[w] ELSE 0

\* What a run computed from what it saw, at some time not later than the clock shows.
ComputedFromSeen ==
  run.at = "computed" =>
    /\ DOMAIN run.seen = Workloads
    /\ run.computed["Available"].status = "True" <=> Unavailable(Workloads, run.seen) = {}
    /\ run.computed["Available"].names = Unavailable(Workloads, run.seen)
    /\ run.computed["Stopped"].status = cluster_stopped(run.resource.operation)
    /\ \A t \in Types : run.resource.conditions[t] # NoStatus =>
         IF run.computed[t].status = run.resource.conditions[t].status
         THEN run.computed[t].time = run.resource.conditions[t].time
         ELSE run.computed[t].time \in 1..clock

IndInv == TypeOK /\ SeenStopped /\ ComputedFromSeen

\* A run that has not started satisfies the parts about runs.
LEMMA IdleRun ==
  ASSUME run.at = "idle" PROVE SeenStopped /\ ComputedFromSeen
BY DEF SeenStopped, ComputedFromSeen

\* The initial states satisfy the inductive invariant.
LEMMA IndInit == Init => IndInv
<1> SUFFICES ASSUME Init PROVE IndInv
  OBVIOUS
<1>1. run.at = "idle"
  BY DEF Init, NoRun, NewRun
<1>2. QED
  BY <1>1, IdleRun, TypeInit DEF IndInv

\* A workload of a stopped cluster that is available has replicas in the overrides.
LEMMA StoppedSeen == IndInv => StoppedIsNotAvailable
<1> SUFFICES ASSUME IndInv, run.at = "computed", run.computed["Stopped"].status = "True",
                    run.computed["Available"].status = "True",
                    NEW w \in StatefulSets \cup Deployments
             PROVE  w \in DOMAIN run.resource.overrides /\ run.resource.overrides[w] # 0
  BY DEF StoppedIsNotAvailable
<1> DEFINE op == run.resource.operation
<1>1. op.stopped /\ ~op.paused
  <2>1. cluster_stopped(op) = "True"
    BY DEF IndInv, ComputedFromSeen
  <2>2. QED
    BY <2>1 DEF cluster_stopped
<1>2. w \in Workloads /\ w \notin DaemonSets
  BY ConditionConstants DEF Workloads
<1>3. is_available(w, run.seen)
  BY <1>2 DEF IndInv, ComputedFromSeen, Unavailable
<1>4. run.seen[w].requested # 0
  BY <1>2, <1>3 DEF is_available, ReplicasAvailable
<1>5. run.seen[w].requested =
        IF w \in DOMAIN run.resource.overrides THEN run.resource.overrides[w] ELSE 0
  BY <1>1, <1>2 DEF IndInv, SeenStopped, ComputedFromSeen
<1>6. QED
  BY <1>4, <1>5

\* Every step keeps the inductive invariant.
LEMMA IndStep == IndInv /\ [Next]_vars => IndInv'
<1> SUFFICES ASSUME IndInv, [Next]_vars PROVE IndInv'
  OBVIOUS
<1>0. TypeOK /\ TypeOK'
  BY TypeStep DEF IndInv
<1>1. CASE Begin
  <2>1. run'.at = "adding" /\ run'.seen = [w \in {} |-> 0] /\ status' = status
    BY <1>1 DEF Begin, NewRun
  <2>2. SeenStopped' /\ ComputedFromSeen'
    BY <2>1 DEF SeenStopped, ComputedFromSeen
  <2>3. QED
    BY <1>0, <2>2 DEF IndInv
<1>2. ASSUME NEW w \in Workloads, Add(w) PROVE IndInv'
  <2> DEFINE op == run.resource.operation
  <2>1. /\ run'.at = "adding" /\ run'.resource = run.resource
        /\ DOMAIN run'.seen = DOMAIN run.seen \cup {w}
        /\ \A v \in DOMAIN run'.seen :
             run'.seen[v] = IF v = w THEN [requested |-> requested'[w], ready |-> ready[w]]
                                     ELSE run.seen[v]
    BY <1>0, <1>2, AddTypes
  <2>2. run.at = "adding" /\ status' = status
    BY <1>2 DEF Add
  <2>3. op.stopped /\ ~op.paused =>
          requested'[w] =
            IF w \in DOMAIN run.resource.overrides THEN run.resource.overrides[w] ELSE 0
    BY <1>0, <1>2 DEF Add, TypeOK
  <2>4. SeenStopped'
    BY <2>1, <2>2, <2>3 DEF IndInv, SeenStopped
  <2>5. ComputedFromSeen'
    BY <2>1 DEF ComputedFromSeen
  <2>6. QED
    BY <1>0, <2>4, <2>5 DEF IndInv
<1>3. CASE Compute
  <2> DEFINE c == compute_conditions(run.resource.conditions, run.resource.operation, run.seen)
  <2>1. /\ run'.at = "computed" /\ run'.resource = run.resource
        /\ run'.seen = run.seen /\ DOMAIN run.seen = Workloads /\ run'.computed = c
    BY <1>0, <1>3, ComputeTypes
  <2>2. run.at = "adding" /\ status' = status /\ clock' = clock
    BY <1>3 DEF Compute
  <2>3. /\ run.resource.conditions \in ConditionSets /\ run.resource.operation \in ClusterOperations
        /\ clock \in Nat \ {0}
    BY <1>0 DEF TypeOK, Runs, ClusterObjects
  <2>4. /\ c["Available"].status = "True" <=> Unavailable(Workloads, run.seen) = {}
        /\ c["Available"].names = Unavailable(Workloads, run.seen)
        /\ c["Stopped"].status = cluster_stopped(run.resource.operation)
        /\ \A t \in Types : run.resource.conditions[t] # NoStatus =>
             IF c[t].status = run.resource.conditions[t].status
             THEN c[t].time = run.resource.conditions[t].time ELSE c[t].time = clock
    BY <2>3, ComputedConditions
  <2> HIDE DEF c
  <2>5. SeenStopped'
    BY <2>1, <2>2 DEF IndInv, SeenStopped
  <2>6. ComputedFromSeen'
    <3>1. clock \in 1..clock
      BY <2>3
    <3>2. Unavailable(Workloads, run.seen)' = Unavailable(Workloads, run.seen)
      BY <2>1 DEF Unavailable
    <3>3. cluster_stopped(run.resource.operation)' = cluster_stopped(run.resource.operation)
      BY <2>1
    <3>4. QED
      BY <2>1, <2>2, <2>4, <3>1, <3>2, <3>3 DEF ComputedFromSeen
  <2>7. QED
    BY <1>0, <2>5, <2>6 DEF IndInv
<1>4. CASE PatchStatus
  <2>1. run'.at = "idle"
    BY <1>4 DEF PatchStatus, NoRun, NewRun
  <2>2. SeenStopped' /\ ComputedFromSeen'
    BY <2>1 DEF SeenStopped, ComputedFromSeen
  <2>3. QED
    BY <1>0, <2>2 DEF IndInv
<1>5. CASE Abandon
  <2>1. run'.at = "idle"
    BY <1>5 DEF Abandon, NoRun, NewRun
  <2>2. SeenStopped' /\ ComputedFromSeen'
    BY <2>1 DEF SeenStopped, ComputedFromSeen
  <2>3. QED
    BY <1>0, <2>2 DEF IndInv
<1>6. ASSUME UNCHANGED run, clock' = clock \/ clock' = clock + 1 PROVE IndInv'
  <2>1. SeenStopped'
    BY <1>6 DEF IndInv, SeenStopped
  <2>2. \A n \in 1..clock : n \in 1..clock'
    BY <1>0, <1>6 DEF TypeOK
  <2>3. Unavailable(Workloads, run.seen)' = Unavailable(Workloads, run.seen)
    BY <1>6 DEF Unavailable
  <2>4. ComputedFromSeen'
    BY <1>6, <2>2, <2>3 DEF IndInv, ComputedFromSeen
  <2>5. QED
    BY <1>0, <2>1, <2>4 DEF IndInv
<1>7. ASSUME \/ WatchEvent \/ Tick \/ UNCHANGED vars
             \/ \E op \in ClusterOperations : EditOperation(op)
             \/ \E o \in Overrides : EditOverrides(o)
             \/ \E w \in Workloads, n \in 0..Replicas : SetReady(w, n)
      PROVE  UNCHANGED run /\ (clock' = clock \/ clock' = clock + 1)
  BY <1>7 DEF WatchEvent, Tick, EditOperation, EditOverrides, SetReady, vars
<1>8. QED
  BY <1>1, <1>2, <1>3, <1>4, <1>5, <1>6, <1>7 DEF Next, Reconcile

\* The inductive invariant holds in every reachable state.
LEMMA IndAlways == Spec => []IndInv
BY IndInit, IndStep, PTL DEF Spec

(***************************************************************************)
(* StatusConditions: theorems                                              *)
(***************************************************************************)
\* The conditions a run computes (compute_conditions) say Available exactly if
\* every StatefulSet, Deployment and DaemonSet it saw is available, and name exactly
\* the others, whatever the old conditions were and whatever happened during the run.
THEOREM ConditionsSayWhatWasSeen == Spec => []AvailableIsAccurate
<1>1. IndInv => AvailableIsAccurate
  <2> SUFFICES ASSUME IndInv, run.at = "computed"
               PROVE  /\ run.computed["Available"].status = "True" <=> AllAvailable(run.seen)
                      /\ run.computed["Available"].names =
                           {w \in Workloads : ~is_available(w, run.seen)}
    BY DEF AvailableIsAccurate
  <2>1. Unavailable(Workloads, run.seen) = {} <=> AllAvailable(run.seen)
    BY DEF Unavailable, AllAvailable
  <2>2. QED
    BY <2>1 DEF IndInv, ComputedFromSeen, Unavailable
<1>2. QED
  BY IndAlways, <1>1, PTL

\* A run writes that a cluster is stopped and available (ClusterResources::add, the
\* condition builders) only if the user's overrides give each of its StatefulSets and
\* Deployments replicas, although the Pods of a stopped cluster end long after its
\* replicas were set to zero and the user edits both while the run is under way.
THEOREM StoppedClustersAreUnavailable == Spec => []StoppedIsNotAvailable
BY IndAlways, StoppedSeen, PTL

\* The last_transition_time of a stored condition moves exactly when its status
\* does, for a run that started from the stored conditions.
THEOREM TimesMarkTransitions == Spec => TransitionTimes
<1> DEFINE Kept == run.resource.conditions = status =>
                     \A t \in Types : status[t] # NoStatus =>
                       IF status'[t].status = status[t].status
                       THEN status'[t].time = status[t].time
                       ELSE status'[t].time \in 1..clock
<1>1. ASSUME IndInv, [Next]_vars PROVE [Kept]_vars
  <2>1. CASE PatchStatus
    BY <1>1, <2>1 DEF PatchStatus, IndInv, ComputedFromSeen
  <2>2. CASE status' = status
    BY <2>2
  <2>3. PatchStatus \/ status' = status
    BY <1>1 DEF Next, Reconcile, Begin, Add, Compute, Abandon, WatchEvent, Tick,
                EditOperation, EditOverrides, SetReady, vars
  <2>4. QED
    BY <2>1, <2>2, <2>3
<1>2. IndInv /\ [Next]_vars => [Kept]_vars
  BY <1>1
<1>3. QED
  BY IndAlways, <1>2, PTL DEF Spec, TransitionTimes
=============================================================================
