----------------------------- MODULE RandomSecret -----------------------------
(***************************************************************************)
(* create_random_secret_if_not_exists of commons/random_secret_creation.rs *)
(* A Secret with random contents is created once and never patched; an old *)
(* immutable one is deleted and created again as mutable, with its         *)
(* contents.  Each request to the API server is a step of its own.         *)
(***************************************************************************)
EXTENDS Naturals

CONSTANTS
  Reconcilers,    \* operator processes that reconcile the same stacklet
  MaxDisturbances,\* bound on failures, crashes and deletions by users
  MaxContents,    \* bound on the random contents that are generated
  Faults          \* "delete rejected", "create rejected": the request fails;
                  \* "delete lost", "create lost": its response is lost;
                  \* "crash": an operator restarts; "user": somebody deletes the Secret

ASSUME SecretConstants == MaxDisturbances \in Nat /\ MaxContents \in Nat

VARIABLES
  secret,         \* the Secret in the API server
  pc,             \* pc[p]: the request p sends next, or what its last call returned
  existing,       \* existing[p]: the existing_secret p read
  fresh,          \* the contents get_random_base64 generates next
  kept,           \* the contents users rely on, 0 when there are none
  interrupted,    \* a migration was cut off or met another process after its delete
  disturbances

secretVars == <<secret, pc, existing, fresh, kept, interrupted, disturbances>>

NoSecret == [exists |-> FALSE, contents |-> 0, immutable |-> FALSE]

Disturb(fault) ==
  /\ fault \in Faults
  /\ disturbances < MaxDisturbances
  /\ disturbances' = disturbances + 1

Interrupt(occasion) == interrupted' = (interrupted \/ occasion)
Migrating(p) == pc[p] = "recreate"

Goto(p, label) == pc' = [pc EXCEPT ![p] = label]

\* Client::get_opt.  An error ends the call before anything was done.
Get(p) ==
  /\ pc[p] \in {"called", "Ok", "Err"}
  /\ existing' = [existing EXCEPT ![p] = secret]
  /\ Goto(p, IF ~secret.exists THEN "create"
             ELSE IF secret.immutable THEN "delete" ELSE "Ok")
  /\ Interrupt(~secret.exists /\ \E q \in Reconcilers : Migrating(q))
  /\ UNCHANGED <<secret, fresh, kept, disturbances>>

\* Api::delete, without a precondition on what is deleted
Delete(p) ==
  /\ pc[p] = "delete" /\ secret.exists
  /\ secret' = NoSecret
  /\ Goto(p, "recreate")
  /\ Interrupt(secret.contents # existing[p].contents)
  /\ UNCHANGED <<existing, fresh, kept, disturbances>>

DeleteNotFound(p) ==
  /\ pc[p] = "delete" /\ ~secret.exists
  /\ Goto(p, "Err")
  /\ UNCHANGED <<secret, existing, fresh, kept, interrupted, disturbances>>

DeleteRejected(p) ==
  /\ pc[p] = "delete" /\ Disturb("delete rejected")
  /\ Goto(p, "Err")
  /\ UNCHANGED <<secret, existing, fresh, kept, interrupted>>

DeleteLost(p) ==
  /\ pc[p] = "delete" /\ secret.exists /\ Disturb("delete lost")
  /\ secret' = NoSecret
  /\ Goto(p, "Err")
  /\ Interrupt(TRUE)
  /\ UNCHANGED <<existing, fresh, kept>>

\* Mistake: the contents are generated again.
mutable_secret_NewContents(p) == [exists |-> TRUE, contents |-> fresh, immutable |-> FALSE]
\* Mistake: the Secret is created as it was.
mutable_secret_Unchanged(p) == existing[p]

mutable_secret(p) == [existing[p] EXCEPT !.immutable = FALSE]
random_secret == [exists |-> TRUE, contents |-> fresh, immutable |-> FALSE]

\* The API server creates what p asks for, unless there is such a Secret.
StoreSecret(p) ==
  /\ pc[p] \in {"recreate", "create"} /\ ~secret.exists
  /\ secret' = IF pc[p] = "recreate" THEN mutable_secret(p) ELSE random_secret
  /\ kept' = IF kept = 0 THEN secret'.contents ELSE kept

\* get_random_base64
Generated(p) ==
  IF pc[p] = "create" THEN fresh < MaxContents /\ fresh' = fresh + 1 ELSE UNCHANGED fresh

Create(p) ==
  /\ StoreSecret(p) /\ Generated(p)
  /\ Goto(p, "Ok")
  /\ UNCHANGED <<existing, interrupted, disturbances>>

CreateLost(p) ==
  /\ StoreSecret(p) /\ Generated(p) /\ Disturb("create lost")
  /\ Goto(p, "Err")
  /\ UNCHANGED <<existing, interrupted>>

AlreadyExists(p) ==
  /\ pc[p] \in {"recreate", "create"} /\ secret.exists
  /\ Goto(p, "Err")
  /\ UNCHANGED <<secret, existing, fresh, kept, interrupted, disturbances>>

CreateRejected(p) ==
  /\ pc[p] \in {"recreate", "create"} /\ Disturb("create rejected")
  /\ Goto(p, "Err")
  /\ Interrupt(Migrating(p))
  /\ UNCHANGED <<secret, existing, fresh, kept>>

Crash(p) ==
  /\ pc[p] \notin {"called", "Ok", "Err"} /\ Disturb("crash")
  /\ Goto(p, "called")
  /\ Interrupt(Migrating(p))
  /\ UNCHANGED <<secret, existing, fresh, kept>>

UserDelete ==
  /\ secret.exists /\ Disturb("user")
  /\ secret' = NoSecret /\ kept' = 0
  /\ UNCHANGED <<pc, existing, fresh, interrupted>>

SecretInit ==
  /\ secret \in {NoSecret} \cup [exists: {TRUE}, contents: {1}, immutable: BOOLEAN]
  /\ kept = secret.contents
  /\ pc = [p \in Reconcilers |-> "called"]
  /\ existing = [p \in Reconcilers |-> NoSecret]
  /\ fresh = 2 /\ interrupted = FALSE /\ disturbances = 0

SecretStep(p) ==
  \/ Get(p) \/ Delete(p) \/ DeleteNotFound(p) \/ DeleteRejected(p) \/ DeleteLost(p)
  \/ Create(p) \/ CreateLost(p) \/ AlreadyExists(p) \/ CreateRejected(p)

SecretNext == UserDelete \/ \E p \in Reconcilers : SecretStep(p) \/ Crash(p)

\* A stacklet is reconciled again and again, in particular after an error.
SecretFairness == \A p \in Reconcilers : WF_secretVars(SecretStep(p))

SecretSpec == SecretInit /\ [][SecretNext]_secretVars /\ SecretFairness

(***************************************************************************)
(* Properties                                                              *)
(***************************************************************************)

\* "The contents of the Secret will be kept": the Secret has the contents it had
\* first, unless a user deleted it.
ContentsKept == secret.exists /\ kept # 0 => secret.contents = kept

\* What the code does guarantee: the contents only change if, after the delete call
\* took effect, the migration failed, restarted or met a second process that found
\* no Secret, or if a delete hit contents it had not read.  Rejected deletes, creates
\* whose response is lost, and two processes that migrate one after the other do not
\* change them.
KeptUnlessInterrupted == ~interrupted => ContentsKept

\* In the end there is a mutable Secret, whatever failed and whoever reconciled.
BecomesMutable == <>[](secret.exists /\ ~secret.immutable)

=============================================================================
