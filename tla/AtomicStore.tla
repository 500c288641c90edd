----------------------------- MODULE AtomicStore -----------------------------
(***************************************************************************)
(* What a caller of the Kubernetes client (client/mod.rs) relies on: every *)
(* call that succeeds took effect at one moment between the call and its   *)
(* answer, on the resource it was made for and on no other.  A call that   *)
(* fails promises nothing about whether it took effect.  Everybody else    *)
(* may create, change and delete objects at any time.                      *)
(***************************************************************************)
EXTENDS Naturals

CONSTANTS
    Callers, Resources, None,
    collection   \* collection[r]: what r is listed with

VARIABLES
    objects,   \* per resource: None or [uid, version, deleting]
    issued,    \* the number of uids given out
    asked      \* per caller: [op, resource, read, uid, reply]; reply None: no answer yet

storeVars == <<objects, issued, asked>>

StoreInit ==
    /\ objects = [r \in Resources |-> None]
    /\ issued = 0
    /\ asked = [c \in Callers |-> None]

\* a uid is never used twice, and an object keeps the one it has
LegalChange(before, after) ==
    /\ before = None /\ after # None => after.uid = issued + 1 /\ issued' = issued + 1
    /\ ~(before = None /\ after # None) => issued' = issued
    /\ before # None /\ after # None => after.uid = before.uid /\ after.version >= before.version

OnlyChanges(r) ==
    /\ LegalChange(objects[r], objects'[r])
    /\ objects' = [objects EXCEPT ![r] = objects'[r]]

\* what a successful answer says of the object before and after the call took effect
Promise(call, before, after, value) ==
    CASE call.op \in {"get_opt", "get", "exists"} -> after = before /\ value = before
      [] call.op = "create" -> before = None /\ after # None /\ value = after
      [] call.op = "create_if_missing" ->
            after # None /\ value = after /\ (before # None => after = before)
      [] call.op \in {"merge_patch", "json_patch", "update"} ->
            /\ before # None /\ after # None /\ after.version = before.version + 1 /\ value = after
            /\ call.op = "update" /\ call.read # None => before = call.read
      [] call.op = "apply_patch" -> after # None /\ value = after
      [] call.op = "delete" -> before # None /\ (after # None => after.deleting)
      [] call.op = "ensure_deleted" ->
            after = before /\ call.uid # None /\ (before # None => before.uid # call.uid)
      [] call.op = "wait_created" -> after = before /\ before # None
      [] OTHER -> FALSE

Ask(c) ==
    /\ asked[c] = None \/ asked[c].reply # None
    /\ asked' = [asked EXCEPT ![c] = asked'[c]]
    /\ asked'[c].reply = None /\ asked'[c].uid = None
    /\ UNCHANGED <<objects, issued>>

\* an answer to a call of c; on a resource, or a list of those it is listed with
Answer(c) ==
    /\ asked[c] # None /\ asked[c].reply = None
    /\ asked' = [asked EXCEPT ![c].reply = asked'[c].reply]
    /\ asked'[c].reply # None
    /\ \/ OnlyChanges(asked[c].resource) /\ ~asked'[c].reply.ok
       \/ /\ OnlyChanges(asked[c].resource) /\ asked'[c].reply.ok
          /\ Promise(asked[c], objects[asked[c].resource], objects'[asked[c].resource],
                     asked'[c].reply.value)
       \/ /\ asked[c].op = "list" /\ UNCHANGED <<objects, issued>>
          /\ asked'[c].reply.value =
                {r \in Resources : /\ collection[r] = collection[asked[c].resource]
                                   /\ objects[r] # None}

\* the object a call of ensure_deleted is about is the one it marked
Mark(c) ==
    /\ asked[c] # None /\ asked[c].op = "ensure_deleted" /\ asked[c].reply = None
    /\ asked[c].uid = None /\ objects[asked[c].resource] # None
    /\ asked' = [asked EXCEPT ![c].uid = objects[asked[c].resource].uid]
    /\ OnlyChanges(asked[c].resource)

Others == (\E r \in Resources : OnlyChanges(r)) /\ UNCHANGED asked

StoreNext == Others \/ \E c \in Callers : Ask(c) \/ Answer(c) \/ Mark(c)

StoreSpec == StoreInit /\ [][StoreNext]_storeVars
==============================================================================
