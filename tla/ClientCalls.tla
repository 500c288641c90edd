----------------------------- MODULE ClientCalls -----------------------------
(***************************************************************************)
(* The calls of client/mod.rs as the requests they consist of, made by     *)
(* several callers while the cluster changes.  create_if_missing is two    *)
(* requests and ensure_deleted a request and a watch, so that others act   *)
(* in between.  A request can be refused, and its answer can be lost after *)
(* it took effect.  The API server and kube-rs are external.               *)
(***************************************************************************)
EXTENDS Naturals, Options

CONSTANTS
    Callers,       \* tasks of the operator that use the client
    Resources,     \* [scope, namespace, name]: the objects calls are about
    Calls,         \* <<<<caller, op>>, resource>>: the calls they make
    MaxUid,        \* bound: objects created
    MaxVersion     \* bound: changes to one object

VARIABLES
    store,    \* per path: None or [uid, version, deleting]
    uids,     \* the number of uids given out
    call      \* per caller: None or [op, resource, read, at, uid, reply]

clientVars == <<store, uids, call>>

------------------------------------------------------------------------------
(* Which object a request is about *)

\* GetApiImpl::get_namespace: of a namespaced resource only
get_namespace(resource) ==
    IF resource.scope = "Namespaced" THEN resource.namespace ELSE ""

\* get_api: the endpoint and the name; get_all_api has no namespace either
path(resource) == <<get_namespace(resource), resource.name>>

Paths == {path(r) : r \in Resources}

\* what a list is asked of: a namespace, or the cluster for a kind without one
endpoint(resource) == <<resource.scope, get_namespace(resource)>>

\* the functions of Client; list stands for list_with_label_selector too
Operations == {"get", "get_opt", "exists", "list", "create", "create_if_missing", "merge_patch",
               "json_patch", "apply_patch", "update", "delete", "ensure_deleted", "wait_created"}

\* the variants of Error; a request may be refused and its answer lost in all of them
Errors == {"GetResource", "CreateResource", "PatchResource", "UpdateResource", "DeleteResource",
           "DeleteAndFinalizeResource", "refused", "lost"}

Objects == [uid: Nat, version: Nat, deleting: BOOLEAN]

\* what a request is answered: one object, none, or a list of them; or an error
Replies == [ok: {TRUE}, value: Objects \cup {None} \cup SUBSET Resources]
           \cup [ok: {FALSE}, error: Errors]

\* read: the object an update was made from, None without a resourceVersion
Requests == [op: Operations, resource: Resources, read: Objects \cup {None},
             at: {"request", "create", "await"}, uid: Nat \cup {None}, reply: Replies \cup {None}]

\* a call without its progress, as AtomicStore has it
AskedCalls == [op: Operations, resource: Resources, read: Objects \cup {None},
               uid: Nat \cup {None}, reply: Replies \cup {None}]

\* two resources are two objects of the API server; None is none of the values
ASSUME ClientConstants ==
    /\ \A r, s \in Resources : path(r) = path(s) => r = s
    /\ \A k \in Calls : k[1][2] \in Operations /\ k[2] \in Resources
    /\ MaxUid \in Nat /\ MaxVersion \in Nat
    /\ None \notin Nat /\ None \notin Objects /\ None \notin Replies
    /\ None \notin Requests /\ None \notin AskedCalls

------------------------------------------------------------------------------
(* Requests *)

Asks(c) == call[c] # None /\ call[c].reply = None
At(c, op, at) == Asks(c) /\ call[c].op = op /\ call[c].at = at
Reply(c, reply) == call' = [call EXCEPT ![c].reply = reply]
Stored(c) == store[path(call[c].resource)]

Put(c, object) == store' = [store EXCEPT ![path(call[c].resource)] = object]

NewObject == [uid |-> uids + 1, version |-> 0, deleting |-> FALSE]

\* a request that changes the store: answered, or its answer is lost
Answered(c, value) == Reply(c, Ok(value)) \/ Reply(c, Err("lost"))

\* the functions that return the object
Returning == Operations \ {"exists", "list", "delete", "ensure_deleted", "wait_created"}

\* the object that the last call of c returned, if it is this resource
Held(c, resource) ==
    IF call[c] # None /\ call[c].resource = resource /\ call[c].reply.ok
       /\ call[c].op \in Returning
    THEN call[c].reply.value ELSE None

\* an update replaces what the caller made of the object it holds, or anything
Issue(c, op, resource) ==
    /\ ~Asks(c)
    /\ \E read \in {None, IF op = "update" THEN Held(c, resource) ELSE None} :
       call' = [call EXCEPT ![c] = [op |-> op, resource |-> resource, read |-> read,
                                    at |-> "request", uid |-> None, reply |-> None]]
    /\ UNCHANGED <<store, uids>>

\* the request is refused: no permission, no connection, a bad answer
Refuse(c) ==
    /\ Asks(c) /\ call[c].op # "wait_created"
    /\ Reply(c, Err("refused"))
    /\ UNCHANGED <<store, uids>>

\* exists is get_opt, asked whether there is a value; get fails without one
get(c) ==
    /\ Asks(c) /\ call[c].op \in {"get", "get_opt", "exists"}
    /\ Reply(c, IF call[c].op = "get" /\ Stored(c) = None THEN Err("GetResource")
                ELSE Ok(Stored(c)))
    /\ UNCHANGED <<store, uids>>

\* list and list_with_label_selector: the objects of one namespace
list(c) ==
    /\ Asks(c) /\ call[c].op = "list"
    /\ Reply(c, Ok({r \in Resources : /\ endpoint(r) = endpoint(call[c].resource)
                                      /\ store[path(r)] # None}))
    /\ UNCHANGED <<store, uids>>

create(c) ==
    \/ /\ Stored(c) # None /\ Reply(c, Err("CreateResource"))
       /\ UNCHANGED <<store, uids>>
    \/ /\ Stored(c) = None /\ uids < MaxUid
       /\ Put(c, NewObject) /\ uids' = uids + 1
       /\ Answered(c, NewObject)

create_if_missing_Overwrites(c) ==
    \/ /\ At(c, "create_if_missing", "request")
       /\ call' = [call EXCEPT ![c].at = "create"]
       /\ UNCHANGED <<store, uids>>
    \/ /\ At(c, "create_if_missing", "create") /\ uids < MaxUid
       /\ Put(c, NewObject) /\ uids' = uids + 1
       /\ Answered(c, NewObject)

\* get_opt, then create: somebody may have created the object in between
create_if_missing(c) ==
    \/ /\ At(c, "create_if_missing", "request")
       /\ IF Stored(c) # None THEN Reply(c, Ok(Stored(c)))
          ELSE call' = [call EXCEPT ![c].at = "create"]
       /\ UNCHANGED <<store, uids>>
    \/ At(c, "create_if_missing", "create") /\ create(c)

\* merge and JSON patches need the object; a server-side apply creates it
patch(c) ==
    /\ Asks(c) /\ call[c].op \in {"merge_patch", "json_patch", "apply_patch"}
    /\ IF Stored(c) = None
       THEN IF call[c].op = "apply_patch" THEN create(c)
            ELSE Reply(c, Err("PatchResource")) /\ UNCHANGED <<store, uids>>
       ELSE LET new == [Stored(c) EXCEPT !.version = @ + 1] IN
            /\ Stored(c).version < MaxVersion
            /\ Put(c, new) /\ Answered(c, new) /\ UNCHANGED uids

\* replace: refused when it was made from an object other than the stored one
update(c) ==
    /\ Asks(c) /\ call[c].op = "update"
    /\ IF Stored(c) = None \/ call[c].read \notin {None, Stored(c)}
       THEN Reply(c, Err("UpdateResource")) /\ UNCHANGED <<store, uids>>
       ELSE LET new == [Stored(c) EXCEPT !.version = @ + 1] IN
            /\ Stored(c).version < MaxVersion
            /\ Put(c, new) /\ Answered(c, new) /\ UNCHANGED uids

\* an object with finalizers is marked, any other one removed
Removed(c) == {None, [Stored(c) EXCEPT !.deleting = TRUE]}

delete(c) ==
    /\ Asks(c) /\ call[c].op = "delete"
    /\ IF Stored(c) = None THEN Reply(c, Err("DeleteResource")) /\ UNCHANGED <<store, uids>>
       ELSE \E object \in Removed(c) :
            Put(c, object) /\ Answered(c, None) /\ UNCHANGED uids

Deleted_ByName(c) == Stored(c) = None

\* delete_and_finalize waits for the object with the uid it deleted to be gone
Deleted(c) == Stored(c) # None => Stored(c).uid # call[c].uid

ensure_deleted(c) ==
    \/ /\ At(c, "ensure_deleted", "request")
       /\ IF Stored(c) = None THEN Reply(c, Err("DeleteAndFinalizeResource")) /\ UNCHANGED store
          ELSE \E object \in Removed(c) :
               /\ Put(c, object)
               /\ \/ call' = [call EXCEPT ![c].at = "await", ![c].uid = Stored(c).uid]
                  \/ Reply(c, Err("lost"))
       /\ UNCHANGED uids
    \/ /\ At(c, "ensure_deleted", "await") /\ Deleted(c)
       /\ Reply(c, Ok(None))
       /\ UNCHANGED <<store, uids>>

\* the watch skips errors and returns with the first object it sees
wait_created(c) ==
    /\ At(c, "wait_created", "request") /\ Stored(c) # None
    /\ Reply(c, Ok(Stored(c)))
    /\ UNCHANGED <<store, uids>>

------------------------------------------------------------------------------
(* The rest of the cluster *)

OthersCreate(p) ==
    /\ store[p] = None /\ uids < MaxUid
    /\ store' = [store EXCEPT ![p] = NewObject]
    /\ uids' = uids + 1
    /\ UNCHANGED call

OthersChange(p) ==
    /\ store[p] # None /\ store[p].version < MaxVersion
    /\ store' = [store EXCEPT ![p].version = @ + 1]
    /\ UNCHANGED <<uids, call>>

\* the owners of the finalizers of a deleted object remove them
Finalize(p) ==
    /\ store[p] # None /\ store[p].deleting
    /\ store' = [store EXCEPT ![p] = None]
    /\ UNCHANGED <<uids, call>>

ClientInit ==
    /\ store = [p \in Paths |-> None]
    /\ uids = 0
    /\ call = [c \in Callers |-> None]

Serve(c) ==
    \/ get(c) \/ list(c) \/ (At(c, "create", "request") /\ create(c)) \/ create_if_missing(c)
    \/ patch(c) \/ update(c) \/ delete(c) \/ ensure_deleted(c) \/ wait_created(c)

ClientNext ==
    \/ \E c \in Callers : \/ \E k \in Calls : k[1][1] = c /\ Issue(c, k[1][2], k[2])
                          \/ Refuse(c)
                          \/ Serve(c)
    \/ \E p \in Paths : OthersCreate(p) \/ OthersChange(p) \/ Finalize(p)

\* the API server answers requests and watches, and finalizers are removed
ClientFairness ==
    /\ \A c \in Callers : WF_clientVars(Serve(c))
    /\ \A p \in Paths : WF_clientVars(Finalize(p))

ClientSpec == ClientInit /\ [][ClientNext]_clientVars /\ ClientFairness

------------------------------------------------------------------------------
Store == INSTANCE AtomicStore WITH
    objects <- [r \in Resources |-> store[path(r)]],
    issued <- uids,
    collection <- [r \in Resources |-> endpoint(r)],
    asked <- [c \in Callers |-> IF call[c] = None THEN None
                                ELSE [op |-> call[c].op, resource |-> call[c].resource,
                                      read |-> call[c].read, uid |-> call[c].uid,
                                      reply |-> call[c].reply]]

\* The client implements AtomicStore: a call that succeeds took effect at one
\* moment, on its own resource.  create_if_missing never returns an object
\* other than the stored one and never replaces it, although it is a look and
\* a creation; ensure_deleted succeeds only when the object that it deleted is
\* gone, whoever used the name since; a list has the objects of its namespace;
\* and an update never overwrites a change its caller has not seen.
CallsAreAtomic == Store!StoreSpec

\* ensure_deleted returns, also when somebody recreates the object under its
\* name before the watch noticed that it was gone.
EnsureDeletedReturns ==
    \A c \in Callers :
        (Asks(c) /\ call[c].op = "ensure_deleted") ~> ~(Asks(c) /\ call[c].op = "ensure_deleted")

\* wait_created returns when an object is there to stay, also one that was
\* there before the call; without one it waits forever.
WaitCreatedReturns ==
    \A c \in Callers :
        LET waits == Asks(c) /\ call[c].op = "wait_created"
        IN  (waits /\ [](waits => Stored(c) # None)) ~> ~waits

\* The calls that wait for a change of the cluster return once it happened.
WaitsReturn == EnsureDeletedReturns /\ WaitCreatedReturns

==============================================================================
