----------------------- MODULE AccessRequestController -----------------------
(***************************************************************************)
(* internal/controller/accessrequest: the controller that gives out access *)
(* to the k0s cluster behind a Cluster, as an admin kubeconfig or as the   *)
(* token of a serviceaccount with the requested permissions, renews the    *)
(* tokens, and cleans up in the k0s cluster when the request is deleted.   *)
(*                                                                         *)
(* The Clusters and their k0s clusters are the environment, and behave as  *)
(* ClusterLifecycle says.  The members of Clusters are the Clusters that   *)
(* one after the other have the name the requests refer to; each has a     *)
(* k0s cluster of its own (K0sName).                                       *)
(***************************************************************************)
EXTENDS ClusterLifecycle, Naturals

CONSTANTS
    Requests,        \* AccessRequest objects, by UID
    Permissions,     \* what an entry of spec.token.permissions or roleRefs gives
    Roles,           \* names of what the entries become in a k0s cluster
    Procs,           \* provider processes; each runs one reconcile worker
    Faults,          \* kinds of fault that may happen
    MaxFaults,       \* how many of them may
    MaxEdits         \* how many edits of users and operators may

FaultKinds == {"api", "docker", "target", "crash"}

ASSUME AccessAssumption ==
    /\ "serviceaccount" \notin Roles
    /\ Faults \subseteq FaultKinds
    /\ MaxFaults \in Nat /\ MaxEdits \in Nat

VARIABLES
    requests,        \* the AccessRequests on the platform API server
    secrets,         \* the secret of each request
    contents,        \* what each k0s cluster holds with a request's labels
    queue,           \* each process's workqueue
    timers,          \* requests each process calls again after a while
    worker,          \* each process's reconcile pass
    faults, edits    \* budgets spent

accessVars == <<requests, secrets, contents, queue, timers, worker, faults, edits>>
vars == <<accessVars, lifecycleVars>>

NoTarget == "no cluster"
NoRequest == "no request"

\* An entry becomes a (cluster) role and its binding, or for a roleRef only the
\* binding.  They have the name the entry gives, or, without one and for every
\* roleRef, its index in the list: another entry at that index has the same name.
\* A list is the set of its entries, each with that name and what it gives; two
\* entries with one name in one list are not modelled.
Entries == Roles \X Permissions
Lists == {l \in SUBSET Entries : \A e, f \in l : e[1] = f[1] => e = f}

\* Everything a request may have in a k0s cluster: that, and its serviceaccount.
Account == <<"serviceaccount", "serviceaccount">>
Items == Entries \cup {Account}

NamesOf(items) == {i[1] : i \in items}

Operations == {"", "ignore", "reconcile"}

\* assigned: the provider's labels, and spec.clusterRef, which others set.
\* admin: without spec.token; perms: what spec.token asks for; generation: how
\* often that was edited.
\* granted: the phase and the secret reference; ready: the condition.
Request == [life: Lives, finalizer: BOOLEAN, assigned: {"no", "labelled", "ready"},
            op: Operations, admin: BOOLEAN, perms: Lists, generation: Nat,
            granted: BOOLEAN, ready: {"", "True", "False"}]

UnsetRequest == [life |-> "none", finalizer |-> FALSE, assigned |-> "no", op |-> "",
                 admin |-> FALSE, perms |-> {}, generation |-> 0, granted |-> FALSE,
                 ready |-> ""]

Present(q) == q.life \in {"live", "deleting"}

\* A request being deleted disappears with its last finalizer.
Collected(q) ==
    IF q.life = "deleting" /\ ~q.finalizer THEN [UnsetRequest EXCEPT !.life = "gone"] ELSE q

\* cluster, perms and generation: where the kubeconfig leads and what was granted
\* with it, and of which generation of the request that was.
\* due: past 80% of the token's lifetime, when it is to be renewed; never: an
\* admin kubeconfig.
Secret == [cluster: Clusters \cup {NoTarget}, perms: Lists, generation: Nat,
           age: {"none", "never", "fresh", "due"}]

NoSecret == [cluster |-> NoTarget, perms |-> {}, generation |-> 0, age |-> "none"]

Labels == {"idle", "operation", "responsible", "cluster", "addFinalizer", "valid",
           "target", "account", "permissions", "token", "secret", "cleanup",
           "exists", "removeFinalizer", "commit"}

\* Steps of a pass that grants, and those of a pass that knows its Cluster.
GrantSteps == {"addFinalizer", "valid", "account", "permissions", "token", "secret"}
ClusterSteps == GrantSteps \cup {"target", "cleanup", "exists", "removeFinalizer"}

\* cur is the request being reconciled, request the object as it was read, and
\* target the Cluster read for it.  todo: entries still to ensure; granted:
\* the secret was written; wrote, stale and again are as in ClusterController;
\* renew: the pass ends with RequeueAfter.
Worker == [pc: Labels, cur: Requests \cup {NoRequest}, request: Request,
           target: Clusters \cup {NoTarget}, todo: SUBSET Entries,
           granted: BOOLEAN, wrote: BOOLEAN, stale: BOOLEAN, again: BOOLEAN,
           renew: BOOLEAN]

IdleWorker == [pc |-> "idle", cur |-> NoRequest, request |-> UnsetRequest,
               target |-> NoTarget, todo |-> {}, granted |-> FALSE,
               wrote |-> FALSE, stale |-> FALSE, again |-> FALSE, renew |-> FALSE]

Init ==
    /\ LifecycleInit
    /\ requests = [r \in Requests |-> UnsetRequest]
    /\ secrets = [r \in Requests |-> NoSecret]
    /\ contents = [c \in Clusters |-> [r \in Requests |-> {}]]
    /\ queue = [p \in Procs |-> {}]
    /\ timers = [p \in Procs |-> {}]
    /\ worker = [p \in Procs |-> IdleWorker]
    /\ faults = 0 /\ edits = 0

----------------------------------------------------------------------------
(* Faults, writes and the ways a step of a pass can end. *)

Fault(kind) == kind \in Faults /\ faults < MaxFaults /\ faults' = faults + 1

Step(p, w) == worker' = [worker EXCEPT ![p] = w]

At(p, label) == worker[p].pc = label

Deleting(w) == w.request.life = "deleting"

Overtaken(r) ==
    [p \in Procs |-> IF worker[p].cur = r THEN [worker[p] EXCEPT !.stale = TRUE]
                                          ELSE worker[p]]

Queued(r) == [p \in Procs |-> queue[p] \cup {r}]

\* The watch only lets requests pass that carry the provider's labels.
Stored(r, q) ==
    /\ requests' = [requests EXCEPT ![r] = Collected(q)]
    /\ queue' = IF q.assigned = "no" THEN queue ELSE Queued(r)

Write(p, r, q, w) == Stored(r, q) /\ worker' = [Overtaken(r) EXCEPT ![p] = w]

\* The pass is over; the status says that it failed.
Fail(w) == [w EXCEPT !.pc = "commit", !.again = TRUE]

\* client.Update of the object: refused when it changed meanwhile.  It may be
\* applied and its response lost.
Update(p, q, w) ==
    LET me == worker[p]
    IN  \/ /\ ~me.stale /\ Present(requests[me.cur])
           /\ Write(p, me.cur, q, [w EXCEPT !.wrote = TRUE])
           /\ UNCHANGED faults
        \/ /\ ~me.stale /\ Present(requests[me.cur])
           /\ Write(p, me.cur, q, [Fail(me) EXCEPT !.stale = TRUE])
           /\ Fault("api")
        \/ /\ me.stale \/ ~Present(requests[me.cur])
           /\ Step(p, Fail(me))
           /\ UNCHANGED <<requests, queue, faults>>
        \/ /\ Step(p, Fail(me))
           /\ Fault("api")
           /\ UNCHANGED <<requests, queue>>

\* A call to the API server of the k0s cluster that leaves the request with
\* items in it.  It fails when k0s does not answer (any more), or by a fault,
\* with or without having been applied.
Call(p, items, w) ==
    LET me == worker[p]
        applied == [contents EXCEPT ![me.target][me.cur] = items]
    IN  \/ /\ k0s[me.target] = "ready"
           /\ contents' = applied /\ Step(p, w)
           /\ UNCHANGED faults
        \/ /\ k0s[me.target] # "ready"
           /\ Step(p, Fail(me))
           /\ UNCHANGED <<contents, faults>>
        \/ /\ k0s[me.target] = "ready"
           /\ contents' \in {contents, applied} /\ Step(p, Fail(me))
           /\ Fault("target")

Held(w) == contents[w.target][w.cur]

----------------------------------------------------------------------------
(* Reconcile *)

\* Nothing to do for a request that is gone or is to be ignored.
Skip(p, r) ==
    /\ At(p, "idle") /\ r \in queue[p]
    /\ ~Present(requests[r]) \/ requests[r].op = "ignore"
    /\ queue' = [queue EXCEPT ![p] = @ \ {r}]
    /\ UNCHANGED <<requests, secrets, contents, timers, worker, faults, edits, lifecycleVars>>

Get(p, r) ==
    /\ At(p, "idle") /\ r \in queue[p]
    /\ Present(requests[r]) /\ requests[r].op # "ignore"
    /\ queue' = [queue EXCEPT ![p] = @ \ {r}]
    /\ Step(p, [IdleWorker EXCEPT
                   !.pc = IF requests[r].op = "reconcile" THEN "operation" ELSE "responsible",
                   !.cur = r, !.request = requests[r]])
    /\ UNCHANGED <<requests, secrets, contents, timers, faults, edits, lifecycleVars>>

\* Mutant: the request is queued again after it was forgotten.
AbortForgets(p) ==
    /\ Step(p, IdleWorker)
    /\ queue' = [queue EXCEPT ![p] = @ \cup {IdleWorker.cur}]

\* An error before there is a status to commit.
Abort(p) ==
    /\ Step(p, IdleWorker)
    /\ queue' = [queue EXCEPT ![p] = @ \cup {worker[p].cur}]

\* The annotation is patched away without a lock; the pass goes on with the
\* response.
RemoveOperation(p) ==
    LET me == worker[p]
        q == [requests[me.cur] EXCEPT !.op = ""]
    IN  /\ At(p, "operation")
        /\ \/ /\ Present(requests[me.cur])
              /\ Write(p, me.cur, q, [me EXCEPT !.pc = "responsible", !.request = q,
                                                !.stale = FALSE])
              /\ UNCHANGED faults
           \/ /\ Present(requests[me.cur])
              /\ Write(p, me.cur, q, IdleWorker)
              /\ Fault("api")
           \/ /\ Abort(p)
              /\ IF Present(requests[me.cur]) THEN Fault("api") ELSE UNCHANGED faults
              /\ UNCHANGED requests
        /\ UNCHANGED <<secrets, contents, timers, edits, lifecycleVars>>

\* What the pass does is decided by the request as it was read; a request of
\* another provider can be queued by its secret.
Responsible(p) ==
    LET me == worker[p]
    IN  /\ At(p, "responsible")
        /\ CASE me.request.assigned = "no" -> Step(p, IdleWorker)
             [] me.request.assigned = "labelled" -> Step(p, Fail(me))
             [] OTHER -> Step(p, [me EXCEPT !.pc = "cluster"])
        /\ UNCHANGED <<requests, secrets, contents, queue, timers, faults, edits,
                       lifecycleVars>>

\* Where handing out access begins: admin kubeconfigs are not checked for age.
Granting(w) == IF w.request.admin THEN "target" ELSE "valid"

\* Get of the Cluster comes before the deletion is looked at.
GetCluster(p) ==
    LET me == worker[p]
        next == CASE Deleting(me) /\ me.request.finalizer -> "exists"
                  [] Deleting(me) /\ ~me.request.finalizer -> "commit"
                  [] ~Deleting(me) /\ ~me.request.finalizer -> "addFinalizer"
                  [] OTHER -> Granting(me)
    IN  /\ At(p, "cluster")
        /\ \/ /\ \E c \in Clusters : Exists(c) /\ Step(p, [me EXCEPT !.target = c, !.pc = next])
              /\ UNCHANGED faults
           \/ /\ \A c \in Clusters : ~Exists(c)
              /\ Step(p, Fail(me))
              /\ UNCHANGED faults
           \/ Step(p, Fail(me)) /\ Fault("api")
        /\ UNCHANGED <<requests, secrets, contents, queue, timers, edits, lifecycleVars>>

----------------------------------------------------------------------------
(* handleCreateOrUpdate *)

AddFinalizer(p) ==
    /\ At(p, "addFinalizer")
    /\ Update(p, [requests[worker[p].cur] EXCEPT !.finalizer = TRUE],
                 [worker[p] EXCEPT !.pc = Granting(worker[p]), !.request.finalizer = TRUE])
    /\ UNCHANGED <<secrets, contents, timers, edits, lifecycleVars>>

\* Mutant: a valid token needs no further call.
TokenStillValidForgets(p) ==
    LET me == worker[p]
    IN  /\ At(p, "valid")
        /\ Step(p, [me EXCEPT !.pc = IF me.request.granted /\ secrets[me.cur].age = "fresh"
                                     THEN "commit" ELSE "target"])
        /\ UNCHANGED <<requests, secrets, contents, queue, timers, faults, edits,
                       lifecycleVars>>

\* Only the phase and the secret are looked at.  A secret that cannot be read
\* is written again.
TokenStillValid(p) ==
    LET me == worker[p]
        valid == me.request.granted /\ secrets[me.cur].age = "fresh"
    IN  /\ At(p, "valid")
        /\ \/ /\ valid
              /\ Step(p, [me EXCEPT !.pc = "commit", !.renew = TRUE])
              /\ UNCHANGED faults
           \/ /\ Step(p, [me EXCEPT !.pc = "target"])
              /\ IF valid THEN Fault("api") ELSE UNCHANGED faults
        /\ UNCHANGED <<requests, secrets, contents, queue, timers, edits, lifecycleVars>>

\* The kubeconfig comes from a command in the container: it can be had while
\* k0s is still booting, or not yet.
TargetClient(p) ==
    LET me == worker[p]
        state == k0s[me.target]
        next == CASE Deleting(me) -> "cleanup"
                  [] ~Deleting(me) /\ me.request.admin -> "secret"
                  [] OTHER -> "account"
    IN  /\ At(p, "target")
        /\ \/ /\ state \in {"running", "ready"}
              /\ Step(p, [me EXCEPT !.pc = next])
              /\ UNCHANGED faults
           \/ state # "ready" /\ Step(p, Fail(me)) /\ UNCHANGED faults
           \/ Step(p, Fail(me)) /\ Fault("docker")
        /\ UNCHANGED <<requests, secrets, contents, queue, timers, edits, lifecycleVars>>

EnsureServiceAccount(p) ==
    LET me == worker[p]
        perms == me.request.perms
    IN  /\ At(p, "account")
        /\ Call(p, Held(me) \cup {Account},
                [me EXCEPT !.pc = IF perms = {} THEN "token" ELSE "permissions",
                           !.todo = perms])
        /\ UNCHANGED <<requests, secrets, queue, timers, edits, lifecycleVars>>

\* What of the items has another name than i, and i: an object of that name now
\* gives what i does.
Overwritten(items, i) == {h \in items : h[1] # i[1]} \cup {i}

\* ensurePermissions, one entry after the other (in any order, the order of the
\* list among them), over whatever has its name, a permission of the token in
\* use included.
EnsurePermission(p) ==
    LET me == worker[p]
    IN  /\ At(p, "permissions")
        /\ \E i \in me.todo :
               Call(p, Overwritten(Held(me), i),
                    [me EXCEPT !.pc = IF me.todo = {i} THEN "token" ELSE "permissions",
                               !.todo = @ \ {i}])
        /\ UNCHANGED <<requests, secrets, queue, timers, edits, lifecycleVars>>

\* No token without its serviceaccount.
CreateToken(p) ==
    LET me == worker[p]
    IN  /\ At(p, "token")
        /\ Call(p, Held(me), IF Account \in Held(me) THEN [me EXCEPT !.pc = "secret"]
                                                     ELSE Fail(me))
        /\ UNCHANGED <<requests, secrets, queue, timers, edits, lifecycleVars>>

\* writeAccessSecret.  Every change of the secret queues its request.
WriteSecret(p) ==
    LET me == worker[p]
        admin == me.request.admin
        s == [cluster |-> me.target,
              perms |-> IF admin THEN {} ELSE me.request.perms,
              generation |-> me.request.generation,
              age |-> IF admin THEN "never" ELSE "fresh"]
        written == /\ secrets' = [secrets EXCEPT ![me.cur] = s]
                   /\ queue' = Queued(me.cur)
    IN  /\ At(p, "secret")
        /\ \/ /\ written
              /\ Step(p, [me EXCEPT !.granted = TRUE,
                                    !.pc = IF admin THEN "commit" ELSE "cleanup"])
              /\ UNCHANGED faults
           \/ /\ written \/ UNCHANGED <<secrets, queue>>
              /\ Step(p, Fail(me))
              /\ Fault("api")
        /\ UNCHANGED <<requests, contents, timers, edits, lifecycleVars>>

\* Mutant: the serviceaccount is not among what is kept.
KeepPermissions(w) == IF Deleting(w) THEN {} ELSE NamesOf(w.request.perms)

\* The names of what the cleanup leaves alone.
Keep(w) == IF Deleting(w) THEN {} ELSE NamesOf(w.request.perms \cup {Account})

\* Mutant: a live request is not cleaned up.
CleanUpDeleted(p) ==
    LET me == worker[p]
        stale == IF Deleting(me) THEN Held(me) ELSE {}
    IN  /\ At(p, "cleanup")
        /\ Call(p, Held(me) \ stale,
                [me EXCEPT !.pc = IF Deleting(me) THEN "removeFinalizer" ELSE "commit",
                           !.renew = ~Deleting(me)])
        /\ UNCHANGED <<requests, secrets, queue, timers, edits, lifecycleVars>>

\* cleanupResources, one stale object after the other, the serviceaccount last.
CleanUp(p) ==
    LET me == worker[p]
        stale == {h \in Held(me) : h[1] \notin Keep(me)}
        done == [me EXCEPT !.pc = IF Deleting(me) THEN "removeFinalizer" ELSE "commit",
                           !.renew = ~Deleting(me)]
    IN  /\ At(p, "cleanup")
        /\ \/ stale = {} /\ Call(p, Held(me), done)
           \/ \E i \in stale :
                  /\ i = Account => stale = {Account}
                  /\ Call(p, Held(me) \ {i}, IF stale = {i} THEN done ELSE me)
        /\ UNCHANGED <<requests, secrets, queue, timers, edits, lifecycleVars>>

----------------------------------------------------------------------------
(* handleDelete and updateStatus *)

\* Mutant: an error of ClusterExists counts as a cluster that is gone.
ClusterExistsUnchecked(p) ==
    LET me == worker[p]
    IN  /\ At(p, "exists")
        /\ \/ Step(p, [me EXCEPT !.pc = "target"]) /\ UNCHANGED faults
           \/ Step(p, [me EXCEPT !.pc = "removeFinalizer"]) /\ Fault("docker")
        /\ UNCHANGED <<requests, secrets, contents, queue, timers, edits, lifecycleVars>>

\* Mutant: the cleanup is tried although the k0s cluster is gone.
ClusterExistsAlways(p) ==
    /\ At(p, "exists")
    /\ Step(p, [worker[p] EXCEPT !.pc = "target"])
    /\ UNCHANGED <<requests, secrets, contents, queue, timers, faults, edits, lifecycleVars>>

ClusterExists(p) ==
    LET me == worker[p]
    IN  /\ At(p, "exists")
        /\ \/ /\ Step(p, [me EXCEPT !.pc = IF k0s[me.target] = "absent"
                                           THEN "removeFinalizer" ELSE "target"])
              /\ UNCHANGED faults
           \/ Step(p, Fail(me)) /\ Fault("docker")
        /\ UNCHANGED <<requests, secrets, contents, queue, timers, edits, lifecycleVars>>

RemoveFinalizer(p) ==
    /\ At(p, "removeFinalizer")
    /\ Update(p, [requests[worker[p].cur] EXCEPT !.finalizer = FALSE],
                 [worker[p] EXCEPT !.pc = "commit"])
    /\ UNCHANGED <<secrets, contents, timers, edits, lifecycleVars>>

\* updateStatus, and what controller-runtime makes of the result.  The patch
\* carries what changed of phase and condition; the condition's message and
\* observedGeneration can make it necessary when neither did.  It is locked
\* only when the pass wrote the object before.
UpdateStatus(p) ==
    LET me == worker[p]
        r == me.cur
        q == requests[r]
        ready == IF me.again THEN "False" ELSE "True"
        patched == [q EXCEPT !.granted = @ \/ me.granted,
                             !.ready = IF ready = me.request.ready THEN @ ELSE ready]
        conflict == ~Present(q) \/ (me.wrote /\ me.stale)
        Renew(error) ==
            timers' = IF me.renew /\ ~error THEN [timers EXCEPT ![p] = @ \cup {r}]
                                            ELSE timers
    IN  /\ At(p, "commit")
        /\ \/ /\ ready = me.request.ready /\ (me.granted => me.request.granted)
              /\ Step(p, IdleWorker) /\ Renew(me.again)
              /\ queue' = IF me.again THEN [queue EXCEPT ![p] = @ \cup {r}] ELSE queue
              /\ UNCHANGED <<requests, faults>>
           \/ /\ ~conflict
              /\ Write(p, r, patched, IdleWorker) /\ Renew(me.again)
              /\ UNCHANGED faults
           \/ /\ ~conflict
              /\ Write(p, r, patched, IdleWorker) /\ Renew(TRUE)
              /\ Fault("api")
           \/ /\ Abort(p)
              /\ IF conflict THEN UNCHANGED faults ELSE Fault("api")
              /\ UNCHANGED <<requests, timers>>
        /\ UNCHANGED <<secrets, contents, edits, lifecycleVars>>

----------------------------------------------------------------------------
(* Everybody else *)

\* An edit of r that is not the provider's.
Edit(r, q) ==
    /\ Stored(r, q)
    /\ worker' = Overtaken(r)
    /\ UNCHANGED <<secrets, contents, timers, faults, lifecycleVars>>

CreateRequest(r) ==
    /\ requests[r].life = "none"
    /\ \E admin \in BOOLEAN, perms \in Lists :
           /\ admin => perms = {}
           /\ Edit(r, [UnsetRequest EXCEPT !.life = "live", !.admin = admin, !.perms = perms])
    /\ UNCHANGED edits

DeleteRequest(r) ==
    /\ requests[r].life = "live"
    /\ Edit(r, [requests[r] EXCEPT !.life = "deleting"])
    /\ UNCHANGED edits

\* The operator's controller finds the Cluster of a request and labels it.
Assign(r) ==
    /\ Present(requests[r]) /\ requests[r].assigned # "ready"
    /\ \E a \in {"labelled", "ready"} \ {requests[r].assigned} :
           Edit(r, [requests[r] EXCEPT !.assigned = a])
    /\ UNCHANGED edits

SetOperation(r, v) ==
    /\ edits < MaxEdits /\ edits' = edits + 1
    /\ Present(requests[r]) /\ requests[r].op # v
    /\ Edit(r, [requests[r] EXCEPT !.op = v])

EditPermissions(r) ==
    /\ edits < MaxEdits /\ edits' = edits + 1
    /\ requests[r].life = "live" /\ ~requests[r].admin
    /\ \E perms \in Lists \ {requests[r].perms} :
           Edit(r, [requests[r] EXCEPT !.perms = perms, !.generation = @ + 1])

DropSecret(r) ==
    /\ secrets[r].age # "none"
    /\ secrets' = [secrets EXCEPT ![r] = NoSecret]
    /\ queue' = Queued(r)
    /\ UNCHANGED <<requests, contents, timers, worker, faults, lifecycleVars>>

DeleteSecret(r) ==
    /\ edits < MaxEdits /\ edits' = edits + 1
    /\ requests[r].life # "gone" /\ DropSecret(r)

\* A secret goes with its owner.
GarbageCollect(r) ==
    /\ requests[r].life = "gone" /\ DropSecret(r)
    /\ UNCHANGED edits

TokenAges(r) ==
    /\ secrets[r].age = "fresh"
    /\ secrets' = [secrets EXCEPT ![r].age = "due"]
    /\ UNCHANGED <<requests, contents, queue, timers, worker, faults, edits, lifecycleVars>>

\* A timer can be older than the token: nothing cancels it.
TimerFires(p, r) ==
    /\ r \in timers[p]
    /\ timers' = [timers EXCEPT ![p] = @ \ {r}]
    /\ queue' = [queue EXCEPT ![p] = @ \cup {r}]
    /\ UNCHANGED <<requests, secrets, contents, worker, faults, edits, lifecycleVars>>

\* A restarted process lists the requests with its labels and the secrets, and
\* has no timers.
Crash(p) ==
    /\ Fault("crash")
    /\ Step(p, IdleWorker)
    /\ queue' = [queue EXCEPT ![p] =
                     {r \in Requests : \/ Present(requests[r]) /\ requests[r].assigned # "no"
                                       \/ secrets[r].age # "none"}]
    /\ timers' = [timers EXCEPT ![p] = {}]
    /\ UNCHANGED <<requests, secrets, contents, edits, lifecycleVars>>

\* One Cluster has the name at a time.  What is in a k0s cluster goes with it.
ClusterStep(c) ==
    /\ LifecycleStep(c)
    /\ life[c] = "none" => \A d \in Clusters : ~Exists(d)
    /\ contents' = IF k0s'[c] = "absent" THEN [contents EXCEPT ![c] = [r \in Requests |-> {}]]
                                         ELSE contents
    /\ UNCHANGED <<requests, secrets, queue, timers, worker, faults, edits>>

----------------------------------------------------------------------------

Pass(p) ==
    \/ RemoveOperation(p) \/ Responsible(p) \/ GetCluster(p)
    \/ AddFinalizer(p) \/ TokenStillValid(p) \/ TargetClient(p)
    \/ EnsureServiceAccount(p) \/ EnsurePermission(p) \/ CreateToken(p)
    \/ WriteSecret(p) \/ CleanUp(p)
    \/ ClusterExists(p) \/ RemoveFinalizer(p) \/ UpdateStatus(p)

Dequeue(p, r) == Skip(p, r) \/ Get(p, r)

UserStep(r) ==
    \/ CreateRequest(r) \/ DeleteRequest(r) \/ Assign(r)
    \/ \E v \in Operations : SetOperation(r, v)
    \/ EditPermissions(r) \/ DeleteSecret(r)

Next ==
    \/ \E p \in Procs : Pass(p) \/ Crash(p)
    \/ \E p \in Procs, r \in Requests : Dequeue(p, r) \/ TimerFires(p, r)
    \/ \E r \in Requests : UserStep(r) \/ GarbageCollect(r) \/ TokenAges(r)
    \/ \E c \in Clusters : ClusterStep(c)

Spec == Init /\ [][Next]_vars

\* A worker runs its pass to the end, the workqueue hands out every request it
\* holds, time passes, and a timer fires when the token it was set for is due.
\* Nothing is promised of users, Clusters, crashes and faults.
FairSpec ==
    /\ Spec
    /\ \A p \in Procs : WF_vars(Pass(p))
    /\ \A p \in Procs, r \in Requests :
           /\ SF_vars(Dequeue(p, r))
           /\ WF_vars(TimerFires(p, r) /\ secrets[r].age # "fresh")
    /\ \A r \in Requests : WF_vars(TokenAges(r)) /\ WF_vars(GarbageCollect(r))
----------------------------------------------------------------------------
(* Safety *)

\* A worker in a pass knows its request, and one that acts on a Cluster knows
\* which.
Sound(w) ==
    /\ w \in Worker
    /\ w.pc # "idle" => w.cur \in Requests
    /\ w.pc \in ClusterSteps => w.target \in Clusters

\* Every variable keeps its type.
TypeOK ==
    /\ LifecycleTypeOK
    /\ requests \in [Requests -> Request]
    /\ secrets \in [Requests -> Secret]
    /\ contents \in [Clusters -> [Requests -> SUBSET Items]]
    /\ queue \in [Procs -> SUBSET Requests]
    /\ timers \in [Procs -> SUBSET Requests]
    /\ worker \in [Procs -> Worker]
    /\ \A p \in Procs : Sound(worker[p])
    /\ faults \in Nat /\ edits \in Nat

\* Whatever a k0s cluster holds for a request has a request that will clean it
\* up: it is there and holds the finalizer, also when a pass that grants goes on
\* after the deletion, or when the Cluster is replaced by another one of its
\* name while a pass is in the middle of it (handleDelete).
NothingLeftBehind ==
    \A c \in Clusters, r \in Requests :
        contents[c][r] # {} => Present(requests[r]) /\ requests[r].finalizer

\* What is held gives what token s of request q was granted with.
Backed(s, q, held) ==
    /\ NamesOf(s.perms \cup {Account}) \subseteq NamesOf(held)
    /\ s.generation = q.generation => s.perms \cup {Account} \subseteq held

\* What a token in use was granted with, as long as neither its request nor its
\* Cluster is deleted: nothing of it is ever missing, although an edit of the
\* permissions may have overwritten what has the same name; and as long as the
\* request is not edited all of it stays what it was, through renewals, the ones
\* that fail half way included (reconcileTokenAccess: ensurePermissions,
\* writeAccessSecret, cleanupResources).
GrantsHold ==
    \A r \in Requests :
        LET s == secrets[r]
        IN  requests[r].life = "live" /\ s.age \in {"fresh", "due"} /\ life[s.cluster] = "live"
            => Backed(s, requests[r], contents[s.cluster][r])

----------------------------------------------------------------------------
(* Why the safety properties hold, with one process and no adopted container *)

SingleProcess == \A p, q \in Procs : p = q
NoneAdopted == Prebuilt = {}

\* What a pass concluded from the request and the Cluster it read stays so until
\* it acts on it: only this worker removes the finalizer, a deletion is final,
\* and the Clusters that had the name before, or get it meanwhile, hold nothing
\* for a request that is being deleted.
PassKnows(p) ==
    LET me == worker[p]
        r == me.cur
        c == me.target
    IN  me.pc \notin {"idle", "commit"} =>
            /\ me.request.finalizer => Present(requests[r]) /\ requests[r].finalizer
            /\ Deleting(me) => requests[r].life \in {"deleting", "gone"}
            /\ me.pc \in ClusterSteps => life[c] # "none"
            /\ me.pc \in ClusterSteps \ {"addFinalizer"} => me.request.finalizer
            /\ me.pc \in GrantSteps => ~Deleting(me)
            /\ me.pc \in {"exists", "removeFinalizer"} => Deleting(me)
            /\ Deleting(me) /\ me.pc \in ClusterSteps =>
                   \A d \in Clusters \ {c} : contents[d][r] = {}
            /\ me.pc = "removeFinalizer" => contents[c][r] = {}

\* What a pass has ensured is there until it has written the secret, and what
\* it has written is the secret until it has cleaned up.
Ensured(w) ==
    /\ w.pc \in {"permissions", "token", "cleanup"} \/ (w.pc = "secret" /\ ~w.request.admin)
    /\ ~Deleting(w)

PassGrants(p) ==
    LET me == worker[p]
        r == me.cur
        c == me.target
    IN  Ensured(me) =>
            /\ life[c] = "live" =>
                   (me.request.perms \ me.todo) \cup {Account} \subseteq contents[c][r]
            /\ me.todo \subseteq IF me.pc = "permissions" THEN me.request.perms ELSE {}
            /\ me.pc = "cleanup" /\ secrets[r].age # "none" =>
                   secrets[r].cluster = c /\ secrets[r].perms = me.request.perms

\* Contents are in a k0s cluster, k0s clusters in a Cluster, and a secret belongs
\* to a request and leads to a Cluster that were created.
ClustersHold ==
    /\ BuiltOnLease
    /\ \A c, d \in Clusters : Exists(c) /\ Exists(d) => c = d
    /\ \A c \in Clusters, r \in Requests : contents[c][r] # {} => k0s[c] # "absent"
    /\ \A r \in Requests : secrets[r].age # "none" =>
           /\ requests[r].life # "none"
           /\ secrets[r].cluster \in Clusters /\ life[secrets[r].cluster] # "none"

\* A copy of the request's permissions is of an earlier generation, or is still
\* what the request asks for.
Copy(a, q) == /\ a.generation <= q.generation
              /\ a.generation = q.generation => a.perms = q.perms

\* What a pass read of a request is no older than what its token was granted with,
\* so that a pass never brings back what an earlier one has replaced.
GenerationsKept ==
    \A r \in Requests :
        LET q == requests[r]
            s == secrets[r]
            token == s.age \in {"fresh", "due"}
        IN  /\ q.life = "none" => s.age = "none"
            /\ q.life = "live" /\ token => Copy(s, q)
            /\ \A p \in Procs :
                   LET me == worker[p]
                   IN  me.pc # "idle" /\ me.cur = r =>
                           /\ q.life # "none"
                           /\ q.life = "live" => Copy(me.request, q)
                           /\ q.life = "live" /\ token =>
                                  s.generation <= me.request.generation

\* The inductive invariant behind NothingLeftBehind and GrantsHold.
Custody ==
    /\ TypeOK
    /\ NothingLeftBehind
    /\ GrantsHold
    /\ ClustersHold
    /\ GenerationsKept
    /\ \A p \in Procs : PassKnows(p) /\ PassGrants(p)

----------------------------------------------------------------------------
(* Liveness, under FairSpec *)

\* r is the provider's, is not to be ignored, and its Cluster is c.
Served(r, c) ==
    /\ requests[r].assigned = "ready" /\ requests[r].op # "ignore"
    /\ Exists(c)

\* A live request of a cluster that is up ends with exactly the permissions it
\* asks for: what a pass did not clean up, or an edit it did not see, is made
\* good by a later pass, at the latest by the renewal of the token.
EventuallyExact ==
    \A r \in Requests, c \in Clusters :
        <>[](/\ Served(r, c) /\ k0s[c] = "ready"
             /\ requests[r].life = "live" /\ ~requests[r].admin)
            => <>[](contents[c][r] = requests[r].perms \cup {Account})

\* It is granted, and again and again has a fresh secret for the cluster there
\* is, whoever deletes the secret, replaces the Cluster, or restarts the
\* provider and its timers with it.
EventuallyGranted ==
    \A r \in Requests, c \in Clusters :
        <>[](Served(r, c) /\ requests[r].life = "live" /\ k0s[c] = "ready")
            => /\ <>[](requests[r].granted /\ requests[r].ready = "True")
               /\ []<>(secrets[r].age \in {"fresh", "never"})
               /\ []<>(requests[r].admin \/ secrets[r].cluster = c)

\* A request that is deleted goes away while its Cluster is there and the k0s
\* cluster can be reached, or is gone.
EventuallyReleased ==
    \A r \in Requests :
        <>[](\E c \in Clusters : Served(r, c) /\ k0s[c] \in {"ready", "absent"})
            => (requests[r].life = "deleting" ~> requests[r].life = "gone")

----------------------------------------------------------------------------
(* What a comment of the repository claims and the code does not do *)

\* access.go on handleDelete: "If the k0s cluster is already gone, there is
\* nothing to clean up in it."
ReleasedWhenGone ==
    \A r \in Requests :
        <>[](/\ requests[r].assigned = "ready" /\ requests[r].op # "ignore"
             /\ \A c \in Clusters : k0s[c] = "absent")
            => (requests[r].life = "deleting" ~> requests[r].life = "gone")
=============================================================================
