----------------------- MODULE ProviderConfigController -----------------------
(***************************************************************************)
(* internal/controller/config: the controller that publishes a             *)
(* ClusterProfile for every ProviderConfig, under the same name, so that   *)
(* the scheduler hands Clusters to this provider.                          *)
(*                                                                         *)
(* ProviderConfigs of different names share nothing, so the module is      *)
(* about one name.  The members of Configs, numbered in the order of their *)
(* creation, are the objects that one after the other have it; requests,   *)
(* patches and profiles go by the name and cannot tell them apart, owner   *)
(* references and updates can.                                             *)
(***************************************************************************)
EXTENDS Integers

CONSTANTS
    Configs,         \* ProviderConfigs of the name
    Procs,           \* provider processes; each runs one reconcile worker
    Faults,          \* kinds of fault that may happen
    MaxFaults,       \* how many of them may
    MaxEdits         \* how many edits of users and other controllers may

\* Who controls the profile, if it is no ProviderConfig.
NoOwner == -1
Foreign == -2

\* What is assumed of the constants.
ConfigAssumption ==
    /\ Configs \subseteq Nat
    /\ MaxFaults \in Nat /\ MaxEdits \in Nat

VARIABLES
    configs,         \* the ProviderConfigs on the platform API server
    profile,         \* whom the ClusterProfile of the name points to
    owner,           \* its controlling owner reference
    queue,           \* whether the name is in each process's workqueue
    worker,          \* each process's reconcile pass
    faults, edits    \* budgets spent

vars == <<configs, profile, owner, queue, worker, faults, edits>>

Operations == {"", "ignore", "reconcile"}

\* observed: the status says Ready for the present generation of the spec.
Config == [life: {"none", "live", "deleting", "gone"},
           op: Operations, observed: BOOLEAN]

UnsetConfig == [life |-> "none", op |-> "", observed |-> FALSE]

Labels == {"idle", "operation", "profile", "create", "update", "status"}

\* cur is the ProviderConfig read; stale: somebody else wrote it
\* after the pass read it; moved: the same for the profile.
Worker == [pc: Labels, cur: Configs \cup {NoOwner}, stale: BOOLEAN, moved: BOOLEAN]

IdleWorker == [pc |-> "idle", cur |-> NoOwner, stale |-> FALSE, moved |-> FALSE]

\* The ProviderConfig that has the name, if there is one.
Named == {c \in Configs : configs[c].life \in {"live", "deleting"}}

Published(c) == profile = "ours" /\ owner = c

Init ==
    /\ configs = [c \in Configs |-> UnsetConfig]
    /\ profile = "absent" /\ owner = NoOwner
    /\ queue = [p \in Procs |-> FALSE]
    /\ worker = [p \in Procs |-> IdleWorker]
    /\ faults = 0 /\ edits = 0

----------------------------------------------------------------------------
(* Faults, writes and how a pass ends. *)

Fault(kind) == kind \in Faults /\ faults < MaxFaults /\ faults' = faults + 1

Step(p, w) == worker' = [worker EXCEPT ![p] = w]

At(p, label) == worker[p].pc = label

\* Reconcile returns an error.
Abort(p) == Step(p, IdleWorker) /\ queue' = [queue EXCEPT ![p] = TRUE]

Queued == [p \in Procs |-> TRUE]

\* A ProviderConfig is written: whoever is in a pass over it is overtaken, and
\* the watch queues the name.
Stored(c, o) == configs' = [configs EXCEPT ![c] = o] /\ queue' = Queued

OvertakenBy(c) ==
    [p \in Procs |-> IF worker[p].cur = c THEN [worker[p] EXCEPT !.stale = TRUE]
                                          ELSE worker[p]]

\* The profile is written: Owns queues the name that controls it, or did.
StoredProfile(v, o) ==
    /\ profile' = v /\ owner' = o
    /\ queue' = IF {owner, o} \cap Configs = {} THEN queue ELSE Queued

\* The workers that compared the profile and are about to update it are overtaken.
Moved ==
    [p \in Procs |-> IF At(p, "update") THEN [worker[p] EXCEPT !.moved = TRUE]
                                        ELSE worker[p]]

\* The provider writes the profile.  The write may be applied and its response
\* lost, or not arrive.
WriteProfile(p) ==
    LET me == worker[p]
    IN  /\ \/ /\ StoredProfile("ours", me.cur)
              /\ worker' = [Moved EXCEPT ![p] = [me EXCEPT !.pc = "status"]]
              /\ UNCHANGED faults
           \/ /\ StoredProfile("ours", me.cur)
              /\ worker' = [Moved EXCEPT ![p] = IdleWorker]
              /\ Fault("api")
           \/ Abort(p) /\ Fault("api") /\ UNCHANGED <<profile, owner>>
        /\ UNCHANGED <<configs, edits>>

----------------------------------------------------------------------------
(* Reconcile *)

\* Nothing to do: the object is gone, to be ignored, or being deleted, when the
\* profile is left to garbage collection.
Skip(p) ==
    /\ At(p, "idle") /\ queue[p]
    /\ \A c \in Named : \/ configs[c].op = "ignore"
                        \/ configs[c].op = "" /\ configs[c].life = "deleting"
    /\ queue' = [queue EXCEPT ![p] = FALSE]
    /\ UNCHANGED <<configs, profile, owner, worker, faults, edits>>

Get(p) ==
    /\ At(p, "idle") /\ queue[p]
    /\ \E c \in Named :
           /\ configs[c].op = "" => configs[c].life = "live"
           /\ configs[c].op # "ignore"
           /\ Step(p, [IdleWorker EXCEPT
                          !.pc = IF configs[c].op = "reconcile" THEN "operation" ELSE "profile",
                          !.cur = c])
    /\ queue' = [queue EXCEPT ![p] = FALSE]
    /\ UNCHANGED <<configs, profile, owner, faults, edits>>

\* Mutant: the pass goes on with an empty object.
RemoveOperationForgets(p) ==
    /\ At(p, "operation")
    /\ \E c \in Named :
           /\ Stored(c, [configs[c] EXCEPT !.op = ""])
           /\ worker' = [OvertakenBy(c) EXCEPT ![p] = [IdleWorker EXCEPT !.pc = "profile"]]
    /\ UNCHANGED <<profile, owner, faults, edits>>

\* The annotation is patched away without a lock, by name; the response is what
\* the pass works on.
RemoveOperation(p) ==
    /\ At(p, "operation")
    /\ \/ \E c \in Named :
              /\ Stored(c, [configs[c] EXCEPT !.op = ""])
              /\ \/ /\ configs[c].life = "live"
                    /\ worker' = [OvertakenBy(c) EXCEPT
                           ![p] = [IdleWorker EXCEPT !.pc = "profile", !.cur = c]]
                    /\ UNCHANGED faults
                 \/ /\ configs[c].life = "deleting"
                    /\ worker' = [OvertakenBy(c) EXCEPT ![p] = IdleWorker]
                    /\ UNCHANGED faults
                 \/ /\ worker' = [OvertakenBy(c) EXCEPT ![p] = IdleWorker]
                    /\ Fault("api")
       \/ /\ Abort(p)
          /\ IF Named = {} THEN UNCHANGED faults ELSE Fault("api")
          /\ UNCHANGED configs
    /\ UNCHANGED <<profile, owner, edits>>

\* Mutant: it is not asked whether somebody else controls the profile.
ReadProfileTakesOver(p) ==
    /\ At(p, "profile")
    /\ Step(p, [worker[p] EXCEPT
                   !.pc = CASE profile = "absent" -> "create"
                            [] Published(worker[p].cur) -> "status"
                            [] OTHER -> "update"])
    /\ UNCHANGED <<configs, profile, owner, queue, faults, edits>>

\* CreateOrUpdate gets the profile and compares; SetControllerReference refuses
\* one that somebody else controls, and takes a predecessor of the same name
\* for the ProviderConfig itself.
ReadProfile(p) ==
    LET me == worker[p]
    IN  /\ At(p, "profile")
        /\ \/ /\ profile = "absent"
              /\ Step(p, [me EXCEPT !.pc = "create"])
              /\ UNCHANGED <<queue, faults>>
           \/ /\ Published(me.cur)
              /\ Step(p, [me EXCEPT !.pc = "status"])
              /\ UNCHANGED <<queue, faults>>
           \/ /\ profile # "absent" /\ owner # Foreign /\ ~Published(me.cur)
              /\ Step(p, [me EXCEPT !.pc = "update"])
              /\ UNCHANGED <<queue, faults>>
           \/ /\ owner = Foreign
              /\ Abort(p)
              /\ UNCHANGED faults
           \/ Abort(p) /\ Fault("api")
        /\ UNCHANGED <<configs, profile, owner, edits>>

CreateProfile(p) ==
    /\ At(p, "create")
    /\ \/ profile = "absent" /\ WriteProfile(p)
       \/ /\ profile # "absent" /\ Abort(p)
          /\ UNCHANGED <<configs, profile, owner, faults, edits>>

UpdateProfile(p) ==
    /\ At(p, "update")
    /\ \/ ~worker[p].moved /\ WriteProfile(p)
       \/ /\ worker[p].moved /\ Abort(p)
          /\ UNCHANGED <<configs, profile, owner, faults, edits>>

\* Mutant: a failure to update the status is only logged.
UpdateStatusLogs(p) ==
    /\ At(p, "status")
    /\ \/ /\ ~worker[p].stale
          /\ Stored(worker[p].cur, [configs[worker[p].cur] EXCEPT !.observed = TRUE])
          /\ worker' = [OvertakenBy(worker[p].cur) EXCEPT ![p] = IdleWorker]
          /\ UNCHANGED faults
       \/ /\ Step(p, IdleWorker)
          /\ worker[p].stale \/ Fault("api")
          /\ (worker[p].stale => UNCHANGED faults)
          /\ UNCHANGED <<configs, queue>>
    /\ UNCHANGED <<profile, owner, edits>>

\* Refused when the ProviderConfig was written, or is gone, since it was read;
\* a status that is already so is no write.
UpdateStatus(p) ==
    LET me == worker[p]
        o == [configs[me.cur] EXCEPT !.observed = TRUE]
        written == /\ Stored(me.cur, o)
                   /\ worker' = [OvertakenBy(me.cur) EXCEPT ![p] = IdleWorker]
    IN  /\ At(p, "status")
        /\ \/ /\ ~me.stale /\ configs[me.cur] = o
              /\ Step(p, IdleWorker)
              /\ UNCHANGED <<configs, queue, faults>>
           \/ ~me.stale /\ configs[me.cur] # o /\ written /\ UNCHANGED faults
           \/ ~me.stale /\ configs[me.cur] # o /\ written /\ Fault("api")
           \/ /\ Abort(p)
              /\ IF me.stale THEN UNCHANGED faults ELSE Fault("api")
              /\ UNCHANGED configs
        /\ UNCHANGED <<profile, owner, edits>>

----------------------------------------------------------------------------
(* Everybody else. *)

Write(c, o) ==
    /\ Stored(c, o)
    /\ worker' = OvertakenBy(c)
    /\ UNCHANGED <<profile, owner, faults>>

\* Creating one again under the name counts as an edit.
CreateConfig(c) ==
    LET earlier == {d \in Configs : d < c}
    IN  /\ configs[c].life = "none"
        /\ \A d \in earlier : configs[d].life = "gone"
        /\ IF earlier = {} THEN UNCHANGED edits
           ELSE edits < MaxEdits /\ edits' = edits + 1
        /\ Write(c, [UnsetConfig EXCEPT !.life = "live"])

\* Deleted at once, or held by somebody's finalizer (foreground deletion).
DeleteConfig(c) ==
    /\ \/ configs[c].life = "live" /\ Write(c, [configs[c] EXCEPT !.life = "deleting"])
       \/ c \in Named /\ Write(c, [UnsetConfig EXCEPT !.life = "gone"])
    /\ UNCHANGED edits

\* A new generation of the spec.
EditConfig(c) ==
    /\ edits < MaxEdits /\ edits' = edits + 1
    /\ c \in Named /\ configs[c].observed
    /\ Write(c, [configs[c] EXCEPT !.observed = FALSE])

SetOperation(c, v) ==
    /\ edits < MaxEdits /\ edits' = edits + 1
    /\ c \in Named /\ configs[c].op # v
    /\ Write(c, [configs[c] EXCEPT !.op = v])

\* Somebody points the profile elsewhere, takes it over, disowns, creates or
\* deletes it.
EditProfile(v, o) ==
    /\ edits < MaxEdits /\ edits' = edits + 1
    /\ o \in {owner, NoOwner, Foreign} /\ (v = "absent" => o = NoOwner)
    /\ v # profile \/ o # owner
    /\ StoredProfile(v, o)
    /\ worker' = Moved
    /\ UNCHANGED <<configs, faults>>

\* Garbage collection of a profile whose ProviderConfig is gone, or deleted in
\* the foreground.
CollectProfile ==
    /\ owner \in Configs /\ configs[owner].life \in {"deleting", "gone"}
    /\ StoredProfile("absent", NoOwner)
    /\ worker' = Moved
    /\ UNCHANGED <<configs, faults, edits>>

\* A restarted process lists the ProviderConfigs and queues them.
Crash(p) ==
    /\ Fault("crash")
    /\ Step(p, IdleWorker)
    /\ queue' = [queue EXCEPT ![p] = Named # {}]
    /\ UNCHANGED <<configs, profile, owner, edits>>

----------------------------------------------------------------------------

Pass(p) ==
    \/ RemoveOperation(p) \/ ReadProfile(p) \/ CreateProfile(p)
    \/ UpdateProfile(p) \/ UpdateStatus(p)

Dequeue(p) == Skip(p) \/ Get(p)

UserStep(c) ==
    \/ CreateConfig(c) \/ DeleteConfig(c) \/ EditConfig(c)
    \/ \E v \in Operations : SetOperation(c, v)

ProfileStep ==
    \/ CollectProfile
    \/ \E v \in {"absent", "ours", "other"}, o \in Configs \cup {NoOwner, Foreign} :
           EditProfile(v, o)

Next ==
    \/ \E p \in Procs : Pass(p) \/ Dequeue(p) \/ Crash(p)
    \/ \E c \in Configs : UserStep(c)
    \/ ProfileStep

Spec == Init /\ [][Next]_vars

----------------------------------------------------------------------------
(* Properties *)

\* Every variable keeps its type, the ProviderConfigs have the name one after
\* the other, and a worker in a pass knows which one it works for.
TypeOK ==
    /\ configs \in [Configs -> Config]
    /\ \A c, d \in Configs :
           d < c /\ configs[c].life # "none" => configs[d].life = "gone"
    /\ profile \in {"absent", "ours", "other"}
    /\ owner \in Configs \cup {NoOwner, Foreign}
    /\ profile = "absent" => owner = NoOwner
    /\ queue \in [Procs -> BOOLEAN]
    /\ worker \in [Procs -> Worker]
    /\ \A p \in Procs : At(p, "idle") \/ worker[p].cur \in Configs
    /\ faults \in Nat /\ edits \in Nat

\* What a live ProviderConfig that is not to be ignored asks for: the profile
\* names the provider and is owned by this very object, so that garbage
\* collection takes it at the right time, and the status says so.
Settled ==
    \A c \in Named : configs[c].life = "live" /\ configs[c].op # "ignore" =>
        Published(c) /\ configs[c].observed

\* No process believes it has nothing to do while a ProviderConfig is not
\* settled: a pass that lost a race (the profile edited or collected after it
\* was compared, the ProviderConfig edited or replaced by one of the same name
\* before the status update) is always run again.
RestingMeansSettled == \A p \in Procs : At(p, "idle") /\ ~queue[p] => Settled

\* The provider never takes a profile away from another controller, also when
\* that one took it between the comparison and the update (CreateOrUpdate).
NeverTakenOver == [][owner = Foreign => owner' \notin Configs]_vars

----------------------------------------------------------------------------
(* Why RestingMeansSettled and NeverTakenOver hold. *)

\* What a pass may rely on: an overtaken one is queued again; otherwise its
\* object is as it was read, and so is the profile.
PassKnows(p) ==
    LET me == worker[p]
    IN  /\ me.pc = "idle" => me = IdleWorker
        /\ me.stale => queue[p]
        /\ me.moved => me.pc = "update"
        /\ me.pc \in {"profile", "create", "update", "status"} /\ ~me.stale =>
               configs[me.cur].life = "live"
        /\ me.pc = "update" /\ ~me.moved => owner # Foreign /\ profile # "absent"
        /\ me.pc = "status" => queue[p] \/ Published(me.cur)

Progress ==
    /\ TypeOK
    /\ \A p \in Procs : PassKnows(p)
    /\ RestingMeansSettled
=============================================================================
