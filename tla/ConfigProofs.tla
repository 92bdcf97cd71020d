----------------------------- MODULE ConfigProofs -----------------------------
(***************************************************************************)
(* Proofs about ProviderConfigController, for any number of processes, of  *)
(* ProviderConfigs that succeed one another, of faults and of edits: the   *)
(* types, and that Progress, which says what a pass may rely on, is an     *)
(* inductive invariant.                                                    *)
(***************************************************************************)
EXTENDS ProviderConfigController, TLAPS

----------------------------------------------------------------------------
(* Types *)

\* A worker of the right type, for a ProviderConfig unless it is idle.
GoodWorker(w) == w \in Worker /\ (w.pc = "idle" \/ w.cur \in Configs)

\* An idle worker is well typed: every pass may end (IdleWorker).
LEMMA IdleIsGood == GoodWorker(IdleWorker)
BY DEF GoodWorker, IdleWorker, Worker, Labels

\* Giving one process a well-typed worker keeps the workers well typed, whether
\* or not the others are overtaken (Overtaken, Moved).
LEMMA WorkersStayGood ==
    ASSUME NEW p \in Procs, NEW w, GoodWorker(w), NEW f, TypeOK,
           \/ f = worker
           \/ \E c \in Configs : f = OvertakenBy(c)
           \/ f = Moved
    PROVE  LET g == [f EXCEPT ![p] = w]
           IN  /\ f \in [Procs -> Worker] /\ \A q \in Procs : GoodWorker(f[q])
               /\ g \in [Procs -> Worker] /\ \A q \in Procs : GoodWorker(g[q])
<1>1. f \in [Procs -> Worker] /\ \A q \in Procs : GoodWorker(f[q])
  <2>1. CASE f = worker
    BY <2>1 DEF TypeOK, At, GoodWorker
  <2>2. CASE f = Moved
    <3>1. \A q \in Procs : [worker[q] EXCEPT !.moved = TRUE] \in Worker
                            /\ GoodWorker([worker[q] EXCEPT !.moved = TRUE])
      BY DEF TypeOK, At, Worker, GoodWorker
    <3>2. \A q \in Procs : worker[q] \in Worker /\ GoodWorker(worker[q])
      BY DEF TypeOK, At, GoodWorker
    <3> QED BY <2>2, <3>1, <3>2, Zenon DEF Moved
  <2>3. ASSUME NEW c \in Configs, f = OvertakenBy(c)
        PROVE  f \in [Procs -> Worker] /\ \A q \in Procs : GoodWorker(f[q])
    <3>1. \A q \in Procs : [worker[q] EXCEPT !.stale = TRUE] \in Worker
                            /\ GoodWorker([worker[q] EXCEPT !.stale = TRUE])
      BY DEF TypeOK, At, Worker, GoodWorker
    <3>2. \A q \in Procs : worker[q] \in Worker /\ GoodWorker(worker[q])
      BY DEF TypeOK, At, GoodWorker
    <3> QED BY <2>3, <3>1, <3>2, Zenon DEF OvertakenBy
  <2> QED BY <2>1, <2>2, <2>3
<1>2. \A q \in Procs : [f EXCEPT ![p] = w][q] \in Worker
                       /\ GoodWorker([f EXCEPT ![p] = w][q])
  BY <1>1 DEF GoodWorker
<1> QED BY <1>1, <1>2

\* What of TypeOK the writes of the ProviderConfigs, of the profile and of the
\* workers have to keep.
ConfigsOK ==
    /\ configs \in [Configs -> Config]
    /\ \A c, d \in Configs :
           d < c /\ configs[c].life # "none" => configs[d].life = "gone"

ProfileOK ==
    /\ profile \in {"absent", "ours", "other"}
    /\ owner \in Configs \cup {NoOwner, Foreign}
    /\ profile = "absent" => owner = NoOwner

QueueOK == queue \in [Procs -> BOOLEAN]

WorkersOK == worker \in [Procs -> Worker] /\ \A p \in Procs : GoodWorker(worker[p])

CountersOK == faults \in Nat /\ edits \in Nat

\* TypeOK in parts, each kept by other steps (TypeOK).
LEMMA TypeParts ==
    /\ TypeOK <=> ConfigsOK /\ ProfileOK /\ QueueOK /\ WorkersOK /\ CountersOK
    /\ TypeOK' <=> ConfigsOK' /\ ProfileOK' /\ QueueOK' /\ WorkersOK' /\ CountersOK'
BY DEF TypeOK, ConfigsOK, ProfileOK, QueueOK, WorkersOK, CountersOK, GoodWorker, At

\* A write of a ProviderConfig that keeps the order of its predecessors and
\* successors (Stored).
LEMMA StoredTyped ==
    ASSUME TypeOK, NEW c \in Configs, NEW o \in Config, Stored(c, o),
           o.life # "none", configs[c].life = "gone" => o.life = "gone",
           configs[c].life = "none" => \A d \in Configs : d < c => configs[d].life = "gone"
    PROVE  ConfigsOK' /\ QueueOK'
<1>1. /\ configs' \in [Configs -> Config]
      /\ configs'[c] = o /\ \A d \in Configs \ {c} : configs'[d] = configs[d]
  BY DEF Stored, TypeOK
<1>2. \A d, e \in Configs : e < d /\ configs'[d].life # "none" => configs'[e].life = "gone"
  <2> SUFFICES ASSUME NEW d \in Configs, NEW e \in Configs, e < d, configs'[d].life # "none"
               PROVE  configs'[e].life = "gone"
    OBVIOUS
  <2>1. CASE d = c
    BY <2>1, <1>1 DEF TypeOK
  <2>2. CASE d # c /\ e = c
    BY <2>2, <1>1 DEF TypeOK
  <2>3. CASE d # c /\ e # c
    BY <2>3, <1>1 DEF TypeOK
  <2> QED BY <2>1, <2>2, <2>3
<1> QED BY <1>1, <1>2 DEF ConfigsOK, QueueOK, Stored, Queued

\* A write of the profile (StoredProfile).
LEMMA StoredProfileTyped ==
    ASSUME TypeOK, NEW v \in {"absent", "ours", "other"},
           NEW o \in Configs \cup {NoOwner, Foreign}, v = "absent" => o = NoOwner,
           StoredProfile(v, o)
    PROVE  ProfileOK' /\ QueueOK'
BY DEF TypeOK, StoredProfile, ProfileOK, QueueOK, Queued

\* An error ends the pass and queues the request again (Abort).
LEMMA AbortTyped ==
    ASSUME TypeOK, NEW p \in Procs, Abort(p)
    PROVE  WorkersOK' /\ QueueOK'
BY IdleIsGood, WorkersStayGood, IdleWorker \in Worker, Zenon
   DEF TypeOK, Abort, Step, WorkersOK, QueueOK
\* A worker that goes on, or is overtaken, keeps its type (Step, OvertakenBy,
\* Moved).
LEMMA WorkerStepTyped ==
    ASSUME TypeOK, NEW p \in Procs, NEW w, GoodWorker(w), NEW f,
           \/ f = worker
           \/ \E c \in Configs : f = OvertakenBy(c)
           \/ f = Moved,
           worker' = [f EXCEPT ![p] = w]
    PROVE  WorkersOK'
BY WorkersStayGood, Zenon DEF WorkersOK

\* A worker of the right kind for each step of a pass (Worker).
LEMMA PassWorkers ==
    ASSUME TypeOK, NEW p \in Procs, ~At(p, "idle"), NEW l \in Labels
    PROVE  /\ worker[p].cur \in Configs
           /\ GoodWorker([worker[p] EXCEPT !.pc = l])
BY DEF TypeOK, At, GoodWorker, Worker

\* A worker that starts on a ProviderConfig (Get, RemoveOperation).
LEMMA FreshWorker ==
    ASSUME NEW c \in Configs, NEW l \in Labels
    PROVE  GoodWorker([IdleWorker EXCEPT !.pc = l, !.cur = c])
BY DEF GoodWorker, IdleWorker, Worker

\* The provider's write of the profile (WriteProfile).
LEMMA WriteProfileTyped ==
    ASSUME TypeOK, NEW p \in Procs, ~At(p, "idle"), WriteProfile(p)
    PROVE  TypeOK'
<1> DEFINE next == [worker[p] EXCEPT !.pc = "status"]
<1>1. worker[p].cur \in Configs /\ GoodWorker(next) /\ "status" \in Labels
  BY PassWorkers DEF Labels
<1> HIDE DEF next
<1>2. ConfigsOK' /\ CountersOK'
  BY DEF WriteProfile, TypeOK, ConfigsOK, CountersOK, Fault
<1>3. ProfileOK' /\ QueueOK' /\ WorkersOK'
  <2>1. CASE StoredProfile("ours", worker[p].cur) /\ worker' = [Moved EXCEPT ![p] = next]
    BY <1>1, <2>1, StoredProfileTyped, WorkerStepTyped, Zenon
  <2>2. CASE StoredProfile("ours", worker[p].cur) /\ worker' = [Moved EXCEPT ![p] = IdleWorker]
    BY <1>1, <2>2, StoredProfileTyped, WorkerStepTyped, IdleIsGood, Zenon
  <2>3. CASE Abort(p) /\ UNCHANGED <<profile, owner>>
    BY <2>3, AbortTyped DEF TypeOK, ProfileOK
  <2> QED BY <2>1, <2>2, <2>3 DEF WriteProfile, next
<1> QED BY <1>2, <1>3, TypeParts

\* The steps that only read the ProviderConfig or the profile (Skip, Get,
\* ReadProfile).
LEMMA ReadingTyped ==
    ASSUME TypeOK, NEW p \in Procs, Skip(p) \/ Get(p) \/ ReadProfile(p)
    PROVE  TypeOK'
<1>1. ConfigsOK' /\ ProfileOK' /\ CountersOK'
  <2>1. UNCHANGED <<configs, profile, owner, edits>>
    BY Zenon DEF Skip, Get, ReadProfile
  <2>2. faults' = faults \/ faults' = faults + 1
    BY Zenon DEF Skip, Get, ReadProfile, Fault
  <2> QED BY <2>1, <2>2 DEF TypeOK, ConfigsOK, ProfileOK, CountersOK
<1>2. QueueOK'
  BY DEF Skip, Get, ReadProfile, Abort, TypeOK, QueueOK
<1>3. WorkersOK'
  <2>1. CASE Skip(p)
    BY <2>1, TypeParts DEF Skip, WorkersOK
  <2>2. CASE Get(p)
    <3>1. PICK c \in Configs, l \in Labels :
              Step(p, [IdleWorker EXCEPT !.pc = l, !.cur = c])
      <4>1. PICK c \in Named :
              Step(p, [IdleWorker EXCEPT
                          !.pc = IF configs[c].op = "reconcile" THEN "operation" ELSE "profile",
                          !.cur = c])
        BY <2>2 DEF Get
      <4>2. c \in Configs /\ (IF configs[c].op = "reconcile" THEN "operation"
                                                             ELSE "profile") \in Labels
        BY DEF Named, Labels
      <4> QED BY <4>1, <4>2, Zenon
    <3> QED BY <3>1, FreshWorker, WorkerStepTyped, Zenon DEF Step
  <2>3. CASE ReadProfile(p)
    <3>1. ~At(p, "idle")
      BY <2>3 DEF ReadProfile, At
    <3>2. \/ Abort(p)
          \/ \E l \in Labels : Step(p, [worker[p] EXCEPT !.pc = l])
      BY <2>3, Zenon DEF ReadProfile, Labels
    <3> QED BY <3>1, <3>2, PassWorkers, AbortTyped, WorkerStepTyped, Zenon DEF Step
  <2> QED BY <2>1, <2>2, <2>3
<1> QED BY <1>1, <1>2, <1>3, TypeParts

\* The annotation is patched away (RemoveOperation).
LEMMA RemoveOperationTyped ==
    ASSUME TypeOK, NEW p \in Procs, RemoveOperation(p)
    PROVE  TypeOK'
<1>1. ProfileOK' /\ CountersOK'
  <2>1. UNCHANGED <<profile, owner, edits>>
    BY Zenon DEF RemoveOperation
  <2>2. faults' = faults \/ faults' = faults + 1
    BY Zenon DEF RemoveOperation, Fault
  <2> QED BY <2>1, <2>2 DEF TypeOK, ProfileOK, CountersOK
<1>2. CASE Abort(p) /\ UNCHANGED configs
  BY <1>1, <1>2, AbortTyped, TypeParts DEF TypeOK, ConfigsOK
<1>3. ASSUME NEW c \in Named, Stored(c, [configs[c] EXCEPT !.op = ""]),
             NEW w, GoodWorker(w), worker' = [OvertakenBy(c) EXCEPT ![p] = w]
      PROVE  TypeOK'
  <2>1. /\ c \in Configs /\ [configs[c] EXCEPT !.op = ""] \in Config
        /\ [configs[c] EXCEPT !.op = ""].life = configs[c].life
        /\ configs[c].life \in {"live", "deleting"}
    BY DEF Named, TypeOK, Config, Operations
  <2>2. ConfigsOK' /\ QueueOK'
    BY <1>3, <2>1, StoredTyped
  <2>3. WorkersOK'
    BY <1>3, <2>1, WorkerStepTyped, Zenon
  <2> QED BY <1>1, <2>2, <2>3, TypeParts
<1>4. ASSUME NEW c \in Named
      PROVE  GoodWorker([IdleWorker EXCEPT !.pc = "profile", !.cur = c])
  BY FreshWorker DEF Named, Labels
<1> QED BY <1>2, <1>3, <1>4, IdleIsGood, Zenon DEF RemoveOperation

\* The status is updated (UpdateStatus).
LEMMA UpdateStatusTyped ==
    ASSUME TypeOK, NEW p \in Procs, UpdateStatus(p), PassKnows(p)
    PROVE  TypeOK'
<1> DEFINE c == worker[p].cur
           o == [configs[c] EXCEPT !.observed = TRUE]
<1>1. c \in Configs /\ o \in Config /\ o.life = configs[c].life
  <2>1. c \in Configs
    BY DEF UpdateStatus, TypeOK, At
  <2> HIDE DEF c
  <2> QED BY <2>1 DEF TypeOK, Config
<1>2. ~worker[p].stale => configs[c].life = "live"
  BY DEF PassKnows, UpdateStatus, At
<1> HIDE DEF c, o
<1>3. ProfileOK' /\ CountersOK'
  BY DEF UpdateStatus, TypeOK, ProfileOK, CountersOK, Fault
<1>4. CASE Abort(p) /\ UNCHANGED configs
  BY <1>3, <1>4, AbortTyped, TypeParts DEF TypeOK, ConfigsOK
<1>5. CASE Step(p, IdleWorker) /\ UNCHANGED <<configs, queue>>
  <2>1. WorkersOK'
    BY <1>5, IdleIsGood, WorkerStepTyped, Zenon DEF Step
  <2> QED BY <2>1, <1>3, <1>5, TypeParts DEF TypeOK, ConfigsOK, QueueOK
<1>6. CASE /\ ~worker[p].stale /\ Stored(c, o)
           /\ worker' = [OvertakenBy(c) EXCEPT ![p] = IdleWorker]
  <2>1. ConfigsOK' /\ QueueOK'
    BY <1>1, <1>2, <1>6, StoredTyped
  <2>2. WorkersOK'
    BY <1>1, <1>6, IdleIsGood, WorkerStepTyped, Zenon
  <2> QED BY <1>3, <2>1, <2>2, TypeParts
<1> QED BY <1>4, <1>5, <1>6 DEF UpdateStatus, c, o
\* What users, other controllers and restarts do (UserStep, ProfileStep, Crash).
LEMMA OutsideTyped ==
    ASSUME TypeOK
    PROVE  /\ \A c \in Configs : UserStep(c) => TypeOK'
           /\ ProfileStep => TypeOK'
           /\ \A p \in Procs : Crash(p) => TypeOK'
<1>1. ASSUME NEW c \in Configs, NEW o \in Config, Write(c, o),
             edits' \in Nat, o.life # "none",
             configs[c].life = "gone" => o.life = "gone",
             configs[c].life = "none" => \A d \in Configs : d < c => configs[d].life = "gone"
      PROVE  TypeOK'
  <2>1. ConfigsOK' /\ QueueOK'
    BY <1>1, StoredTyped DEF Write
  <2>2. OvertakenBy(c) \in [Procs -> Worker]
        /\ \A q \in Procs : GoodWorker(OvertakenBy(c)[q])
    <3>1. \A q \in Procs : [worker[q] EXCEPT !.stale = TRUE] \in Worker
                            /\ GoodWorker([worker[q] EXCEPT !.stale = TRUE])
      BY DEF TypeOK, At, Worker, GoodWorker
    <3>2. \A q \in Procs : worker[q] \in Worker /\ GoodWorker(worker[q])
      BY DEF TypeOK, At, GoodWorker
    <3> QED BY <3>1, <3>2, Zenon DEF OvertakenBy
  <2>3. WorkersOK' /\ ProfileOK' /\ CountersOK'
    BY <1>1, <2>2 DEF Write, TypeOK, WorkersOK, ProfileOK, CountersOK
  <2> QED BY <2>1, <2>3, TypeParts
<1>2. ASSUME NEW c \in Configs, UserStep(c)
      PROVE  TypeOK'
  <2>1. CASE CreateConfig(c)
    <3>1. [UnsetConfig EXCEPT !.life = "live"] \in Config
          /\ [UnsetConfig EXCEPT !.life = "live"].life = "live"
      BY DEF UnsetConfig, Config, Operations
    <3>2. \A d \in Configs : d < c => configs[d].life = "gone"
      BY <2>1 DEF CreateConfig
    <3>3. edits' \in Nat /\ configs[c].life = "none"
          /\ Write(c, [UnsetConfig EXCEPT !.life = "live"])
      BY <2>1 DEF CreateConfig, TypeOK
    <3> QED BY <1>1, <3>1, <3>2, <3>3
  <2>2. CASE DeleteConfig(c)
    <3>1. /\ [UnsetConfig EXCEPT !.life = "gone"] \in Config
          /\ [UnsetConfig EXCEPT !.life = "gone"].life = "gone"
          /\ [configs[c] EXCEPT !.life = "deleting"] \in Config
          /\ [configs[c] EXCEPT !.life = "deleting"].life = "deleting"
      BY DEF UnsetConfig, Operations, Config, TypeOK
    <3>2. edits' \in Nat
      BY <2>2 DEF DeleteConfig, TypeOK
    <3> QED BY <1>1, <2>2, <3>1, <3>2 DEF DeleteConfig, Named
  <2>3. CASE EditConfig(c)
    <3>1. [configs[c] EXCEPT !.observed = FALSE] \in Config
          /\ [configs[c] EXCEPT !.observed = FALSE].life = configs[c].life
      BY DEF Config, TypeOK
    <3>2. edits' \in Nat /\ configs[c].life \in {"live", "deleting"}
          /\ Write(c, [configs[c] EXCEPT !.observed = FALSE])
      BY <2>3 DEF EditConfig, TypeOK, Named
    <3> QED BY <1>1, <3>1, <3>2
  <2>4. ASSUME NEW v \in Operations, SetOperation(c, v)
        PROVE  TypeOK'
    <3>1. [configs[c] EXCEPT !.op = v] \in Config
          /\ [configs[c] EXCEPT !.op = v].life = configs[c].life
      BY DEF Config, TypeOK
    <3>2. edits' \in Nat /\ configs[c].life \in {"live", "deleting"}
          /\ Write(c, [configs[c] EXCEPT !.op = v])
      <4>1. c \in Named /\ Write(c, [configs[c] EXCEPT !.op = v])
        BY <2>4, Zenon DEF SetOperation
      <4>2. edits' = edits + 1
        BY <2>4, Zenon DEF SetOperation
      <4>3. edits \in Nat
        BY DEF TypeOK
      <4>4. edits' \in Nat
        BY <4>2, <4>3
      <4>5. configs[c].life \in {"live", "deleting"}
        BY <4>1 DEF Named
      <4> QED BY <4>1, <4>4, <4>5, Zenon
    <3> QED BY <1>1, <3>1, <3>2
  <2> QED BY <1>2, <2>1, <2>2, <2>3, <2>4 DEF UserStep
<1>3. ASSUME ProfileStep
      PROVE  TypeOK'
  <2>1. ProfileOK' /\ QueueOK'
    BY <1>3, StoredProfileTyped DEF ProfileStep, CollectProfile, EditProfile, TypeOK
  <2>2. /\ worker' = Moved /\ UNCHANGED <<configs, faults>>
        /\ edits' = edits \/ edits' = edits + 1
    BY <1>3, Zenon DEF ProfileStep, CollectProfile, EditProfile
  <2>3. Moved \in [Procs -> Worker] /\ \A q \in Procs : GoodWorker(Moved[q])
    <3>1. \A q \in Procs : [worker[q] EXCEPT !.moved = TRUE] \in Worker
                            /\ GoodWorker([worker[q] EXCEPT !.moved = TRUE])
      BY DEF TypeOK, At, Worker, GoodWorker
    <3>2. \A q \in Procs : worker[q] \in Worker /\ GoodWorker(worker[q])
      BY DEF TypeOK, At, GoodWorker
    <3> QED BY <3>1, <3>2, Zenon DEF Moved
  <2>4. ConfigsOK' /\ WorkersOK' /\ CountersOK'
    BY <2>2, <2>3 DEF TypeOK, ConfigsOK, WorkersOK, CountersOK
  <2> QED BY <2>1, <2>4, TypeParts
<1>4. ASSUME NEW p \in Procs, Crash(p)
      PROVE  TypeOK'
  <2>1. ConfigsOK' /\ ProfileOK' /\ CountersOK' /\ QueueOK'
    BY <1>4 DEF Crash, Fault, TypeOK, ConfigsOK, ProfileOK, CountersOK, QueueOK
  <2>2. WorkersOK'
    BY <1>4, IdleIsGood, WorkerStepTyped, Zenon DEF Crash, Step
  <2> QED BY <2>1, <2>2, TypeParts
<1> QED BY <1>2, <1>3, <1>4
----------------------------------------------------------------------------
(* What the passes know *)

\* A step that writes nothing q has read (PassKnows).
LEMMA KnowsWhenUntouched ==
    ASSUME NEW q \in Procs, PassKnows(q), worker'[q] = worker[q],
           queue[q] => queue'[q], UNCHANGED <<configs, profile, owner>>
    PROVE  PassKnows(q)'
BY DEF PassKnows, Published

\* A write of a ProviderConfig: who works for it is overtaken and queued.
LEMMA KnowsWhenStored ==
    ASSUME ConfigAssumption, TypeOK, NEW q \in Procs, PassKnows(q),
           NEW c \in Configs, NEW o, Stored(c, o),
           worker'[q] = OvertakenBy(c)[q], UNCHANGED <<profile, owner>>
    PROVE  PassKnows(q)'
<1>1. queue'[q] = TRUE /\ \A d \in Configs \ {c} : configs'[d] = configs[d]
  BY DEF Stored, Queued, TypeOK
<1>2. /\ worker'[q].pc = worker[q].pc /\ worker'[q].cur = worker[q].cur
      /\ worker'[q].moved = worker[q].moved
      /\ worker'[q].stale = (worker[q].stale \/ worker[q].cur = c)
  BY DEF OvertakenBy, TypeOK, Worker
<1>3. worker[q].pc \in {"profile", "create", "update", "status"} => worker[q].cur \in Configs
  BY DEF TypeOK, At
<1>4. worker[q].pc = "idle" => worker'[q] = IdleWorker
  BY DEF PassKnows, IdleWorker, OvertakenBy, NoOwner, ConfigAssumption
<1> QED BY <1>1, <1>2, <1>3, <1>4 DEF PassKnows, Published

\* A write of the profile: whoever compared it before is overtaken, and queued
\* when it had found it published.
LEMMA KnowsWhenProfileStored ==
    ASSUME TypeOK, NEW q \in Procs, PassKnows(q), NEW v, NEW o, StoredProfile(v, o),
           worker'[q] = Moved[q], UNCHANGED configs
    PROVE  PassKnows(q)'
<1>1. queue[q] => queue'[q]
  BY DEF StoredProfile, Queued, TypeOK
<1>2. owner \in Configs => queue'[q]
  BY DEF StoredProfile, Queued, TypeOK
<1>3. /\ worker'[q].pc = worker[q].pc /\ worker'[q].cur = worker[q].cur
      /\ worker'[q].moved = (worker[q].moved \/ worker[q].pc = "update")
      /\ worker'[q].stale = worker[q].stale
      /\ worker[q].pc # "update" => worker'[q] = worker[q]
  BY DEF Moved, At, TypeOK, Worker
<1>4. worker[q].pc = "status" => worker[q].cur \in Configs
  BY DEF TypeOK, At
<1> QED BY <1>1, <1>2, <1>3, <1>4 DEF PassKnows, Published

\* A pass that is over relies on nothing.
LEMMA IdleKnows ==
    ASSUME NEW q \in Procs, worker'[q] = IdleWorker
    PROVE  PassKnows(q)'
BY DEF PassKnows, IdleWorker

\* What a step of p leaves to another process (Step, OvertakenBy, Moved).
LEMMA WorkersOfStep ==
    ASSUME TypeOK, NEW p \in Procs, NEW w
    PROVE  /\ worker' = [worker EXCEPT ![p] = w] =>
                  worker'[p] = w /\ \A q \in Procs \ {p} : worker'[q] = worker[q]
           /\ worker' = [Moved EXCEPT ![p] = w] =>
                  worker'[p] = w /\ \A q \in Procs \ {p} : worker'[q] = Moved[q]
           /\ \A c \in Configs : worker' = [OvertakenBy(c) EXCEPT ![p] = w] =>
                  worker'[p] = w /\ \A q \in Procs \ {p} : worker'[q] = OvertakenBy(c)[q]
BY Zenon DEF TypeOK, OvertakenBy, Moved

\* An error leaves the other processes alone (Abort).
LEMMA KnowsAfterAbort ==
    ASSUME TypeOK, NEW p \in Procs, \A q \in Procs : PassKnows(q), Abort(p),
           UNCHANGED <<configs, profile, owner>>
    PROVE  \A q \in Procs : PassKnows(q)'
<1>1. worker'[p] = IdleWorker /\ \A q \in Procs \ {p} : worker'[q] = worker[q]
  BY WorkersOfStep, Zenon DEF Abort, Step
<1>2. \A q \in Procs : queue[q] => queue'[q]
  BY DEF Abort, TypeOK
<1> QED BY <1>1, <1>2, IdleKnows, KnowsWhenUntouched

\* A write of the ProviderConfig by p itself, which then goes on as w.
LEMMA KnowsAfterOwnWrite ==
    ASSUME ConfigAssumption, TypeOK, NEW p \in Procs, \A q \in Procs : PassKnows(q),
           NEW c \in Configs,
           NEW o, Stored(c, o), NEW w, worker' = [OvertakenBy(c) EXCEPT ![p] = w],
           UNCHANGED <<profile, owner>>,
           \/ w = IdleWorker
           \/ w.pc = "profile" /\ w.cur = c /\ w.stale = FALSE /\ w.moved = FALSE
              /\ o.life = "live"
    PROVE  \A q \in Procs : PassKnows(q)'
<1>1. worker'[p] = w /\ \A q \in Procs \ {p} : worker'[q] = OvertakenBy(c)[q]
  BY Zenon DEF TypeOK, OvertakenBy
<1>2. PassKnows(p)'
  <2>1. CASE w = IdleWorker
    BY <1>1, <2>1, IdleKnows
  <2>2. CASE w.pc = "profile" /\ w.cur = c /\ w.stale = FALSE /\ w.moved = FALSE
              /\ o.life = "live"
    <3>1. configs'[c] = o
      BY DEF Stored, TypeOK
    <3> QED BY <1>1, <2>2, <3>1 DEF PassKnows
  <2> QED BY <2>1, <2>2
<1> QED BY <1>1, <1>2, KnowsWhenStored

\* The provider's write of the profile (WriteProfile).
LEMMA KnowsAfterWriteProfile ==
    ASSUME TypeOK, NEW p \in Procs, \A q \in Procs : PassKnows(q),
           At(p, "create") \/ (At(p, "update") /\ ~worker[p].moved), WriteProfile(p)
    PROVE  \A q \in Procs : PassKnows(q)'
<1> DEFINE next == [worker[p] EXCEPT !.pc = "status"]
<1>1. /\ next.pc = "status" /\ next.cur = worker[p].cur /\ next.stale = worker[p].stale
      /\ next.moved = FALSE
  BY DEF TypeOK, Worker, PassKnows, At
<1>2. worker[p].cur \in Configs
  BY DEF TypeOK, At
<1> HIDE DEF next
<1>3. CASE Abort(p) /\ UNCHANGED <<profile, owner>>
  BY <1>3, KnowsAfterAbort DEF WriteProfile
<1>4. ASSUME StoredProfile("ours", worker[p].cur), NEW w,
             w = next \/ w = IdleWorker, worker' = [Moved EXCEPT ![p] = w]
      PROVE  \A q \in Procs : PassKnows(q)'
  <2>1. worker'[p] = w /\ \A q \in Procs \ {p} : worker'[q] = Moved[q]
    BY <1>4, WorkersOfStep, Zenon
  <2>2. UNCHANGED configs
    BY DEF WriteProfile
  <2>3. PassKnows(p)'
    <3>1. CASE w = IdleWorker
      BY <2>1, <3>1, IdleKnows
    <3>2. CASE w = next
      <4>1. queue'[p] = TRUE /\ profile' = "ours" /\ owner' = worker[p].cur
        BY <1>2, <1>4 DEF StoredProfile, Queued, TypeOK
      <4>2. ~worker[p].stale => configs[worker[p].cur].life = "live"
        BY DEF PassKnows, At
      <4> QED BY <1>1, <2>1, <2>2, <3>2, <4>1, <4>2 DEF PassKnows, Published
    <3> QED BY <1>4, <3>1, <3>2
  <2> QED BY <1>4, <2>1, <2>2, <2>3, KnowsWhenProfileStored
<1> QED BY <1>3, <1>4, Zenon DEF WriteProfile, next
\* Reading and reading on (Skip, Get, ReadProfile).
LEMMA KnowsAfterReading ==
    ASSUME TypeOK, \A q \in Procs : PassKnows(q), NEW p \in Procs,
           Skip(p) \/ Get(p) \/ ReadProfile(p)
    PROVE  \A q \in Procs : PassKnows(q)'
<1>1. CASE Skip(p)
  <2>1. UNCHANGED <<configs, profile, owner, worker>>
    BY <1>1 DEF Skip
  <2>2. \A q \in Procs \ {p} : queue'[q] = queue[q]
    BY <1>1 DEF Skip, TypeOK
  <2>3. worker[p] = IdleWorker
    BY <1>1 DEF Skip, PassKnows, At
  <2> QED BY <2>1, <2>2, <2>3, KnowsWhenUntouched, IdleKnows
<1>2. CASE Get(p)
  <2>1. UNCHANGED <<configs, profile, owner>>
        /\ \A q \in Procs \ {p} : queue'[q] = queue[q]
    BY <1>2 DEF Get, TypeOK
  <2>2. PICK c \in Named :
            /\ configs[c].op = "" => configs[c].life = "live"
            /\ configs[c].op # "ignore"
            /\ Step(p, [IdleWorker EXCEPT
                          !.pc = IF configs[c].op = "reconcile" THEN "operation" ELSE "profile",
                          !.cur = c])
    BY <1>2 DEF Get
  <2> DEFINE w == [IdleWorker EXCEPT
                          !.pc = IF configs[c].op = "reconcile" THEN "operation" ELSE "profile",
                          !.cur = c]
  <2>3. /\ w.pc = (IF configs[c].op = "reconcile" THEN "operation" ELSE "profile")
        /\ w.cur = c /\ w.stale = FALSE /\ w.moved = FALSE
    BY DEF IdleWorker
  <2>4. Step(p, w)
    BY <2>2, Zenon
  <2> HIDE DEF w
  <2>5. worker'[p] = w /\ \A q \in Procs \ {p} : worker'[q] = worker[q]
    BY <2>4, WorkersOfStep, Zenon DEF Step
  <2>6. w.pc = "profile" => configs[c].life = "live"
    <3>1. /\ configs[c].op = "" => configs[c].life = "live"
          /\ configs[c].op # "ignore"
      BY <2>2, Zenon
    <3>2. configs[c].op \in Operations
      BY DEF Named, TypeOK, Config
    <3> QED BY <2>3, <3>1, <3>2 DEF Operations
  <2>7. PassKnows(p)'
    BY <2>1, <2>3, <2>5, <2>6 DEF PassKnows
  <2> QED BY <2>1, <2>5, <2>7, KnowsWhenUntouched
<1>3. CASE ReadProfile(p)
  <2>1. UNCHANGED <<configs, profile, owner>> /\ worker[p].pc = "profile"
    BY <1>3 DEF ReadProfile, At
  <2>2. CASE Abort(p)
    BY <2>1, <2>2, KnowsAfterAbort
  <2>3. ASSUME NEW l \in {"create", "update", "status"}, Step(p, [worker[p] EXCEPT !.pc = l]),
               UNCHANGED queue,
               l = "update" => owner # Foreign /\ profile # "absent",
               l = "status" => Published(worker[p].cur)
        PROVE  \A q \in Procs : PassKnows(q)'
    <3> DEFINE w == [worker[p] EXCEPT !.pc = l]
    <3>1. /\ w.pc = l /\ w.cur = worker[p].cur /\ w.stale = worker[p].stale
          /\ w.moved = worker[p].moved
      BY DEF TypeOK, Worker
    <3>2. worker'[p] = w /\ \A q \in Procs \ {p} : worker'[q] = worker[q]
      BY <2>3, WorkersOfStep, Zenon DEF Step
    <3> HIDE DEF w
    <3>3. /\ worker[p].stale => queue[p]
          /\ ~worker[p].stale => configs[worker[p].cur].life = "live"
          /\ ~worker[p].moved
      BY <2>1 DEF PassKnows, TypeOK, Worker
    <3>4. PassKnows(p)'
      BY <2>1, <2>3, <3>1, <3>2, <3>3 DEF PassKnows, Published
    <3> QED BY <2>1, <2>3, <3>2, <3>4, KnowsWhenUntouched
  <2> QED BY <1>3, <2>2, <2>3, Zenon DEF ReadProfile
<1> QED BY <1>1, <1>2, <1>3

\* The writes of a pass (RemoveOperation, CreateProfile, UpdateProfile,
\* UpdateStatus).
LEMMA KnowsAfterWriting ==
    ASSUME ConfigAssumption, TypeOK, \A q \in Procs : PassKnows(q), NEW p \in Procs,
           \/ RemoveOperation(p) \/ CreateProfile(p) \/ UpdateProfile(p) \/ UpdateStatus(p)
    PROVE  \A q \in Procs : PassKnows(q)'
<1>1. CASE RemoveOperation(p)
  <2>1. UNCHANGED <<profile, owner>>
    BY <1>1 DEF RemoveOperation
  <2>2. CASE Abort(p) /\ UNCHANGED configs
    BY <2>1, <2>2, KnowsAfterAbort
  <2>3. ASSUME NEW c \in Named, Stored(c, [configs[c] EXCEPT !.op = ""]),
               NEW w, worker' = [OvertakenBy(c) EXCEPT ![p] = w],
               \/ w = IdleWorker
               \/ /\ w = [IdleWorker EXCEPT !.pc = "profile", !.cur = c]
                  /\ configs[c].life = "live"
        PROVE  \A q \in Procs : PassKnows(q)'
    <3>1. c \in Configs /\ [configs[c] EXCEPT !.op = ""].life = configs[c].life
      BY DEF Named, TypeOK, Config
    <3>2. \/ w = IdleWorker
          \/ /\ w.pc = "profile" /\ w.cur = c /\ w.stale = FALSE /\ w.moved = FALSE
             /\ configs[c].life = "live"
      BY <2>3 DEF IdleWorker
    <3> DEFINE o == [configs[c] EXCEPT !.op = ""]
    <3>3. Stored(c, o) /\ o.life = configs[c].life
      BY <2>3, <3>1
    <3> HIDE DEF o
    <3> QED BY <2>1, <2>3, <3>1, <3>2, <3>3, KnowsAfterOwnWrite
  <2> QED BY <1>1, <2>2, <2>3, Zenon DEF RemoveOperation
<1>2. CASE CreateProfile(p) \/ UpdateProfile(p)
  <2>1. \/ WriteProfile(p) /\ (At(p, "create") \/ (At(p, "update") /\ ~worker[p].moved))
        \/ Abort(p) /\ UNCHANGED <<configs, profile, owner, faults, edits>>
    BY <1>2, Zenon DEF CreateProfile, UpdateProfile
  <2> QED BY <2>1, KnowsAfterWriteProfile, KnowsAfterAbort
<1>3. CASE UpdateStatus(p)
  <2>1. UNCHANGED <<profile, owner>> /\ worker[p].cur \in Configs
    BY <1>3 DEF UpdateStatus, TypeOK, At
  <2>2. CASE Abort(p) /\ UNCHANGED configs
    BY <2>1, <2>2, KnowsAfterAbort
  <2>3. CASE Step(p, IdleWorker) /\ UNCHANGED <<configs, queue>>
    <3>1. worker'[p] = IdleWorker /\ \A q \in Procs \ {p} : worker'[q] = worker[q]
      BY <2>3, WorkersOfStep, Zenon DEF Step
    <3> QED BY <2>1, <2>3, <3>1, IdleKnows, KnowsWhenUntouched
  <2>4. ASSUME NEW o, Stored(worker[p].cur, o),
               worker' = [OvertakenBy(worker[p].cur) EXCEPT ![p] = IdleWorker]
        PROVE  \A q \in Procs : PassKnows(q)'
    BY <2>1, <2>4, KnowsAfterOwnWrite, Zenon
  <2> QED BY <1>3, <2>2, <2>3, <2>4, Zenon DEF UpdateStatus
<1> QED BY <1>1, <1>2, <1>3

\* What everybody else does (UserStep, ProfileStep, Crash).
LEMMA KnowsOutside ==
    ASSUME ConfigAssumption, TypeOK, \A q \in Procs : PassKnows(q),
           \/ \E c \in Configs : UserStep(c)
           \/ ProfileStep
           \/ \E p \in Procs : Crash(p)
    PROVE  \A q \in Procs : PassKnows(q)'
<1>1. ASSUME NEW c \in Configs, UserStep(c)
      PROVE  \A q \in Procs : PassKnows(q)'
  <2>1. PICK o : Write(c, o)
    BY <1>1, Zenon DEF UserStep, CreateConfig, DeleteConfig, EditConfig, SetOperation
  <2>2. Stored(c, o) /\ worker' = OvertakenBy(c) /\ UNCHANGED <<profile, owner>>
    BY <2>1 DEF Write
  <2> QED BY <2>2, KnowsWhenStored
<1>2. CASE ProfileStep
  <2>1. PICK v, o : StoredProfile(v, o)
    BY <1>2, Zenon DEF ProfileStep, CollectProfile, EditProfile
  <2>2. worker' = Moved /\ UNCHANGED configs
    BY <1>2, Zenon DEF ProfileStep, CollectProfile, EditProfile
  <2> QED BY <2>1, <2>2, KnowsWhenProfileStored
<1>3. ASSUME NEW p \in Procs, Crash(p)
      PROVE  \A q \in Procs : PassKnows(q)'
  <2>1. worker'[p] = IdleWorker /\ \A q \in Procs \ {p} : worker'[q] = worker[q]
    BY <1>3, WorkersOfStep, Zenon DEF Crash, Step
  <2>2. UNCHANGED <<configs, profile, owner>>
        /\ \A q \in Procs \ {p} : queue'[q] = queue[q]
    BY <1>3 DEF Crash, TypeOK
  <2> QED BY <2>1, <2>2, IdleKnows, KnowsWhenUntouched
<1> QED BY <1>1, <1>2, <1>3
----------------------------------------------------------------------------
(* Nobody rests before everything is settled *)

Resting(p) == At(p, "idle") /\ ~queue[p]

\* Who was resting before, and still is, when nothing was written (Settled).
LEMMA RestWhenUntouched ==
    ASSUME RestingMeansSettled, NEW q \in Procs,
           worker'[q] = worker[q] /\ queue'[q] = queue[q],
           UNCHANGED <<configs, profile, owner>>
    PROVE  Resting(q)' => Settled'
BY DEF RestingMeansSettled, Resting, Settled, Named, Published, At

\* A write that queues everybody (Stored).
LEMMA RestWhenQueued ==
    ASSUME NEW q \in Procs, queue' = Queued
    PROVE  ~Resting(q)'
BY DEF Resting, Queued

\* A write of the profile queues everybody, or a profile nobody owns is written,
\* which no ProviderConfig had asked for if anybody rests (StoredProfile).
LEMMA RestWhenProfileStored ==
    ASSUME TypeOK, RestingMeansSettled, NEW q \in Procs, NEW v, NEW o,
           StoredProfile(v, o), worker'[q].pc = worker[q].pc, UNCHANGED configs
    PROVE  Resting(q)' => Settled'
<1>1. CASE queue' = Queued
  BY <1>1, RestWhenQueued
<1>2. CASE queue' = queue /\ owner \notin Configs
  <2> SUFFICES ASSUME Resting(q)' PROVE Settled'
    OBVIOUS
  <2>1. Settled
    BY <1>2 DEF RestingMeansSettled, Resting, At
  <2>2. Named' = Named /\ \A c \in Named : c \in Configs
    BY DEF Named
  <2> QED BY <1>2, <2>1, <2>2 DEF Settled, Published
<1> QED BY <1>1, <1>2 DEF StoredProfile

\* An error leaves the request queued, and nothing written (Abort).
LEMMA RestAfterAbort ==
    ASSUME TypeOK, RestingMeansSettled, NEW p \in Procs, Abort(p),
           UNCHANGED <<configs, profile, owner>>
    PROVE  \A q \in Procs : Resting(q)' => Settled'
<1>1. queue'[p] = TRUE /\ \A q \in Procs \ {p} : queue'[q] = queue[q]
  BY DEF Abort, TypeOK
<1>2. \A q \in Procs \ {p} : worker'[q] = worker[q]
  BY WorkersOfStep, Zenon DEF Abort, Step
<1>3. ~Resting(p)'
  BY <1>1 DEF Resting
<1> QED BY <1>1, <1>2, <1>3, RestWhenUntouched

\* A step of p that writes nothing; p itself rests only if everything is settled
\* (Skip, UpdateStatus).
LEMMA RestAfterOwnStep ==
    ASSUME TypeOK, RestingMeansSettled, NEW p \in Procs, NEW w, Step(p, w),
           \A q \in Procs \ {p} : queue'[q] = queue[q],
           UNCHANGED <<configs, profile, owner>>,
           Resting(p)' => Settled
    PROVE  \A q \in Procs : Resting(q)' => Settled'
<1>1. \A q \in Procs \ {p} : worker'[q] = worker[q]
  BY WorkersOfStep, Zenon DEF Step
<1>2. Settled' = Settled
  BY DEF Settled, Named, Published
<1> QED BY <1>1, <1>2, RestWhenUntouched
\* A pass ends without being queued again only when everything is settled
\* (Skip, Get, Pass).
LEMMA RestInside ==
    ASSUME ConfigAssumption, TypeOK, \A q \in Procs : PassKnows(q), RestingMeansSettled,
           NEW p \in Procs, Pass(p) \/ Dequeue(p)
    PROVE  \A q \in Procs : Resting(q)' => Settled'
<1>1. CASE Skip(p)
  <2>1. UNCHANGED <<configs, profile, owner, worker>>
        /\ \A q \in Procs \ {p} : queue'[q] = queue[q]
    BY <1>1 DEF Skip, TypeOK
  <2>2. Settled
    BY <1>1 DEF Skip, Settled
  <2>3. Settled' = Settled
    BY <2>1 DEF Settled, Named, Published
  <2> QED BY <2>1, <2>2, <2>3, RestWhenUntouched
<1>2. CASE Get(p)
  <2>1. UNCHANGED <<configs, profile, owner>>
        /\ \A q \in Procs \ {p} : queue'[q] = queue[q]
    BY <1>2 DEF Get, TypeOK
  <2>2. PICK c \in Named :
            Step(p, [IdleWorker EXCEPT
                        !.pc = IF configs[c].op = "reconcile" THEN "operation" ELSE "profile",
                        !.cur = c])
    BY <1>2 DEF Get
  <2> DEFINE w == [IdleWorker EXCEPT
                        !.pc = IF configs[c].op = "reconcile" THEN "operation" ELSE "profile",
                        !.cur = c]
  <2>3. w.pc # "idle"
    BY DEF IdleWorker
  <2>4. Step(p, w)
    BY <2>2, Zenon
  <2> HIDE DEF w
  <2>5. worker'[p] = w
    BY <2>4, WorkersOfStep, Zenon DEF Step
  <2>6. ~Resting(p)'
    BY <2>3, <2>5 DEF Resting, At
  <2> QED BY <2>1, <2>4, <2>6, RestAfterOwnStep
<1>3. CASE ReadProfile(p)
  <2>1. UNCHANGED <<configs, profile, owner>>
    BY <1>3 DEF ReadProfile
  <2>2. CASE Abort(p)
    BY <2>1, <2>2, RestAfterAbort
  <2>3. ASSUME NEW l \in {"create", "update", "status"}, Step(p, [worker[p] EXCEPT !.pc = l]),
               UNCHANGED queue
        PROVE  \A q \in Procs : Resting(q)' => Settled'
    <3> DEFINE w == [worker[p] EXCEPT !.pc = l]
    <3>1. w.pc = l
      BY DEF TypeOK, Worker
    <3>2. Step(p, w)
      BY <2>3, Zenon
    <3> HIDE DEF w
    <3>3. worker'[p] = w
      BY <3>2, WorkersOfStep, Zenon DEF Step
    <3>4. ~Resting(p)'
      BY <3>1, <3>3 DEF Resting, At
    <3> QED BY <2>1, <2>3, <3>2, <3>4, RestAfterOwnStep
  <2> QED BY <1>3, <2>2, <2>3, Zenon DEF ReadProfile
<1>4. CASE RemoveOperation(p)
  <2>1. queue' = Queued \/ (Abort(p) /\ UNCHANGED <<configs, profile, owner>>)
    BY <1>4 DEF RemoveOperation, Stored
  <2> QED BY <2>1, RestWhenQueued, RestAfterAbort
<1>5. CASE CreateProfile(p) \/ UpdateProfile(p)
  <2>1. WriteProfile(p) \/ (Abort(p) /\ UNCHANGED <<configs, profile, owner, faults, edits>>)
    BY <1>5, Zenon DEF CreateProfile, UpdateProfile
  <2>2. worker[p].cur \in Configs
    BY <1>5 DEF CreateProfile, UpdateProfile, TypeOK, At
  <2>3. queue' = Queued \/ (Abort(p) /\ UNCHANGED <<configs, profile, owner>>)
    BY <2>1, <2>2 DEF WriteProfile, StoredProfile
  <2> QED BY <2>3, RestWhenQueued, RestAfterAbort
<1>6. CASE UpdateStatus(p)
  <2>1. CASE queue' = Queued \/ (Abort(p) /\ UNCHANGED <<configs, profile, owner>>)
    BY <2>1, RestWhenQueued, RestAfterAbort
  <2>2. CASE /\ ~worker[p].stale /\ configs[worker[p].cur].observed = TRUE
             /\ Step(p, IdleWorker) /\ UNCHANGED <<configs, queue, profile, owner>>
    <3>1. /\ worker[p].pc = "status" /\ worker[p].cur \in Configs
          /\ configs[worker[p].cur].life = "live"
          /\ queue[p] \/ Published(worker[p].cur)
      BY <1>6, <2>2 DEF UpdateStatus, At, PassKnows, TypeOK
    <3>2. \A c \in Named : c = worker[p].cur
      <4> SUFFICES ASSUME NEW c \in Named PROVE c = worker[p].cur
        OBVIOUS
      <4>1. /\ c \in Nat /\ c \in Configs /\ worker[p].cur \in Nat
            /\ configs[c].life \in {"live", "deleting"}
        BY <3>1 DEF Named, ConfigAssumption
      <4>2. ~(c < worker[p].cur) /\ ~(worker[p].cur < c)
        BY <3>1, <4>1 DEF TypeOK
      <4> QED BY <4>1, <4>2
    <3>3. Resting(p)' => Settled
      BY <2>2, <3>1, <3>2 DEF Resting, Settled
    <3> QED BY <2>2, <3>3, RestAfterOwnStep
  <2>3. worker[p].cur \in Configs
    BY <1>6 DEF UpdateStatus, At, TypeOK
  <2>4. configs[worker[p].cur] = [configs[worker[p].cur] EXCEPT !.observed = TRUE]
            => configs[worker[p].cur].observed = TRUE
    BY <2>3 DEF TypeOK, Config
  <2> QED BY <1>6, <2>1, <2>2, <2>4, Zenon DEF UpdateStatus, Stored
<1> QED BY <1>1, <1>2, <1>3, <1>4, <1>5, <1>6 DEF Pass, Dequeue

\* What everybody else does queues whoever has something to do (UserStep,
\* ProfileStep, Crash).
LEMMA RestOutside ==
    ASSUME TypeOK, RestingMeansSettled,
           \/ \E c \in Configs : UserStep(c)
           \/ ProfileStep
           \/ \E p \in Procs : Crash(p)
    PROVE  \A q \in Procs : Resting(q)' => Settled'
<1>1. ASSUME NEW c \in Configs, UserStep(c)
      PROVE  queue' = Queued
  <2>1. PICK o : Write(c, o)
    BY <1>1, Zenon DEF UserStep, CreateConfig, DeleteConfig, EditConfig, SetOperation
  <2> QED BY <2>1 DEF Write, Stored
<1>2. CASE ProfileStep
  <2>1. PICK v, o : StoredProfile(v, o)
    BY <1>2, Zenon DEF ProfileStep, CollectProfile, EditProfile
  <2>2. worker' = Moved /\ UNCHANGED configs
    BY <1>2, Zenon DEF ProfileStep, CollectProfile, EditProfile
  <2>3. \A q \in Procs : worker'[q].pc = worker[q].pc
    BY <2>2 DEF Moved, TypeOK, Worker
  <2> QED BY <2>1, <2>2, <2>3, RestWhenProfileStored
<1>3. ASSUME NEW p \in Procs, Crash(p)
      PROVE  \A q \in Procs : Resting(q)' => Settled'
  <2>1. /\ UNCHANGED <<configs, profile, owner>>
        /\ \A q \in Procs \ {p} : queue'[q] = queue[q]
        /\ queue'[p] = (Named # {})
    BY <1>3 DEF Crash, TypeOK
  <2>2. Resting(p)' => Settled
    BY <2>1 DEF Resting, Settled
  <2> QED BY <1>3, <2>1, <2>2, RestAfterOwnStep DEF Crash
<1> QED BY <1>1, <1>2, <1>3, RestWhenQueued

----------------------------------------------------------------------------
(* The theorems *)

\* Nothing is written at the start, and nobody has anything to do (Init).
LEMMA InitProgress == Init => Progress
<1> SUFFICES ASSUME Init PROVE Progress
  OBVIOUS
<1>1. UnsetConfig \in Config /\ UnsetConfig.life = "none"
  BY DEF UnsetConfig, Config, Operations
<1>2. IdleWorker \in Worker /\ IdleWorker.pc = "idle"
  BY DEF IdleWorker, Worker, Labels
<1>3. TypeOK
  BY <1>1, <1>2 DEF Init, TypeOK, At
<1>4. \A p \in Procs : PassKnows(p)
  BY DEF Init, PassKnows, IdleWorker
<1>5. RestingMeansSettled
  BY <1>1 DEF Init, RestingMeansSettled, Settled, Named
<1> QED BY <1>3, <1>4, <1>5 DEF Progress

\* One step keeps the inductive invariant (Next).
LEMMA ProgressKept ==
    ASSUME ConfigAssumption, Progress, [Next]_vars
    PROVE  Progress'
<1>1. TypeOK /\ (\A q \in Procs : PassKnows(q)) /\ RestingMeansSettled
  BY DEF Progress
<1>2. CASE UNCHANGED vars
  <2>1. TypeOK'
    BY <1>1, <1>2 DEF vars, TypeOK, At
  <2>2. \A q \in Procs : PassKnows(q)'
    BY <1>1, <1>2, KnowsWhenUntouched DEF vars
  <2>3. \A q \in Procs : Resting(q)' => Settled'
    BY <1>1, <1>2, RestWhenUntouched DEF vars
  <2> QED BY <2>1, <2>2, <2>3 DEF Progress, RestingMeansSettled, Resting
<1>3. ASSUME NEW p \in Procs, Pass(p) \/ Dequeue(p)
      PROVE  Progress'
  <2>1. TypeOK'
    <3>1. CASE CreateProfile(p) \/ UpdateProfile(p)
      <4>1. ~At(p, "idle")
        BY <3>1 DEF CreateProfile, UpdateProfile, At
      <4>2. WriteProfile(p) \/ (Abort(p) /\ UNCHANGED <<configs, profile, owner, faults, edits>>)
        BY <3>1, Zenon DEF CreateProfile, UpdateProfile
      <4>3. CASE Abort(p) /\ UNCHANGED <<configs, profile, owner, faults, edits>>
        BY <1>1, <4>3, AbortTyped, TypeParts DEF TypeOK, ConfigsOK, ProfileOK, CountersOK
      <4> QED BY <1>1, <4>1, <4>2, <4>3, WriteProfileTyped
    <3> QED BY <1>1, <1>3, <3>1, ReadingTyped, RemoveOperationTyped, UpdateStatusTyped
            DEF Pass, Dequeue
  <2>2. \A q \in Procs : PassKnows(q)'
    BY <1>1, <1>3, KnowsAfterReading, KnowsAfterWriting DEF Pass, Dequeue
  <2>3. \A q \in Procs : Resting(q)' => Settled'
    BY <1>1, <1>3, RestInside
  <2> QED BY <2>1, <2>2, <2>3 DEF Progress, RestingMeansSettled, Resting
<1>4. CASE \/ \E c \in Configs : UserStep(c)
           \/ ProfileStep
           \/ \E p \in Procs : Crash(p)
  <2>1. TypeOK'
    BY <1>1, <1>4, OutsideTyped
  <2>2. \A q \in Procs : PassKnows(q)'
    BY <1>1, <1>4, KnowsOutside
  <2>3. \A q \in Procs : Resting(q)' => Settled'
    BY <1>1, <1>4, RestOutside
  <2> QED BY <2>1, <2>2, <2>3 DEF Progress, RestingMeansSettled, Resting
<1> QED BY <1>2, <1>3, <1>4 DEF Next

\* No step takes a profile from another controller (SetControllerReference, and
\* the lock of the update).
LEMMA ForeignKept ==
    ASSUME ConfigAssumption, Progress, Next, owner = Foreign
    PROVE  owner' \notin Configs
<1>1. Foreign \notin Configs /\ NoOwner \notin Configs
  BY DEF Foreign, NoOwner, ConfigAssumption
<1>2. CASE UNCHANGED owner
  BY <1>1, <1>2
<1>3. CASE \E p \in Procs : (CreateProfile(p) \/ UpdateProfile(p)) /\ WriteProfile(p)
  <2>1. PICK p \in Procs : CreateProfile(p) \/ (UpdateProfile(p) /\ WriteProfile(p))
    BY <1>3
  <2>2. profile # "absent"
    BY DEF Progress, TypeOK, Foreign, NoOwner
  <2>3. CASE CreateProfile(p)
    BY <1>1, <2>2, <2>3 DEF CreateProfile
  <2>4. CASE UpdateProfile(p)
    <3>1. worker[p].moved
      BY <2>4 DEF Progress, PassKnows, UpdateProfile, At
    <3> QED BY <1>1, <2>4, <3>1 DEF UpdateProfile
  <2> QED BY <2>1, <2>3, <2>4
<1>4. CASE ProfileStep
  BY <1>1, <1>4 DEF ProfileStep, CollectProfile, EditProfile, StoredProfile
<1>5. \/ UNCHANGED owner
      \/ \E p \in Procs : (CreateProfile(p) \/ UpdateProfile(p)) /\ WriteProfile(p)
      \/ ProfileStep
  <2>1. ASSUME NEW p \in Procs, Pass(p) \/ Dequeue(p) \/ Crash(p)
        PROVE  UNCHANGED owner
               \/ ((CreateProfile(p) \/ UpdateProfile(p)) /\ WriteProfile(p))
    BY <2>1 DEF Pass, Dequeue, Crash, RemoveOperation, ReadProfile, CreateProfile,
                UpdateProfile, UpdateStatus, Skip, Get
  <2>2. ASSUME NEW c \in Configs, UserStep(c)
        PROVE  UNCHANGED owner
    <3>1. PICK o : Write(c, o)
      BY <2>2, Zenon DEF UserStep, CreateConfig, DeleteConfig, EditConfig, SetOperation
    <3> QED BY <3>1 DEF Write
  <2> QED BY <2>1, <2>2 DEF Next
<1> QED BY <1>2, <1>3, <1>4, <1>5

\* The inductive invariant: an overtaken pass is queued again, any other one
\* may rely on what it read, and nobody rests before everything is settled.
THEOREM ProgressHolds ==
    ASSUME ConfigAssumption
    PROVE  Spec => []Progress
<1>1. Init => Progress
  BY InitProgress
<1>2. Progress /\ [Next]_vars => Progress'
  BY ProgressKept
<1> QED BY <1>1, <1>2, PTL DEF Spec

\* With any number of processes, no process rests while a live ProviderConfig
\* lacks its profile, owns it under a predecessor's identity, or does not say
\* Ready for its present generation (Reconcile).
THEOREM SettledWhenResting ==
    ASSUME ConfigAssumption
    PROVE  Spec => []RestingMeansSettled
<1>1. Progress => RestingMeansSettled
  BY DEF Progress
<1> QED BY <1>1, ProgressHolds, PTL

\* With any number of processes, no profile is taken from another controller
\* (CreateOrUpdate with SetControllerReference).
THEOREM ForeignProfilesKept ==
    ASSUME ConfigAssumption
    PROVE  Spec => NeverTakenOver
<1>1. Progress /\ [Next]_vars => [owner = Foreign => owner' \notin Configs]_vars
  BY ForeignKept
<1> QED BY <1>1, ProgressHolds, PTL DEF Spec, NeverTakenOver
===============================================================================
