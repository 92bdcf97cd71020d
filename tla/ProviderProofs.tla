---------------------------- MODULE ProviderProofs ----------------------------
(***************************************************************************)
(* What is proved of each of the two controllers by itself (ConfigProofs,  *)
(* OwnershipProofs, ReadinessProofs) holds in the provider, where they     *)
(* share the profile and the counts of faults and edits: for any number of *)
(* processes, Clusters and ProviderConfigs, except for what is claimed of  *)
(* one process only.                                                       *)
(***************************************************************************)
EXTENDS Provider, ReadinessProofs

ConfigFacts == INSTANCE ConfigProofs
               WITH queue <- configQueue, worker <- configWorker,
                    Faults <- ConfigFaults, MaxEdits <- MaxConfigEdits

----------------------------------------------------------------------------
(* Config and ConfigFacts are instances of one specification. *)

\* Of the constants they assume the same (ConfigAssumption).
LEMMA SameAssumption == ConfigFacts!ConfigAssumption
BY CompositionAssumption
   DEF Config!ConfigAssumption, ConfigFacts!ConfigAssumption

\* They start in the same states (Init).
LEMMA SameInit == Config!Init => ConfigFacts!Init
BY Zenon DEF Config!Init, ConfigFacts!Init, Config!UnsetConfig, ConfigFacts!UnsetConfig,
       Config!NoOwner, ConfigFacts!NoOwner, Config!IdleWorker, ConfigFacts!IdleWorker

\* They have the same inductive invariant (Progress).
LEMMA SameProgress ==
    /\ Config!Progress <=> ConfigFacts!Progress
    /\ Config!Progress' <=> ConfigFacts!Progress'
<1> USE DEF Config!NoOwner, ConfigFacts!NoOwner, Config!Foreign, ConfigFacts!Foreign,
        Config!Published, ConfigFacts!Published, Config!At, ConfigFacts!At,
        Config!Named, ConfigFacts!Named, Config!IdleWorker, ConfigFacts!IdleWorker
<1>1. /\ Config!TypeOK <=> ConfigFacts!TypeOK
      /\ Config!TypeOK' <=> ConfigFacts!TypeOK'
  BY Zenon DEF Config!TypeOK, ConfigFacts!TypeOK, Config!Config, ConfigFacts!Config,
         Config!Worker, ConfigFacts!Worker, Config!Labels, ConfigFacts!Labels,
         Config!Operations, ConfigFacts!Operations
<1>2. \A p \in Procs : /\ Config!PassKnows(p) <=> ConfigFacts!PassKnows(p)
                       /\ Config!PassKnows(p)' <=> ConfigFacts!PassKnows(p)'
  BY Zenon DEF Config!PassKnows, ConfigFacts!PassKnows
<1>3. /\ Config!RestingMeansSettled <=> ConfigFacts!RestingMeansSettled
      /\ Config!RestingMeansSettled' <=> ConfigFacts!RestingMeansSettled'
  BY Zenon DEF Config!RestingMeansSettled, ConfigFacts!RestingMeansSettled,
         Config!Settled, ConfigFacts!Settled
<1> QED BY <1>1, <1>2, <1>3, Zenon DEF Config!Progress, ConfigFacts!Progress

\* They take the same steps (Next).
LEMMA SameNext == Config!Next => ConfigFacts!Next
<1> USE DEF Config!NoOwner, ConfigFacts!NoOwner, Config!Foreign, ConfigFacts!Foreign,
        Config!Published, ConfigFacts!Published, Config!At, ConfigFacts!At,
        Config!Named, ConfigFacts!Named, Config!IdleWorker, ConfigFacts!IdleWorker,
        Config!Operations, ConfigFacts!Operations,
        Config!UnsetConfig, ConfigFacts!UnsetConfig, Config!Fault, ConfigFacts!Fault,
        Config!Step, ConfigFacts!Step, Config!Abort, ConfigFacts!Abort,
        Config!Queued, ConfigFacts!Queued, Config!Stored, ConfigFacts!Stored,
        Config!OvertakenBy, ConfigFacts!OvertakenBy,
        Config!StoredProfile, ConfigFacts!StoredProfile, Config!Moved, ConfigFacts!Moved
<1>1. ASSUME NEW p \in Procs, Config!Pass(p)
      PROVE  ConfigFacts!Pass(p)
  <2>1. Config!RemoveOperation(p) => ConfigFacts!RemoveOperation(p)
    BY Zenon DEF Config!RemoveOperation, ConfigFacts!RemoveOperation
  <2>2. Config!ReadProfile(p) => ConfigFacts!ReadProfile(p)
    BY Zenon DEF Config!ReadProfile, ConfigFacts!ReadProfile
  <2>3. /\ Config!CreateProfile(p) => ConfigFacts!CreateProfile(p)
        /\ Config!UpdateProfile(p) => ConfigFacts!UpdateProfile(p)
    BY Zenon DEF Config!WriteProfile, ConfigFacts!WriteProfile,
           Config!CreateProfile, ConfigFacts!CreateProfile,
           Config!UpdateProfile, ConfigFacts!UpdateProfile
  <2>4. Config!UpdateStatus(p) => ConfigFacts!UpdateStatus(p)
    BY Zenon DEF Config!UpdateStatus, ConfigFacts!UpdateStatus
  <2> QED BY <1>1, <2>1, <2>2, <2>3, <2>4, Zenon DEF Config!Pass, ConfigFacts!Pass
<1>2. ASSUME NEW p \in Procs, Config!Dequeue(p) \/ Config!Crash(p)
      PROVE  ConfigFacts!Dequeue(p) \/ ConfigFacts!Crash(p)
  BY <1>2, Zenon DEF Config!Dequeue, ConfigFacts!Dequeue, Config!Skip, ConfigFacts!Skip,
         Config!Get, ConfigFacts!Get, Config!Crash, ConfigFacts!Crash
<1>3. ASSUME NEW c \in Configs, Config!UserStep(c)
      PROVE  ConfigFacts!UserStep(c)
  BY <1>3, Zenon DEF Config!UserStep, ConfigFacts!UserStep, Config!Write, ConfigFacts!Write,
         Config!CreateConfig, ConfigFacts!CreateConfig,
         Config!DeleteConfig, ConfigFacts!DeleteConfig,
         Config!EditConfig, ConfigFacts!EditConfig,
         Config!SetOperation, ConfigFacts!SetOperation
<1>4. Config!ProfileStep => ConfigFacts!ProfileStep
  BY Zenon DEF Config!ProfileStep, ConfigFacts!ProfileStep,
         Config!CollectProfile, ConfigFacts!CollectProfile,
         Config!EditProfile, ConfigFacts!EditProfile
<1> QED BY <1>1, <1>2, <1>3, <1>4, Zenon DEF Config!Next, ConfigFacts!Next

----------------------------------------------------------------------------
(* The steps of the cluster controller and of its surroundings. *)

\* They touch neither the profile nor anything else of the ProviderConfig
\* controller; they only count.
Apart ==
    /\ UNCHANGED <<profile, configOnlyVars>>
    /\ faults' = faults \/ faults' = faults + 1
    /\ edits' = edits \/ edits' = edits + 1

\* No call of a pass writes the profile (Pass of ClusterController).
LEMMA PassApart ==
    ASSUME NEW p \in Procs, ClusterPass(p)
    PROVE  Apart
<1> USE DEF Apart, Fault, platformVars
<1>1. CASE \/ RemoveOperation(p) \/ Responsible(p) \/ EnsureFinalizer(p)
           \/ PickSubnet(p) \/ AssignSubnet(p) \/ RemoveFinalizer(p)
           \/ DisplayMetadata(p) \/ CommitStatus(p)
  <2>1. UNCHANGED <<profile, edits>>
    BY <1>1, Zenon DEF RemoveOperation, Responsible, EnsureFinalizer, PickSubnet,
           AssignSubnet, RemoveFinalizer, DisplayMetadata, CommitStatus
  <2>2. faults' = faults \/ faults' = faults + 1
    BY <1>1, Zenon DEF RemoveOperation, Responsible, EnsureFinalizer, PickSubnet,
           AssignSubnet, RemoveFinalizer, DisplayMetadata, CommitStatus, Update
  <2> QED BY <2>1, <2>2 DEF ClusterPass
<1>2. CASE \/ EnsureK0sCluster(p) \/ Prepare(p) \/ CreateContainer(p)
           \/ StartContainer(p) \/ WaitReady(p)
           \/ LookupContainer(p) \/ RemoveContainer(p)
  <2>1. UNCHANGED platformVars
    BY <1>2, Zenon DEF EnsureK0sCluster, Prepare, CreateContainer, StartContainer,
           WaitReady, LookupContainer, RemoveContainer
  <2>2. faults' = faults \/ faults' = faults + 1
    BY <1>2, Zenon DEF EnsureK0sCluster, Prepare, CreateContainer, StartContainer,
           WaitReady, LookupContainer, RemoveContainer
  <2> QED BY <2>1, <2>2 DEF ClusterPass
<1>3. CASE \/ TargetClient(p) \/ Install(p) \/ PodsReady(p) \/ ConfigureMetalLB(p)
           \/ PublishAccess(p)
  <2>1. UNCHANGED platformVars
    BY <1>3, Zenon DEF TargetClient, Install, PodsReady, ConfigureMetalLB, PublishAccess
  <2>2. faults' = faults \/ faults' = faults + 1
    BY <1>3, Zenon DEF TargetClient, Install, PodsReady, ConfigureMetalLB, PublishAccess
  <2> QED BY <2>1, <2>2 DEF ClusterPass
<1> QED BY <1>1, <1>2, <1>3, Zenon DEF ClusterPass, Pass

\* Nor do users, docker and the workqueue (Dequeue, UserStep, DockerStep).
LEMMA OthersApart ==
    ASSUME \/ \E p \in Procs, c \in Clusters : ClusterDequeue(p, c)
           \/ \E c \in Clusters : UserStep(c) /\ UNCHANGED configOnlyVars
           \/ \E n \in Names : DockerStep(n) /\ UNCHANGED configOnlyVars
    PROVE  Apart
<1>1. CASE \E p \in Procs, c \in Clusters : ClusterDequeue(p, c)
  BY <1>1, Zenon DEF ClusterDequeue, Dequeue, Skip, Get, Apart
<1>2. CASE \E c \in Clusters : UserStep(c) /\ UNCHANGED configOnlyVars
  BY <1>2, Zenon DEF UserStep, CreateObject, DeleteObject, SetOperation,
         AddForeignFinalizer, RemoveForeignFinalizer, Edit, Apart
<1>3. CASE \E n \in Names : DockerStep(n) /\ UNCHANGED configOnlyVars
  BY <1>3, Zenon DEF DockerStep, Apart
<1> QED BY <1>1, <1>2, <1>3

\* Every step of the provider is one of the ProviderConfig controller or apart
\* from it (ProviderNext).
LEMMA StepsOfProvider == ProviderNext => ConfigFacts!Next \/ Apart
<1> SUFFICES ASSUME ProviderNext PROVE Config!Next \/ Apart
  BY SameNext
<1>1. CASE \E p \in Procs : ConfigPass(p) \/ ConfigDequeue(p) \/ Restart(p)
  BY <1>1, Zenon DEF ConfigPass, ConfigDequeue, Restart, Config!Next
<1>2. CASE \/ \E c \in Configs : Config!UserStep(c) /\ UNCHANGED <<queue, clusterOnlyVars>>
           \/ Config!ProfileStep /\ ClustersForProfile /\ UNCHANGED clusterOnlyVars
  BY <1>2, Zenon DEF Config!Next
<1> QED BY <1>1, <1>2, PassApart, OthersApart, Zenon DEF ProviderNext, Environment

\* What is apart from the ProviderConfig controller keeps its invariant
\* (Progress).
LEMMA ApartKeepsProgress ==
    ASSUME Config!Progress, Apart
    PROVE  Config!Progress'
<1>1. UNCHANGED <<configs, profile, owner, configQueue, configWorker>>
      /\ faults' \in Nat /\ edits' \in Nat
  BY DEF Apart, configOnlyVars, Config!Progress, Config!TypeOK
<1>2. Config!TypeOK'
  BY <1>1 DEF Config!Progress, Config!TypeOK, Config!At
<1>3. Config!RestingMeansSettled'
  BY <1>1 DEF Config!Progress, Config!RestingMeansSettled, Config!Settled, Config!Named,
         Config!Published, Config!At
<1>4. \A p \in Procs : Config!PassKnows(p)'
  BY <1>1 DEF Config!Progress, Config!PassKnows, Config!Published
<1> QED BY <1>2, <1>3, <1>4 DEF Config!Progress

----------------------------------------------------------------------------
(* The theorems *)

\* In the provider a pass of the ProviderConfig controller may rely on the same
\* as when it is alone.
THEOREM ComposedProgress == ProviderSpec => []Config!Progress
<1>1. ProviderSystemInit => Config!Progress
  BY SameAssumption, SameInit, SameProgress, ConfigFacts!InitProgress DEF ProviderSystemInit
<1>2. Config!Progress /\ [ProviderNext]_allVars => Config!Progress'
  <2> SUFFICES ASSUME Config!Progress, [ProviderNext]_allVars
               PROVE  Config!Progress'
    OBVIOUS
  <2>1. CASE ConfigFacts!Next
    BY <2>1, SameAssumption, SameProgress, ConfigFacts!ProgressKept
  <2>2. CASE UNCHANGED allVars
    <3>1. Apart
      BY <2>2 DEF Apart, allVars, vars
    <3> QED BY <3>1, ApartKeepsProgress
  <2> QED BY <2>1, <2>2, StepsOfProvider, ApartKeepsProgress
<1> QED BY <1>1, <1>2, PTL DEF ProviderSpec

\* With any number of processes and Clusters, no process rests while a live
\* ProviderConfig lacks its profile, or the profile is owned by a predecessor of
\* the same name, or the status does not say Ready for the present generation
\* (Reconcile of internal/controller/config).
THEOREM SettledInProvider == ProviderSpec => []RestingMeansSettled
<1>1. Config!Progress => RestingMeansSettled
  BY DEF Config!Progress, RestingMeansSettled
<1> QED BY <1>1, ComposedProgress, PTL

\* With any number of processes and Clusters, the provider takes no profile from
\* another controller (CreateOrUpdate with SetControllerReference).
THEOREM ForeignKeptInProvider == ProviderSpec => NeverTakenOver
<1>1. Config!Progress /\ [ProviderNext]_allVars
          => [owner = Config!Foreign => owner' \notin Configs]_(Config!vars)
  <2> SUFFICES ASSUME Config!Progress, [ProviderNext]_allVars, owner = Config!Foreign,
                      owner' # owner
               PROVE  owner' \notin Configs
    <3>1. Config!Foreign \notin Configs
      BY CompositionAssumption DEF Config!ConfigAssumption, Config!Foreign
    <3> QED BY <3>1
  <2>1. ConfigFacts!Next
    BY StepsOfProvider DEF Apart, configOnlyVars, allVars
  <2> QED BY <2>1, SameAssumption, SameProgress, ConfigFacts!ForeignKept
         DEF Config!Foreign, ConfigFacts!Foreign
<1> QED BY <1>1, ComposedProgress, PTL DEF ProviderSpec, NeverTakenOver, Config!NeverTakenOver

\* In the provider the variables of the ProviderConfig controller keep their
\* types (TypeOK of ProviderConfigController).
THEOREM TypingInProvider == ProviderSpec => []ConfigTypeOK
<1>1. Config!Progress => ConfigTypeOK
  BY DEF Config!Progress, ConfigTypeOK
<1> QED BY <1>1, ComposedProgress, PTL

----------------------------------------------------------------------------
(* The steps of the ProviderConfig controller and of its surroundings. *)

\* They leave Clusters and containers alone, and queue the Clusters when they
\* write the profile.
Beside ==
    /\ UNCHANGED clusterOnlyVars
    /\ (UNCHANGED <<profile, queue>>) \/ ClustersForProfile

\* Every step of the provider is one of the cluster controller that does not touch
\* the profile, or it is beside it (ProviderNext).
LEMMA StepsOfClusters ==
    ASSUME [ProviderNext]_allVars
    PROVE  ([Next]_vars /\ profile' = profile) \/ Beside
<1>1. CASE \E p \in Procs : ClusterPass(p) \/ \E c \in Clusters : ClusterDequeue(p, c)
  <2>1. Next
    BY <1>1, Zenon DEF ClusterPass, ClusterDequeue, Next
  <2> QED BY <1>1, <2>1, PassApart, OthersApart DEF Apart
<1>2. CASE \E p \in Procs : Restart(p)
  <2>1. Next /\ profile' = profile
    BY <1>2, Zenon DEF Restart, Next, Crash
  <2> QED BY <2>1
<1>3. CASE \/ \E c \in Clusters : UserStep(c) /\ UNCHANGED configOnlyVars
           \/ \E n \in Names : DockerStep(n) /\ UNCHANGED configOnlyVars
  <2>1. Next
    BY <1>3, Zenon DEF Next
  <2> QED BY <1>3, <2>1, OthersApart DEF Apart
<1>4. CASE \/ \E p \in Procs : ConfigPass(p)
           \/ Config!ProfileStep /\ ClustersForProfile /\ UNCHANGED clusterOnlyVars
  BY <1>4, Zenon DEF ConfigPass, Beside
<1>5. CASE \E p \in Procs : ConfigDequeue(p)
  <2>1. profile' = profile
    BY <1>5, Zenon DEF ConfigDequeue, Config!Dequeue, Config!Skip, Config!Get
  <2> QED BY <1>5, <2>1, Zenon DEF ConfigDequeue, Beside
<1>6. CASE \E c \in Configs : Config!UserStep(c) /\ UNCHANGED <<queue, clusterOnlyVars>>
  <2>1. profile' = profile
    BY <1>6, Zenon DEF Config!UserStep, Config!CreateConfig, Config!DeleteConfig,
           Config!EditConfig, Config!SetOperation, Config!Write
  <2> QED BY <1>6, <2>1, Zenon DEF Beside
<1>7. CASE UNCHANGED allVars
  BY <1>7 DEF allVars, vars
<1> QED BY <1>1, <1>2, <1>3, <1>4, <1>5, <1>6, <1>7, Zenon DEF ProviderNext, Environment

\* What is beside the cluster controller keeps its types, as the two agree on
\* those of what they share.
LEMMA BesideTyped ==
    ASSUME TypeOK, Config!TypeOK', Beside
    PROVE  TypeOK' /\ \A p \in Procs : queue[p] \subseteq queue'[p]
<1>1. queue \in [Procs -> SUBSET ObjectNames]
  BY DEF TypeOK
<1>2. /\ queue' \in [Procs -> SUBSET ObjectNames]
      /\ \A p \in Procs : queue[p] \subseteq queue'[p]
  BY <1>1 DEF Beside, ClustersForProfile, PresentClusters, ObjectNames
<1>3. profile' \in {"absent", "ours", "other"} /\ faults' \in Nat /\ edits' \in Nat
  BY DEF Config!TypeOK
<1>4. UNCHANGED <<objects, worker, containers, network>>
  BY DEF Beside, clusterOnlyVars
<1> QED BY <1>2, <1>3, <1>4 DEF TypeOK, ProviderTypeOK

\* It takes nothing away from what the passes over Clusters have seen.
LEMMA BesideSeen ==
    ASSUME Readiness, Config!TypeOK', Beside
    PROVE  Readiness'
<1>1. TypeOK'
  BY BesideTyped DEF Readiness
<1>2. Seen'
  BY Unmoved DEF Beside, clusterOnlyVars
<1> QED BY <1>1, <1>2 DEF Readiness, Seen

\* It takes nothing away from what they know, with one process.
LEMMA BesideOwned ==
    ASSUME Ownership, Config!TypeOK', Beside
    PROVE  Ownership'
<1>1. TypeOK'
  BY BesideTyped DEF Ownership
<1>2. UNCHANGED <<objects, worker, containers, network>>
  BY DEF Beside, clusterOnlyVars
<1>3. SubnetsDisjoint' /\ ContainersOwned' /\ PoolsOwned'
  BY <1>2 DEF Ownership, SubnetsDisjoint, ContainersOwned, PoolsOwned, PresentClusters
<1>4. ASSUME NEW p \in Procs PROVE PassKnows(p)'
  BY <1>2 DEF Ownership, PassKnows, AssignedSubnets, PresentClusters, Holders, ClusterExists
<1>5. OneHolder'
  BY <1>2 DEF Ownership, OneHolder, PresentClusters
<1> QED BY <1>1, <1>3, <1>4, <1>5 DEF Ownership

\* Somebody goes on to attend to the Clusters, or all do because the profile has
\* been written.
LEMMA BesideAttended ==
    ASSUME Attendance, Config!TypeOK', Beside, Procs # {}
    PROVE  Attendance'
<1>1. TypeOK /\ OneHolder
  BY DEF Attendance
<1>2. /\ TypeOK' /\ UNCHANGED <<objects, worker>>
      /\ \A p \in Procs : queue[p] \subseteq queue'[p]
  BY <1>1, BesideTyped DEF Beside, clusterOnlyVars
<1> OneHolder'
  BY <1>1, <1>2 DEF OneHolder, PresentClusters
<1>3. SUFFICES ASSUME profile' = "ours" PROVE \E p \in Procs : Attends(p)'
  BY <1>2 DEF Attendance, Attends
<1>4. CASE profile = "ours"
  <2>1. PICK p \in Procs : Attends(p)
    BY <1>4, AttendanceParts
  <2>2. ASSUME NEW c \in Clusters PROVE Attended(p, c)'
    BY <1>2, <2>1 DEF Attends, Attended
  <2> QED BY <2>2 DEF Attends
<1>5. CASE profile # "ours"
  <2>1. PICK p \in Procs : TRUE
    OBVIOUS
  <2>2. \A c \in PresentClusters : ObjectName[c] \in queue'[p]
    BY <1>3, <1>5 DEF Beside, ClustersForProfile
  <2>3. ASSUME NEW c \in Clusters PROVE Attended(p, c)'
    BY <1>2, <2>2 DEF Attended, PresentClusters
  <2> QED BY <2>3 DEF Attends
<1> QED BY <1>4, <1>5

----------------------------------------------------------------------------
(* What is proved of the cluster controller by itself holds in the provider. *)

\* The types of the ProviderConfig controller, for the steps below.
LEMMA ConfigTypes == Config!Progress => Config!TypeOK
BY DEF Config!Progress

\* What a pass over a Cluster has seen stays until it acts on it, whatever the
\* ProviderConfig controller does to the profile meanwhile.
THEOREM ReadinessInProvider == ProviderSpec => []Readiness
<1>1. ProviderSystemInit => Readiness
  BY ReadinessInit DEF ProviderSystemInit
<1>2. Readiness /\ Config!TypeOK' /\ [ProviderNext]_allVars => Readiness'
  BY StepsOfClusters, ReadinessStep, BesideSeen
<1> QED BY <1>1, <1>2, ConfigTypes, ComposedProgress, PTL DEF ProviderSpec

\* In the provider, a live Cluster in phase Ready whose name no other one had
\* before it is usable, with any number of processes (publishAccess,
\* commitStatus).
THEOREM ReadyInProvider == ProviderSpec => []UnsharedReadyMeansUsable
<1>1. Readiness => UnsharedReadyMeansUsable
  BY DEF Readiness
<1> QED BY <1>1, ReadinessInProvider, PTL

\* In the provider, a Cluster keeps its slice until the object is gone, with any
\* number of processes (ensureSubnet).
THEOREM SliceKeptInProvider == ProviderSpec => SliceIsKept
<1> DEFINE Known == \A q \in Procs : KnowsSlice(q)
<1>1. ProviderSystemInit => Known
  BY DEF ProviderSystemInit, Init, KnowsSlice, IdleWorker
<1>2. Readiness /\ Known /\ [ProviderNext]_allVars => Known'
  <2>1. Beside /\ Known => Known'
    BY DEF Beside, clusterOnlyVars, KnowsSlice
  <2> QED BY <2>1, StepsOfClusters, SliceStep
<1>3. Readiness /\ Known /\ [ProviderNext]_allVars => [\A c \in Clusters : Keeps(c)]_vars
  <2> SUFFICES ASSUME Readiness, Known, [ProviderNext]_allVars
               PROVE  \A c \in Clusters : Keeps(c)
    OBVIOUS
  <2>1. CASE Beside
    BY <2>1 DEF Beside, clusterOnlyVars, Keeps
  <2> QED BY <2>1, StepsOfClusters, SliceStays DEF KnowsSlice, Readiness
<1> QED BY <1>1, <1>2, <1>3, ReadinessInProvider, PTL DEF ProviderSpec, SliceIsKept, Keeps

\* In the provider, when both controllers rest, every Cluster is as it should be,
\* with any number of processes and whatever order profile and Clusters appeared
\* in (clustersForProfile).
THEOREM NoWakeupLostInProvider ==
    ASSUME Procs # {}
    PROVE  ProviderSpec => []QuiescentMeansSettled
<1>1. ProviderSystemInit => Attendance
  BY AttendanceInit DEF ProviderSystemInit
<1>2. Attendance /\ Config!TypeOK' /\ [ProviderNext]_allVars => Attendance'
  <2> SUFFICES ASSUME Attendance, Config!TypeOK', [ProviderNext]_allVars
               PROVE  Attendance'
    OBVIOUS
  <2>1. CASE [Next]_vars /\ profile' = profile
    <3>1. TypeOK /\ TypeOK' /\ OneHolder /\ OneHolder'
      BY <2>1, TypeStep, OneHolderStep DEF Attendance
    <3>2. ASSUME profile' = "ours" PROVE \E p \in Procs : Attends(p)'
      BY <2>1, <3>1, <3>2, AttendanceParts, GoesOnAttending
    <3> QED BY <3>1, <3>2 DEF Attendance, Attends
  <2> QED BY <2>1, StepsOfClusters, BesideAttended
<1> QED BY <1>1, <1>2, ConfigTypes, ComposedProgress, AttendanceSettles, PTL
        DEF ProviderSpec

\* In the provider with one process, every pass over a Cluster may rely on the same
\* as without the ProviderConfig controller.
THEOREM OwnershipInProvider ==
    ASSUME SingleProcess
    PROVE  ProviderSpec => []Ownership
<1>1. ProviderSystemInit => Ownership
  BY OwnershipInit DEF ProviderSystemInit
<1>2. Ownership /\ Config!TypeOK' /\ [ProviderNext]_allVars => Ownership'
  BY StepsOfClusters, OwnershipStep, BesideOwned
<1> QED BY <1>1, <1>2, ConfigTypes, ComposedProgress, PTL DEF ProviderSpec

\* In the provider with one process, no two k0s clusters announce addresses of
\* the same slice (handleDeletion).
THEOREM DistinctPoolsInProvider ==
    ASSUME SingleProcess
    PROVE  ProviderSpec => []PoolsDisjoint
BY PoolsApart, OwnershipInProvider, PTL

\* In the provider with one process, a container is only taken away from a Cluster
\* that is to be deleted and that nobody else holds (handleDeletion).
THEOREM ForeignFirstInProvider ==
    ASSUME SingleProcess
    PROVE  ProviderSpec => ForeignFinalizersFirst
<1>1. Ownership /\ [ProviderNext]_allVars => [\A c \in Clusters : Removed(c)]_vars
  <2> SUFFICES ASSUME Ownership, [ProviderNext]_allVars, NEW c \in Clusters
               PROVE  Removed(c)
    OBVIOUS
  <2>1. CASE Beside
    BY <2>1 DEF Beside, clusterOnlyVars, Removed
  <2> QED BY <2>1, StepsOfClusters, RemovedInOrder
<1> QED BY <1>1, OwnershipInProvider, PTL
        DEF ProviderSpec, ForeignFinalizersFirst, Removed
===============================================================================
