------------------------------- MODULE Provider -------------------------------
(***************************************************************************)
(* The provider process with the two controllers that share a              *)
(* ClusterProfile: the ProviderConfig controller publishes it, the cluster *)
(* controller obeys it.  Both run in the same processes and die together.  *)
(*                                                                         *)
(* Whoever writes the profile, the watch of the cluster controller sees    *)
(* it; SetProfile of ClusterController, which stands for all of them, is   *)
(* replaced by the steps of ProviderConfigController.                      *)
(***************************************************************************)
EXTENDS ClusterController

CONSTANTS
    Configs,         \* ProviderConfigs that have the profile's name, by UID
    ConfigFaults,    \* kinds of fault that may happen to the ProviderConfig controller
    MaxConfigEdits   \* edits of ProviderConfigs and of the profile

VARIABLES
    configs, owner,             \* as in ProviderConfigController
    configQueue, configWorker   \* its workqueue and reconcile pass

Config == INSTANCE ProviderConfigController
          WITH queue <- configQueue, worker <- configWorker,
               Faults <- ConfigFaults, MaxEdits <- MaxConfigEdits

ASSUME CompositionAssumption == Config!ConfigAssumption

clusterOnlyVars == <<objects, worker, containers, network>>
configOnlyVars == <<configs, owner, configQueue, configWorker>>
allVars == <<vars, configOnlyVars>>

\* Mutant: the profile is not watched.
ClustersForProfileUnwatched == queue' = queue

\* The watch maps a write of the profile to the Clusters that use it.
ClustersForProfile ==
    queue' = IF profile' = profile /\ owner' = owner THEN queue
             ELSE [p \in Procs |-> queue[p] \cup {ObjectName[c] : c \in PresentClusters}]

ProviderSystemInit == Init /\ Config!Init

ClusterPass(p) == Pass(p) /\ UNCHANGED configOnlyVars
ClusterDequeue(p, c) == Dequeue(p, c) /\ UNCHANGED configOnlyVars

ConfigPass(p) == Config!Pass(p) /\ ClustersForProfile /\ UNCHANGED clusterOnlyVars
ConfigDequeue(p) == Config!Dequeue(p) /\ UNCHANGED <<queue, clusterOnlyVars>>

\* Both workers and both workqueues are lost.
Restart(p) == Crash(p) /\ Config!Crash(p)

Environment ==
    \/ \E c \in Clusters : UserStep(c) /\ UNCHANGED configOnlyVars
    \/ \E n \in Names : DockerStep(n) /\ UNCHANGED configOnlyVars
    \/ \E c \in Configs : Config!UserStep(c) /\ UNCHANGED <<queue, clusterOnlyVars>>
    \/ Config!ProfileStep /\ ClustersForProfile /\ UNCHANGED clusterOnlyVars

ProviderNext ==
    \/ \E p \in Procs :
           \/ ClusterPass(p) \/ \E c \in Clusters : ClusterDequeue(p, c)
           \/ ConfigPass(p) \/ ConfigDequeue(p)
           \/ Restart(p)
    \/ Environment

ProviderSpec == ProviderSystemInit /\ [][ProviderNext]_allVars

\* As in the two modules; each controller has a worker of its own.
FairProviderSpec ==
    /\ ProviderSpec
    /\ \A p \in Procs :
           /\ WF_allVars(ClusterPass(p))
           /\ \A c \in Clusters : SF_allVars(ClusterDequeue(p, c))
           /\ WF_allVars(ConfigPass(p)) /\ WF_allVars(ConfigDequeue(p))
    /\ \A n \in Names : WF_allVars(DockerStep(n) /\ UNCHANGED configOnlyVars)

----------------------------------------------------------------------------
(* Properties *)

\* TypeOK of ProviderConfigController.
ConfigTypeOK == Config!TypeOK

\* No process rests while a ProviderConfig is not settled, also with the cluster
\* controller at work and dying with it (ProviderConfigController).
RestingMeansSettled == Config!RestingMeansSettled

\* The provider never takes a profile away from another controller
\* (ProviderConfigController).
NeverTakenOver == Config!NeverTakenOver

\* A ProviderConfig that is asked for, and a profile nobody else keeps.
Offered == /\ Config!Named # {} /\ owner # Config!Foreign
           /\ \A c \in Config!Named : configs[c].life = "live" /\ configs[c].op # "ignore"

\* A ProviderConfig is enough: with one in place for good a Cluster that is
\* left alone becomes usable and Ready, whatever order the two were created in and
\* whatever happened to the profile meanwhile.
EventuallyServed ==
    \A c \in Clusters :
        /\ <>[]Offered
        /\ <>[](/\ objects[c].life = "live" /\ objects[c].op # "ignore"
                /\ ~NeverStarted(c))
        => <>[](Usable(c) /\ objects[c].status.phase = "Ready" /\ Config!Settled)

\* A Cluster that was stuck in deletion because its ProviderConfig went first
\* is released when another one takes the place (responsible).
EventuallyReleased ==
    \A c \in Clusters :
        <>[]Offered /\ <>[](objects[c].op # "ignore" /\ ~objects[c].foreign) =>
            (objects[c].life = "deleting" ~> objects[c].life = "gone")
=============================================================================
