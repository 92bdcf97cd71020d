---------------------------- MODULE PlatformAPI ----------------------------
(***************************************************************************)
(* The Cluster object as the provider reads and writes it on the platform  *)
(* API server.  There is no state here: these are the values of the object *)
(* and the operators that say what a write, a patch and the decoding of a  *)
(* response do to them.  The API server itself is outside the repository;  *)
(* what is stated here is what the code in src/ relies on.                 *)
(***************************************************************************)
EXTENDS Naturals

CONSTANTS
    SubnetMin,   \* first third octet handed out as a metallb slice (code: 200)
    SubnetMax    \* last one (code: 255)

ASSUME SliceAssumption ==
    SubnetMin \in Nat /\ SubnetMax \in Nat /\ 0 < SubnetMin /\ SubnetMin <= SubnetMax

\* A slice is named by the third octet of its /24; 0 stands for an object
\* without the assigned-subnet annotation.
Slices == SubnetMin .. SubnetMax
NoSubnet == 0

\* "" is an absent operation annotation, an unset phase, a missing condition.
Operations == {"", "ignore", "reconcile"}
Phases == {"", "Progressing", "Ready", "Terminating"}
ConditionStatus == {"", "True", "False"}

Status == [phase: Phases, k0s: ConditionStatus, metallb: ConditionStatus,
           ready: ConditionStatus, provider: BOOLEAN, endpoints: BOOLEAN]

EmptyStatus == [phase |-> "", k0s |-> "", metallb |-> "", ready |-> "",
                provider |-> FALSE, endpoints |-> FALSE]

\* finalizer: the provider's own; foreign: at least one finalizer of another
\* controller; shown: the display labels and annotation are up to date.
Object == [life: {"none", "live", "deleting", "gone"}, finalizer: BOOLEAN,
           foreign: BOOLEAN, subnet: Slices \cup {NoSubnet}, op: Operations,
           shown: BOOLEAN, status: Status]

NoObject == [life |-> "none", finalizer |-> FALSE, foreign |-> FALSE,
             subnet |-> NoSubnet, op |-> "", shown |-> FALSE,
             status |-> EmptyStatus]
GoneObject == [NoObject EXCEPT !.life = "gone"]

Present(o) == o.life \in {"live", "deleting"}

\* An object being deleted disappears with its last finalizer.
Collected(o) ==
    IF o.life = "deleting" /\ ~o.finalizer /\ ~o.foreign THEN GoneObject ELSE o

Conditions(s) == <<s.k0s, s.metallb, s.ready>>

\* The response of a write is decoded into the object the caller passed: a
\* field the response carries replaces the one in memory, a field it leaves
\* out stays.  The conditions are one list, so they are replaced together, and
\* so are the finalizers.
DecodedStatus(m, s) ==
    LET listed == IF Conditions(s) = <<"", "", "">> THEN m ELSE s
    IN  [phase |-> IF s.phase = "" THEN m.phase ELSE s.phase,
         k0s |-> listed.k0s, metallb |-> listed.metallb, ready |-> listed.ready,
         provider |-> m.provider \/ s.provider,
         endpoints |-> m.endpoints \/ s.endpoints]

Decoded(m, o) ==
    LET listed == IF o.finalizer \/ o.foreign THEN o ELSE m
    IN  [o EXCEPT !.life = IF m.life = "deleting" THEN m.life ELSE o.life,
                  !.finalizer = listed.finalizer, !.foreign = listed.foreign,
                  !.subnet = IF o.subnet = NoSubnet THEN m.subnet ELSE o.subnet,
                  !.status = DecodedStatus(m.status, o.status)]

\* A merge patch from old to new carries only what differs between the two;
\* a change of any condition carries the whole list of them.
PatchedStatus(s, old, new) ==
    LET listed == IF Conditions(new) # Conditions(old) THEN new ELSE s
        Field(n, o, v) == IF n # o THEN n ELSE v
    IN  [phase |-> Field(new.phase, old.phase, s.phase),
         k0s |-> listed.k0s, metallb |-> listed.metallb, ready |-> listed.ready,
         provider |-> Field(new.provider, old.provider, s.provider),
         endpoints |-> Field(new.endpoints, old.endpoints, s.endpoints)]
=============================================================================
