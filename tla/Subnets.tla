------------------------------ MODULE Subnets ------------------------------
(***************************************************************************)
(* pkg/k0s/networking.go: how a slice of the docker network is computed    *)
(* from what docker and the Cluster annotations say.  K0sProvider names a  *)
(* slice by its third octet; this module has the addresses, the masks and  *)
(* the texts that do not parse.                                            *)
(***************************************************************************)
EXTENDS Integers, Sequences, FiniteSets

CONSTANTS
    FirstOctet, LastOctet,  \* the range of third octets handed out (200, 255)
    NumSlots,               \* how many Clusters there may be
    Networks,               \* what docker may report as the network's IPAM configuration
    Handwritten             \* annotations somebody may write by hand

ASSUME SlotsAssumption == NumSlots \in Nat
ASSUME OctetAssumption ==
    /\ FirstOctet \in Nat /\ LastOctet \in Nat
    /\ FirstOctet <= LastOctet /\ LastOctet < 256

\* A CIDR text: an IPv4 one has its four bytes and its mask; an IPv6 one and
\* one that does not parse are all alike.
Byte == 0 .. 255
CIDRText == [form: {"v4", "v6", "bad"}, ip: [1 .. 4 -> Byte], ones: 0 .. 32]

ASSUME TextAssumption == Networks \subseteq Seq(CIDRText) /\ Handwritten \subseteq CIDRText

\* The Clusters, in the order the API server lists them.
Slots == 1 .. NumSlots

VARIABLES
    ipam,        \* the docker network's IPAM configuration, a sequence of CIDRs
    annotation,  \* each Cluster's assigned-subnet annotation
    given        \* the Clusters whose annotation the provider wrote

vars == <<ipam, annotation, given>>

\* "none": no annotation; "absent": no such Cluster; "error": no answer.
CIDR(ip, ones) == [form |-> "v4", ip |-> ip, ones |-> ones]
NoIP == <<0, 0, 0, 0>>
Other(form) == [form |-> form, ip |-> NoIP, ones |-> 0]
NoAnnotation == Other("none")
NoCluster == Other("absent")

Error == Other("error")

----------------------------------------------------------------------------
(* Addresses *)

\* How many of the byte's eight bits a mask of ones bits covers.
BitsOf(i, ones) ==
    LET k == ones - 8 * (i - 1) IN IF k < 0 THEN 0 ELSE IF k > 8 THEN 8 ELSE k

Masked(ip, ones) ==
    [i \in 1 .. 4 |-> ip[i] - (ip[i] % (2 ^ (8 - BitsOf(i, ones))))]

\* net.ParseCIDR returns the network: the host bits of the text are dropped.
Parsed(cidr) == [cidr EXCEPT !.ip = Masked(@, cidr.ones)]

\* The address ranges of two networks have an address in common.
Overlap(a, b) ==
    LET ones == IF a.ones < b.ones THEN a.ones ELSE b.ones
    IN  Masked(a.ip, ones) = Masked(b.ip, ones)

----------------------------------------------------------------------------
(* The functions of networking.go.  A result is a network or Error. *)

\* Where a loop over the positions or offsets in S ends first.
Least(S) == CHOOSE x \in S : \A y \in S : x <= y

\* The first IPv4 entry, unless an entry before it does not parse.
NetworkSubnet(config) ==
    LET stops == {i \in DOMAIN config : config[i].form \in {"v4", "bad"}}
    IN  IF stops = {} THEN Error
        ELSE LET first == config[Least(stops)]
             IN  IF first.form = "v4" THEN Parsed(first) ELSE Error

\* The third byte is replaced; byte(offset) keeps the low eight bits.
CalculateV4Subnet(input, offset) ==
    IF input.ones \in {8, 16}
    THEN CIDR([input.ip EXCEPT ![3] = offset % 256], 24)
    ELSE Error

\* Mutant: the annotation's host bits are compared too.
VerdictUnmasked(net, list) ==
    LET decides == {i \in DOMAIN list : list[i].form = "bad" \/
                        (list[i].form = "v4" /\ list[i].ip = net.ip)}
    IN  IF decides = {} THEN "free" ELSE "taken"

\* Mutant: the loop returns after the first Cluster.
VerdictOfFirst(net, list) ==
    IF DOMAIN list # {} /\ LET c == list[Least(DOMAIN list)]
                           IN  c.form = "v4" /\ Parsed(c).ip = net.ip
    THEN "taken" ELSE "free"

\* Mutant: an annotation that does not parse is passed over.
VerdictLenient(net, list) ==
    IF \E i \in DOMAIN list : list[i].form = "v4" /\ Parsed(list[i]).ip = net.ip
    THEN "taken" ELSE "free"

\* The list is gone through until an annotation decides: "taken" by one whose
\* network address is the same (its mask is not looked at), "error" by one that
\* does not parse.
IsIPNetTaken(net, list) ==
    LET decides == {i \in DOMAIN list : list[i].form = "bad" \/
                        (list[i].form = "v4" /\ Parsed(list[i]).ip = net.ip)}
    IN  IF decides = {} THEN "free"
        ELSE IF list[Least(decides)].form = "bad" THEN "error" ELSE "taken"

\* The first offset whose slice is not taken ends the search.
NextAvailableLBNetwork(config, list) ==
    LET docker == NetworkSubnet(config)
        Slice(o) == CalculateV4Subnet(docker, o)
        ends == {o \in FirstOctet .. LastOctet : IsIPNetTaken(Slice(o), list) # "taken"}
    IN  IF docker = Error \/ Slice(FirstOctet) = Error \/ ends = {} THEN Error
        ELSE LET slice == Slice(Least(ends))
             IN  IF IsIPNetTaken(slice, list) = "free" THEN slice ELSE Error

\* SubnetFromCluster, for a Cluster that has a readable annotation.
SubnetFromCluster(i) == Parsed(annotation[i])

----------------------------------------------------------------------------
(* Clusters come and go, get a slice from ensureSubnet, or one by hand. *)

Present(i) == annotation[i].form # "absent"

\* The Clusters there are, in their order.
Listed == [i \in {j \in Slots : Present(j)} |-> annotation[i]]

Init ==
    /\ ipam \in Networks
    /\ annotation = [i \in Slots |-> NoCluster]
    /\ given = {}

Create(i) ==
    /\ ~Present(i)
    /\ \E a \in Handwritten \cup {NoAnnotation} :
           annotation' = [annotation EXCEPT ![i] = a]
    /\ UNCHANGED <<ipam, given>>

Delete(i) ==
    /\ Present(i)
    /\ annotation' = [annotation EXCEPT ![i] = NoCluster]
    /\ given' = given \ {i}
    /\ UNCHANGED ipam

\* ensureSubnet: an annotation that is there is kept; the slice is persisted
\* as its text.  An error leaves everything as it is.
EnsureSubnet(i) ==
    /\ annotation[i].form = "none"
    /\ NextAvailableLBNetwork(ipam, Listed) # Error
    /\ annotation' = [annotation EXCEPT ![i] = NextAvailableLBNetwork(ipam, Listed)]
    /\ given' = given \cup {i}
    /\ UNCHANGED ipam

\* The docker network is removed and created again with other addresses.
RecreateNetwork ==
    /\ ipam' \in Networks \ {ipam}
    /\ UNCHANGED <<annotation, given>>

Next == (\E i \in Slots : Create(i) \/ Delete(i) \/ EnsureSubnet(i)) \/ RecreateNetwork

Spec == Init /\ [][Next]_vars

----------------------------------------------------------------------------
(* Properties *)

Readable(i) == annotation[i].form = "v4"

\* The type invariant, and why GivenDisjoint holds: what was handed out is a /24
\* whose text is that of its network, and no two of these are the same.
Handed ==
    /\ ipam \in Networks
    /\ annotation \in [Slots -> CIDRText \cup {NoAnnotation, NoCluster}]
    /\ given \subseteq Slots
    /\ \A i \in given : Readable(i) /\ annotation[i].ones = 24 /\ annotation[i].ip[4] = 0
    /\ \A i, j \in given : annotation[i].ip = annotation[j].ip => i = j

\* The slices the provider handed out never overlap, even when the docker
\* network was recreated in between.
GivenDisjoint ==
    \A i, j \in given : i = j \/ ~Overlap(SubnetFromCluster(i), SubnetFromCluster(j))

\* A slice is handed out inside the docker network, and clear of every /24 that
\* a Cluster already holds, also one written by hand with host bits set.
HandsOutFree ==
    [][\A i \in given' \ given :
           /\ Overlap(SubnetFromCluster(i)', NetworkSubnet(ipam))
           /\ \A j \in Slots \ {i} : Readable(j) /\ annotation[j].ones = 24 =>
                  ~Overlap(SubnetFromCluster(i)', SubnetFromCluster(j))]_vars

\* The search gives an answer exactly when docker's network is supported, every
\* annotation can be read and fewer slices than there are are held: one
\* unreadable annotation keeps every other Cluster from getting a slice.
FailsExactlyWhen ==
    LET docker == NetworkSubnet(ipam)
        held == {o \in FirstOctet .. LastOctet : \E i \in Slots :
                    /\ Readable(i)
                    /\ SubnetFromCluster(i).ip = [docker.ip EXCEPT ![3] = o]}
    IN  (NextAvailableLBNetwork(ipam, Listed) # Error) <=>
            /\ docker # Error /\ docker.ones \in {8, 16}
            /\ \A i \in Slots : annotation[i].form # "bad"
            /\ Cardinality(held) < LastOctet - FirstOctet + 1
=============================================================================
