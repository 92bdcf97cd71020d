---------------------------- MODULE SubnetsProofs ----------------------------
(***************************************************************************)
(* The slices handed out never overlap, are part of the docker network and *)
(* clear of every /24 somebody wrote by hand, and the search fails only    *)
(* when it has to: for every range of octets, every number of Clusters and *)
(* whatever docker reports and people write into the annotation.           *)
(***************************************************************************)
EXTENDS Subnets, FiniteSetTheorems, WellFoundedInduction, TLAPS

----------------------------------------------------------------------------
(* Positions and addresses *)

\* A set of naturals that is not empty has a least element (Least).
LEMMA LeastExists ==
    ASSUME NEW S \in SUBSET Nat, S # {}
    PROVE  Least(S) \in S /\ \A y \in S : Least(S) <= y
<1> DEFINE Less == {ss \in Nat \X Nat : ss[1] < ss[2]}
<1>1. IsWellFoundedOn(Less, Nat)
  BY NatLessThanWellFounded DEF OpToRel
<1>2. \A x, y \in S : <<y, x>> \in Less <=> y < x
  OBVIOUS
<1> HIDE DEF Less
<1>3. PICK x \in S : \A y \in S : <<y, x>> \notin Less
  BY <1>1, WFMin
<1>4. \A y \in S : x <= y
  <2> TAKE y \in S
  <2>1. ~(y < x) /\ x \in Nat /\ y \in Nat
    BY <1>2, <1>3
  <2> QED BY <2>1
<1> QED BY <1>4 DEF Least

Address == [1 .. 4 -> Byte]

\* The masks that matter keep whole bytes (Masked).
LEMMA WholeBytes ==
    ASSUME NEW ip \in Address
    PROVE  /\ Masked(ip, 24) = [ip EXCEPT ![4] = 0]
           /\ Masked(ip, 16) = [ip EXCEPT ![3] = 0, ![4] = 0]
           /\ Masked(ip, 8) = [ip EXCEPT ![2] = 0, ![3] = 0, ![4] = 0]
<1>1. \A x \in Byte : x - (x % 256) = 0 /\ x - (x % 1) = x
  BY DEF Byte
<1>2. 2 ^ (8 - 0) = 256 /\ 2 ^ (8 - 8) = 1
  OBVIOUS
<1>3. /\ BitsOf(1, 24) = 8 /\ BitsOf(2, 24) = 8 /\ BitsOf(3, 24) = 8 /\ BitsOf(4, 24) = 0
      /\ BitsOf(1, 16) = 8 /\ BitsOf(2, 16) = 8 /\ BitsOf(3, 16) = 0 /\ BitsOf(4, 16) = 0
      /\ BitsOf(1, 8) = 8 /\ BitsOf(2, 8) = 0 /\ BitsOf(3, 8) = 0 /\ BitsOf(4, 8) = 0
  BY DEF BitsOf
<1>4. \A i \in 1 .. 4 : ip[i] \in Byte /\ (i = 1 \/ i = 2 \/ i = 3 \/ i = 4)
  BY DEF Address
<1>5. ASSUME NEW i \in 1 .. 4, NEW ones \in {8, 16, 24}, BitsOf(i, ones) \in {0, 8}
      PROVE  Masked(ip, ones)[i] = IF BitsOf(i, ones) = 8 THEN ip[i] ELSE 0
  <2>1. Masked(ip, ones)[i] = ip[i] - (ip[i] % (2 ^ (8 - BitsOf(i, ones))))
    BY DEF Masked
  <2>2. CASE BitsOf(i, ones) = 8
    <3>1. 2 ^ (8 - BitsOf(i, ones)) = 1
      BY <1>2, <2>2
    <3> QED BY <1>1, <1>4, <2>1, <2>2, <3>1
  <2>3. CASE BitsOf(i, ones) = 0
    <3>1. 2 ^ (8 - BitsOf(i, ones)) = 256
      BY <1>2, <2>3
    <3> QED BY <1>1, <1>4, <2>1, <2>3, <3>1
  <2> QED BY <1>5, <2>2, <2>3
<1>6. \A ones \in {8, 16, 24} : Masked(ip, ones) = [i \in 1 .. 4 |-> Masked(ip, ones)[i]]
  BY DEF Masked
<1>7. /\ Masked(ip, 24)[1] = ip[1] /\ Masked(ip, 24)[2] = ip[2]
      /\ Masked(ip, 24)[3] = ip[3] /\ Masked(ip, 24)[4] = 0
  BY <1>3, <1>5
<1>8. /\ Masked(ip, 16)[1] = ip[1] /\ Masked(ip, 16)[2] = ip[2]
      /\ Masked(ip, 16)[3] = 0 /\ Masked(ip, 16)[4] = 0
  BY <1>3, <1>5
<1>9. /\ Masked(ip, 8)[1] = ip[1] /\ Masked(ip, 8)[2] = 0
      /\ Masked(ip, 8)[3] = 0 /\ Masked(ip, 8)[4] = 0
  BY <1>3, <1>5
<1> QED BY <1>4, <1>6, <1>7, <1>8, <1>9 DEF Address

\* A text as ensureSubnet writes it is its own network (Parsed).
LEMMA ParsedSlice ==
    ASSUME NEW a \in CIDRText, a.ones = 24, a.ip[4] = 0
    PROVE  Parsed(a) = a /\ Masked(a.ip, 24) = a.ip
<1>1. a.ip \in Address /\ DOMAIN a.ip = 1 .. 4
  BY DEF CIDRText, Address
<1>2. [a.ip EXCEPT ![4] = 0] = a.ip
  BY <1>1 DEF Address
<1>3. Masked(a.ip, 24) = a.ip
  BY <1>1, <1>2, WholeBytes
<1>4. [a EXCEPT !.ip = a.ip] = a
  BY DEF CIDRText
<1> QED BY <1>3, <1>4 DEF Parsed

----------------------------------------------------------------------------
(* What the functions of networking.go return *)

\* A docker network the search can work with.
Supported(docker) == docker # Error /\ docker.ones \in {8, 16}

\* A supported network is an address with its host bits zero (NetworkSubnet).
LEMMA DockerNetwork ==
    ASSUME NEW config \in Seq(CIDRText), Supported(NetworkSubnet(config))
    PROVE  LET docker == NetworkSubnet(config)
           IN  /\ docker.ip \in Address /\ docker.ip[4] = 0
               /\ Masked(docker.ip, docker.ones) = docker.ip
<1> DEFINE docker == NetworkSubnet(config)
           stops == {i \in DOMAIN config : config[i].form \in {"v4", "bad"}}
           first == config[Least(stops)]
<1>1. stops # {} /\ stops \in SUBSET Nat
  BY DEF NetworkSubnet, Supported
<1>2. first \in CIDRText
  BY <1>1, LeastExists
<1>3. docker = Parsed(first)
  BY <1>1 DEF NetworkSubnet, Supported
<1> HIDE DEF stops, first, docker
<1>4. docker.ip = Masked(first.ip, first.ones) /\ docker.ones = first.ones
  BY <1>2, <1>3 DEF Parsed, CIDRText
<1>5. first.ip \in Address /\ first.ones \in {8, 16}
  BY <1>2, <1>4 DEF CIDRText, Address, Supported, docker
<1>6. /\ docker.ip \in Address /\ docker.ip[4] = 0
      /\ Masked(docker.ip, docker.ones) = docker.ip
  <2> DEFINE ip == first.ip
  <2>1. 0 \in Byte /\ ip \in Address
    BY <1>5 DEF Byte
  <2> HIDE DEF ip
  <2>2. CASE docker.ones = 16
    <3>1. docker.ip = [ip EXCEPT ![3] = 0, ![4] = 0]
      BY <1>4, <2>1, <2>2, WholeBytes DEF ip
    <3>2. docker.ip \in Address /\ docker.ip[3] = 0 /\ docker.ip[4] = 0
      BY <2>1, <3>1 DEF Address
    <3>3. [docker.ip EXCEPT ![3] = 0, ![4] = 0] = docker.ip
      BY <3>2 DEF Address
    <3> QED BY <2>2, <3>2, <3>3, WholeBytes
  <2>3. CASE docker.ones = 8
    <3>1. docker.ip = [ip EXCEPT ![2] = 0, ![3] = 0, ![4] = 0]
      BY <1>4, <2>1, <2>3, WholeBytes DEF ip
    <3>2. docker.ip \in Address /\ docker.ip[2] = 0 /\ docker.ip[3] = 0 /\ docker.ip[4] = 0
      BY <2>1, <3>1 DEF Address
    <3>3. [docker.ip EXCEPT ![2] = 0, ![3] = 0, ![4] = 0] = docker.ip
      BY <3>2 DEF Address
    <3> QED BY <2>3, <3>2, <3>3, WholeBytes
  <2> QED BY <1>4, <1>5, <2>2, <2>3
<1> QED BY <1>6 DEF docker

\* No offset of the range is cut off to a byte, and a slice is a /24 whose text is
\* its network (CalculateV4Subnet).
LEMMA SliceOfNetwork ==
    ASSUME NEW config \in Seq(CIDRText), Supported(NetworkSubnet(config)),
           NEW o \in FirstOctet .. LastOctet
    PROVE  LET docker == NetworkSubnet(config)
               slice == CalculateV4Subnet(docker, o)
           IN  /\ slice = CIDR([docker.ip EXCEPT ![3] = o], 24)
               /\ slice \in CIDRText /\ slice # Error
               /\ slice.form = "v4" /\ slice.ones = 24 /\ slice.ip[4] = 0
               /\ slice.ip = [docker.ip EXCEPT ![3] = o]
<1> DEFINE docker == NetworkSubnet(config)
<1>1. o \in Byte /\ o % 256 = o
  BY OctetAssumption DEF Byte
<1>2. docker.ip \in Address /\ docker.ip[4] = 0 /\ docker.ones \in {8, 16}
  BY DockerNetwork DEF Supported
<1> HIDE DEF docker
<1>3. CalculateV4Subnet(docker, o) = CIDR([docker.ip EXCEPT ![3] = o], 24)
  BY <1>1, <1>2 DEF CalculateV4Subnet
<1>4. [docker.ip EXCEPT ![3] = o] \in Address /\ [docker.ip EXCEPT ![3] = o][4] = 0
  BY <1>1, <1>2 DEF Address
<1> QED BY <1>3, <1>4 DEF docker, CIDR, CIDRText, Error, Other, Address

\* Without an unreadable annotation a slice is taken when one has its address;
\* with one it is never free (IsIPNetTaken).
LEMMA Verdict ==
    ASSUME NEW list, DOMAIN list \subseteq Slots, NEW net
    PROVE  /\ IsIPNetTaken(net, list) \in {"free", "taken", "error"}
           /\ IsIPNetTaken(net, list) = "free" <=>
                  \A i \in DOMAIN list : /\ list[i].form # "bad"
                                         /\ list[i].form = "v4" => Parsed(list[i]).ip # net.ip
           /\ (\A i \in DOMAIN list : list[i].form # "bad") =>
                  IsIPNetTaken(net, list) # "error"
<1> DEFINE decides == {i \in DOMAIN list : list[i].form = "bad" \/
                           (list[i].form = "v4" /\ Parsed(list[i]).ip = net.ip)}
<1>1. IsIPNetTaken(net, list) = IF decides = {} THEN "free"
          ELSE IF list[Least(decides)].form = "bad" THEN "error" ELSE "taken"
  BY DEF IsIPNetTaken
<1>2. decides # {} => Least(decides) \in DOMAIN list
  <2>1. decides \in SUBSET Nat
    BY SlotsAssumption DEF Slots
  <2> QED BY <2>1, LeastExists
<1> QED BY <1>1, <1>2

Octets == FirstOctet .. LastOctet

\* The search fails when the network cannot be worked with, an annotation cannot
\* be read or every slice is taken, and otherwise returns one that is free
\* (NextAvailableLBNetwork).
LEMMA SearchResult ==
    ASSUME NEW config \in Seq(CIDRText), NEW list, DOMAIN list \subseteq Slots
    PROVE  LET docker == NetworkSubnet(config)
               Slice(o) == CalculateV4Subnet(docker, o)
               result == NextAvailableLBNetwork(config, list)
           IN  /\ result # Error =>
                      /\ Supported(docker)
                      /\ \E o \in Octets : /\ result = Slice(o)
                                           /\ IsIPNetTaken(Slice(o), list) = "free"
               /\ /\ Supported(docker)
                  /\ \A i \in DOMAIN list : list[i].form # "bad"
                  /\ \E o \in Octets : IsIPNetTaken(Slice(o), list) # "taken"
                  => result # Error
<1> DEFINE docker == NetworkSubnet(config)
           Slice(o) == CalculateV4Subnet(docker, o)
           ends == {o \in Octets : IsIPNetTaken(Slice(o), list) # "taken"}
           result == NextAvailableLBNetwork(config, list)
<1>1. FirstOctet \in Octets /\ Octets \in SUBSET Nat
  BY OctetAssumption DEF Octets
<1>2. docker # Error => (Slice(FirstOctet) = Error <=> docker.ones \notin {8, 16})
  BY DEF CalculateV4Subnet, CIDR, Error, Other
<1>3. result = IF docker = Error \/ Slice(FirstOctet) = Error \/ ends = {} THEN Error
               ELSE IF IsIPNetTaken(Slice(Least(ends)), list) = "free"
                    THEN Slice(Least(ends)) ELSE Error
  BY DEF NextAvailableLBNetwork, Octets
<1>4. ends # {} => Least(ends) \in ends
  BY <1>1, LeastExists
<1>5. Supported(docker) => \A o \in Octets : Slice(o) # Error
  BY SliceOfNetwork DEF Octets
<1>6. (\A i \in DOMAIN list : list[i].form # "bad") =>
          \A o \in ends : IsIPNetTaken(Slice(o), list) = "free"
  BY Verdict
<1>7. ends # {} => Least(ends) \in Octets
  BY <1>4
<1> HIDE DEF docker, Slice, ends, result
<1>8. result # Error => /\ Supported(docker)
                        /\ \E o \in Octets : result = Slice(o) /\ IsIPNetTaken(Slice(o), list) = "free"
  BY <1>2, <1>3, <1>7 DEF Supported
<1>9. ASSUME Supported(docker), \A i \in DOMAIN list : list[i].form # "bad", ends # {}
      PROVE  result # Error
  BY <1>1, <1>2, <1>3, <1>4, <1>5, <1>6, <1>7, <1>9 DEF Supported
<1> QED BY <1>8, <1>9 DEF docker, Slice, ends, result

----------------------------------------------------------------------------
(* Handed is inductive *)

\* The text that ensureSubnet persists for Cluster i (EnsureSubnet): a slice of
\* docker's network, and of no other Cluster whose annotation can be read.
LEMMA NewSlice ==
    ASSUME Handed, NEW i \in Slots, EnsureSubnet(i)
    PROVE  LET docker == NetworkSubnet(ipam)
               new == annotation'[i]
           IN  /\ Supported(docker)
               /\ new \in CIDRText /\ new.form = "v4" /\ new.ones = 24 /\ new.ip[4] = 0
               /\ \E o \in Octets : new.ip = [docker.ip EXCEPT ![3] = o]
               /\ \A j \in Slots : Readable(j) => Parsed(annotation[j]).ip # new.ip
               /\ \A j \in Slots \ {i} : annotation'[j] = annotation[j]
<1> DEFINE docker == NetworkSubnet(ipam)
           new == NextAvailableLBNetwork(ipam, Listed)
<1>1. ipam \in Seq(CIDRText)
  BY TextAssumption DEF Handed
<1>2. DOMAIN Listed \subseteq Slots
  BY DEF Listed
<1>3. annotation'[i] = new /\ new # Error /\ \A j \in Slots \ {i} : annotation'[j] = annotation[j]
  BY DEF EnsureSubnet, Handed
<1>4. Supported(docker)
  BY <1>1, <1>2, <1>3, SearchResult
<1>5. PICK o \in Octets : /\ new = CalculateV4Subnet(docker, o)
                          /\ IsIPNetTaken(new, Listed) = "free"
  BY <1>1, <1>2, <1>3, SearchResult
<1>6. /\ new \in CIDRText /\ new.form = "v4" /\ new.ones = 24 /\ new.ip[4] = 0
      /\ new.ip = [docker.ip EXCEPT ![3] = o]
  BY <1>1, <1>4, <1>5, SliceOfNetwork DEF Octets
<1>7. \A j \in Slots : Readable(j) => j \in DOMAIN Listed /\ Listed[j] = annotation[j]
  BY DEF Listed, Present, Readable
<1>8. \A j \in Slots : Readable(j) => Parsed(annotation[j]).ip # new.ip
  BY <1>2, <1>5, <1>7, Verdict DEF Readable
<1> QED BY <1>3, <1>4, <1>6, <1>8

\* An annotation that can be read is a text.
LEMMA ReadableText ==
    ASSUME Handed, NEW i \in Slots, Readable(i)
    PROVE  annotation[i] \in CIDRText
BY DEF Handed, Readable, NoAnnotation, NoCluster, Other

\* Nothing is handed out in the beginning (Init).
LEMMA InitHanded == Init => Handed
BY DEF Init, Handed

\* Every step keeps what was handed out apart (Next).
LEMMA StepHanded == Handed /\ [Next]_vars => Handed'
<1> SUFFICES ASSUME Handed, [Next]_vars PROVE Handed'
  OBVIOUS
<1>1. ASSUME NEW i \in Slots, Create(i) PROVE Handed'
  <2>1. i \notin given
    BY <1>1 DEF Create, Present, Handed, Readable
  <2>2. annotation' \in [Slots -> CIDRText \cup {NoAnnotation, NoCluster}]
    BY <1>1, TextAssumption DEF Create, Handed
  <2>3. \A j \in given : annotation'[j] = annotation[j]
    BY <1>1, <2>1 DEF Create, Handed
  <2> QED BY <1>1, <2>2, <2>3 DEF Create, Handed, Readable
<1>2. ASSUME NEW i \in Slots, Delete(i) PROVE Handed'
  <2>1. \A j \in given' : j \in given /\ annotation'[j] = annotation[j]
    BY <1>2 DEF Delete, Handed
  <2>2. annotation' \in [Slots -> CIDRText \cup {NoAnnotation, NoCluster}]
    BY <1>2 DEF Delete, Handed
  <2> QED BY <1>2, <2>1, <2>2 DEF Delete, Handed, Readable
<1>3. ASSUME NEW i \in Slots, EnsureSubnet(i) PROVE Handed'
  <2>1. i \notin given
    BY <1>3 DEF EnsureSubnet, Handed, Readable
  <2>2. given' = given \cup {i} /\ ipam' = ipam
    BY <1>3 DEF EnsureSubnet
  <2>3. annotation' \in [Slots -> CIDRText \cup {NoAnnotation, NoCluster}]
    BY <1>3, NewSlice DEF EnsureSubnet, Handed
  <2>4. \A j \in given : annotation'[j] = annotation[j] /\ j \in Slots /\ j # i
    BY <1>3, <2>1, NewSlice DEF Handed
  <2>5. \A j \in given : Parsed(annotation[j]).ip = annotation[j].ip
    BY ParsedSlice, ReadableText DEF Handed
  <2>6. \A j \in given : annotation'[j].ip # annotation'[i].ip
    BY <1>3, <2>4, <2>5, NewSlice DEF Handed
  <2>7. annotation'[i].form = "v4" /\ annotation'[i].ones = 24 /\ annotation'[i].ip[4] = 0
    BY <1>3, NewSlice
  <2>8. \A j \in given' :
            annotation'[j].form = "v4" /\ annotation'[j].ones = 24 /\ annotation'[j].ip[4] = 0
    BY <2>2, <2>4, <2>7 DEF Handed, Readable
  <2>9. \A j, k \in given' : annotation'[j].ip = annotation'[k].ip => j = k
    BY <2>2, <2>4, <2>6 DEF Handed
  <2> QED BY <2>2, <2>3, <2>8, <2>9 DEF Handed, Readable
<1>4. CASE RecreateNetwork
  BY <1>4 DEF RecreateNetwork, Handed, Readable
<1>5. CASE UNCHANGED vars
  BY <1>5 DEF vars, Handed, Readable
<1> QED BY <1>1, <1>2, <1>3, <1>4, <1>5 DEF Next

----------------------------------------------------------------------------
(* The theorems *)

\* What was handed out is typed, readable and pairwise different, for every range
\* of octets, number of Clusters, docker network and hand-written annotation.
THEOREM HandedHolds == Spec => []Handed
BY InitHanded, StepHanded, PTL DEF Spec

\* No two slices the provider handed out have an address in common, not even when
\* the docker network was removed and created with others in between
\* (NextAvailableLBNetwork).
THEOREM SlicesNeverOverlap == Spec => []GivenDisjoint
<1>1. Handed => GivenDisjoint
  <2> SUFFICES ASSUME Handed, NEW i \in given, NEW j \in given,
                      Overlap(SubnetFromCluster(i), SubnetFromCluster(j))
               PROVE  i = j
    BY DEF GivenDisjoint
  <2>1. /\ Parsed(annotation[i]) = annotation[i] /\ Masked(annotation[i].ip, 24) = annotation[i].ip
        /\ Parsed(annotation[j]) = annotation[j] /\ Masked(annotation[j].ip, 24) = annotation[j].ip
    BY ParsedSlice, ReadableText DEF Handed
  <2>2. annotation[i].ip = annotation[j].ip
    BY <2>1 DEF Overlap, SubnetFromCluster, Handed
  <2> QED BY <2>2 DEF Handed
<1> QED BY <1>1, HandedHolds, PTL

\* A slice is handed out inside the docker network and clear of every /24 that a
\* Cluster holds, whoever wrote it (NextAvailableLBNetwork, ensureSubnet).
THEOREM HandedOutFree == Spec => HandsOutFree
<1>1. Handed /\ [Next]_vars =>
          [\A i \in given' \ given :
              /\ Overlap(SubnetFromCluster(i)', NetworkSubnet(ipam))
              /\ \A j \in Slots \ {i} : Readable(j) /\ annotation[j].ones = 24 =>
                     ~Overlap(SubnetFromCluster(i)', SubnetFromCluster(j))]_vars
  <2> SUFFICES ASSUME Handed, [Next]_vars, NEW i \in given', i \notin given
               PROVE  /\ Overlap(SubnetFromCluster(i)', NetworkSubnet(ipam))
                      /\ \A j \in Slots \ {i} : Readable(j) /\ annotation[j].ones = 24 =>
                             ~Overlap(SubnetFromCluster(i)', SubnetFromCluster(j))
    OBVIOUS
  <2> DEFINE docker == NetworkSubnet(ipam)
             new == annotation'[i]
  <2>1. i \in Slots /\ EnsureSubnet(i)
    BY DEF Next, vars, Create, Delete, EnsureSubnet, RecreateNetwork
  <2>2. /\ Supported(docker)
        /\ new \in CIDRText /\ new.form = "v4" /\ new.ones = 24 /\ new.ip[4] = 0
    BY <2>1, NewSlice
  <2>3. PICK o \in Octets : new.ip = [docker.ip EXCEPT ![3] = o]
    BY <2>1, NewSlice
  <2>4. Parsed(new) = new /\ Masked(new.ip, 24) = new.ip /\ SubnetFromCluster(i)' = new
    BY <2>2, ParsedSlice DEF SubnetFromCluster
  <2>5. Overlap(new, docker)
    <3>1. ipam \in Seq(CIDRText)
      BY TextAssumption DEF Handed
    <3>2. docker.ip \in Address /\ docker.ones \in {8, 16}
      BY <2>2, <3>1, DockerNetwork DEF Supported
    <3>3. new.ip \in Address
      BY <2>2 DEF CIDRText, Address
    <3> HIDE DEF docker, new
    <3>4. Masked(new.ip, docker.ones) = Masked(docker.ip, docker.ones)
      <4>1. [new.ip EXCEPT ![3] = 0, ![4] = 0] = [docker.ip EXCEPT ![3] = 0, ![4] = 0]
        BY <2>3, <3>2, <3>3 DEF Address
      <4>2. [new.ip EXCEPT ![2] = 0, ![3] = 0, ![4] = 0]
                = [docker.ip EXCEPT ![2] = 0, ![3] = 0, ![4] = 0]
        BY <2>3, <3>2, <3>3 DEF Address
      <4> QED BY <3>2, <3>3, <4>1, <4>2, WholeBytes
    <3> QED BY <2>2, <3>2, <3>4 DEF Overlap
  <2>6. ASSUME NEW j \in Slots \ {i}, Readable(j), annotation[j].ones = 24,
               Overlap(new, SubnetFromCluster(j))
        PROVE  FALSE
    <3> DEFINE held == Parsed(annotation[j])
    <3>1. annotation[j] \in CIDRText
      BY <2>6, ReadableText
    <3>2. held.ones = 24 /\ held.ip = Masked(annotation[j].ip, 24)
      BY <2>6, <3>1 DEF Parsed, CIDRText
    <3>3. annotation[j].ip \in Address
      BY <3>1 DEF CIDRText, Address
    <3>4. held.ip \in Address /\ held.ip[4] = 0
      <4>1. held.ip = [annotation[j].ip EXCEPT ![4] = 0]
        BY <3>2, <3>3, WholeBytes
      <4> HIDE DEF held
      <4> QED BY <3>3, <4>1 DEF Address, Byte
    <3>5. [held.ip EXCEPT ![4] = 0] = held.ip
      BY <3>4 DEF Address
    <3>6. Masked(held.ip, 24) = held.ip
      BY <3>4, <3>5, WholeBytes
    <3>7. new.ip = held.ip
      BY <2>2, <2>4, <2>6, <3>2, <3>6 DEF Overlap, SubnetFromCluster
    <3> QED BY <2>1, <2>6, <3>7, NewSlice
  <2> QED BY <2>4, <2>5, <2>6
<1> QED BY <1>1, HandedHolds, PTL DEF Spec, HandsOutFree

\* The search fails only when docker's network is not supported, an annotation
\* cannot be read or all slices are held, and then it does (NextAvailableLBNetwork).
THEOREM FailsOnlyThen == Spec => []FailsExactlyWhen
<1>1. Handed => FailsExactlyWhen
  <2> SUFFICES ASSUME Handed PROVE FailsExactlyWhen
    OBVIOUS
  <2> DEFINE docker == NetworkSubnet(ipam)
             Slice(o) == CalculateV4Subnet(docker, o)
             held == {o \in Octets : \E i \in Slots :
                         /\ Readable(i)
                         /\ SubnetFromCluster(i).ip = [docker.ip EXCEPT ![3] = o]}
             AllRead == \A i \in Slots : annotation[i].form # "bad"
             Fits == Cardinality(held) < LastOctet - FirstOctet + 1
             result == NextAvailableLBNetwork(ipam, Listed)
  <2>1. ipam \in Seq(CIDRText) /\ DOMAIN Listed \subseteq Slots
    BY TextAssumption DEF Handed, Listed
  <2>2. Fits <=> \E o \in Octets : o \notin held
    <3>1. FirstOctet \in Int /\ LastOctet \in Int /\ FirstOctet <= LastOctet
      BY OctetAssumption
    <3>2. IsFiniteSet(Octets) /\ Cardinality(Octets) = LastOctet - FirstOctet + 1
      BY <3>1, FS_Interval DEF Octets
    <3>3. held \in SUBSET Octets
      OBVIOUS
    <3> HIDE DEF held
    <3>4. /\ IsFiniteSet(held) /\ Cardinality(held) <= Cardinality(Octets)
          /\ Cardinality(Octets) = Cardinality(held) => Octets = held
      BY <3>2, <3>3, FS_Subset
    <3>5. Cardinality(held) \in Nat /\ Cardinality(Octets) \in Nat
      BY <3>2, <3>4, FS_CardinalityType
    <3>6. Fits <=> Cardinality(held) # Cardinality(Octets)
      BY <3>1, <3>2, <3>4, <3>5
    <3> QED BY <3>3, <3>4, <3>6
  <2>3. AllRead <=> \A i \in DOMAIN Listed : Listed[i].form # "bad"
    BY DEF Listed, Present
  <2>4. \A i \in Slots : Readable(i) <=> i \in DOMAIN Listed /\ Listed[i].form = "v4"
    BY DEF Listed, Present, Readable
  <2>5. \A i \in DOMAIN Listed : Listed[i] = annotation[i]
    BY DEF Listed
  <2>6. ASSUME Supported(docker), NEW o \in Octets
        PROVE  Slice(o).ip = [docker.ip EXCEPT ![3] = o]
    BY <2>1, <2>6, SliceOfNetwork DEF Octets
  <2>7. ASSUME Supported(docker), NEW o \in Octets
        PROVE  /\ IsIPNetTaken(Slice(o), Listed) = "free" => AllRead /\ o \notin held
               /\ AllRead /\ o \notin held => IsIPNetTaken(Slice(o), Listed) # "taken"
    <3>1. o \in held <=> \E i \in DOMAIN Listed : /\ Listed[i].form = "v4"
                                                  /\ Parsed(Listed[i]).ip = Slice(o).ip
      BY <2>1, <2>4, <2>5, <2>6, <2>7 DEF SubnetFromCluster
    <3> HIDE DEF held, AllRead, Slice
    <3> QED BY <2>1, <2>3, <3>1, Verdict
  <2>8. ASSUME result # Error
        PROVE  Supported(docker) /\ AllRead /\ \E o \in Octets : o \notin held
    <3>1. Supported(docker) /\ \E o \in Octets : IsIPNetTaken(Slice(o), Listed) = "free"
      BY <2>1, <2>8, SearchResult
    <3> QED BY <2>7, <3>1
  <2>9. ASSUME Supported(docker), AllRead, NEW o \in Octets, o \notin held
        PROVE  result # Error
    <3>1. IsIPNetTaken(Slice(o), Listed) # "taken"
      BY <2>7, <2>9
    <3> QED BY <2>1, <2>3, <2>9, <3>1, SearchResult
  <2> QED BY <2>2, <2>8, <2>9 DEF FailsExactlyWhen, Supported, Octets
<1> QED BY <1>1, HandedHolds, PTL
=============================================================================
