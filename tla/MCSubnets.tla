----------------------------- MODULE MCSubnets -----------------------------
(***************************************************************************)
(* A small pool of slices, docker networks of every kind networkSubnet     *)
(* tells apart, and hand-written annotations: a slice of the pool with and *)
(* without host bits, a host route, a wide one, one that does not parse.   *)
(***************************************************************************)
EXTENDS Subnets

V16 == CIDR(<<172, 18, 0, 1>>, 16)
V8 == CIDR(<<10, 0, 0, 0>>, 8)
V24 == CIDR(<<172, 18, 200, 0>>, 24)

DockerNetworks ==
    {<<>>, <<V16>>, <<Other("v6"), V8>>, <<V24>>, <<Other("bad"), V16>>}

Annotations ==
    {CIDR(<<172, 18, 254, 10>>, 24), CIDR(<<172, 18, 255, 7>>, 32),
     CIDR(<<172, 18, 254, 0>>, 23), CIDR(<<10, 0, 254, 0>>, 24), Other("bad")}

=============================================================================
