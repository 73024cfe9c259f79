------------------------- MODULE MCContainerManager -------------------------
(***************************************************************************)
(* Instances of ContainerManager for TLC.                                  *)
(***************************************************************************)
EXTENDS ContainerManager

CONSTANTS d1, d2, h1, h2

\* Threads are interchangeable: used where only safety is checked.
ThreadSymmetry == Permutations(Threads)

Shop == <<"shop">>
Blog == <<"blog">>
Web == <<"web">>
Db == <<"db">>

Exposed(name, hash, domains) ==
    [name |-> name, hash |-> hash, exposed |-> TRUE, domains |-> domains]
Internal(name, hash) ==
    [name |-> name, hash |-> hash, exposed |-> FALSE, domains |-> {}]
Config(p, services) == [project |-> p, services |-> services]

TwoProjects == {Shop, Blog}
TwoServices == {Web, Db}
WebOnly == {Web}
FourPorts == 1 .. 4
ThreePorts == 1 .. 3
FiveIds == 1 .. 5
ThreeIds == 1 .. 3
OnePort == 1 .. 1

\* One configuration, applied again and again.
ShopOnly == {Config(Shop, <<Exposed(Db, h1, {d2}), Exposed(Web, h1, {d1})>>)}

\* Each project has its own domains.
Neighbours ==
    {Config(Shop, <<Exposed(Web, h1, {d1})>>),
     Config(Shop, <<Exposed(Web, h2, {})>>),
     Config(Blog, <<Exposed(Web, h1, {d2})>>)}

\* One service each
SmallNeighbours ==
    {Config(Shop, <<Exposed(Web, h1, {d1})>>),
     Config(Blog, <<Exposed(Web, h1, {})>>)}
=============================================================================
