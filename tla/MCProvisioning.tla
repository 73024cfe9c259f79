--------------------------- MODULE MCProvisioning ---------------------------
(***************************************************************************)
(* Instances of Provisioning for TLC.                                      *)
(***************************************************************************)
EXTENDS Provisioning

ASSUME ServicesToldApart == NamesTellServicesApart

CONSTANTS main, worker, postgres

Shop == <<"a">>
Blog == <<"b">>
Web == <<"w">>
Jobs == <<"j">>
Archive == <<"a", "-", "w">>   \* of the blog; contains the names a and w
Data == <<"d">>
More == <<"d", "x">>

TwoProjects == {Shop, Blog}
ThreeNames == {Web, Jobs, Archive}
TwoVolumes == {Data, More}

Git(name, recipe, vols) == [name |-> name, type |-> "git", recipe |-> recipe, volumes |-> vols]
Image(name, recipe, vols) ==
    [name |-> name, type |-> "docker", recipe |-> recipe, volumes |-> vols]

\* Two services of the shop come from one repository.  The filter for the volume
\* a.w-d also finds a.w-dx and b.a-w-d; the other three are distinctive.
Applied ==
    {[project |-> Shop, services |-> <<Git(Web, main, <<Data, More>>), Git(Jobs, worker, <<Data>>)>>],
     [project |-> Blog, services |-> <<Image(Archive, postgres, <<Data>>)>>]}

ASSUME FilterFindsOthers == Distinctive # {} /\ Distinctive # Volumes
=============================================================================
