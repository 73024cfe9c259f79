--------------------------- MODULE MCCertificates ---------------------------
(***************************************************************************)
(* Instances of Certificates for TLC.                                      *)
(***************************************************************************)
EXTENDS Certificates, TLC

CONSTANTS d1, d2

\* Threads are interchangeable: used where only safety is checked.
ThreadSymmetry == Permutations(Threads)

\* Domains likewise, where no request names one of them only.
DomainSymmetry == Permutations(Domains)

AnyRequest == (SUBSET Domains) \ {{}}
Together == {Domains}
OneByOne == {{d} : d \in Domains}

OneSlot == {1}
TwoSlots == 1 .. 2
TwoIds == 1 .. 2
ThreeIds == 1 .. 3
FiveIds == 1 .. 5
=============================================================================
