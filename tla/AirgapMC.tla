------------------------------- MODULE AirgapMC ------------------------------
(* Airgap with the values of its constants for TLC: two versions of a bundle *)
(* of two binaries and an image, and one whose image has a registry's name.  *)
EXTENDS Airgap

CONSTANTS v1, v2, v3

Spec1 == [version |-> v1, binaries |-> <<"k3s", "kubectl">>, images |-> <<"pause">>,
          charts |-> <<"cilium">>]
Spec2 == [Spec1 EXCEPT !.version = v2]
SpecR == [version |-> v3, binaries |-> <<"k3s">>, images |-> <<"registry.io/pause">>,
          charts |-> << >>]

SomeSpecs == {Spec1, Spec2, SpecR}
=============================================================================
