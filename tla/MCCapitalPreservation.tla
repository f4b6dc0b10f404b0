---------------------- MODULE MCCapitalPreservation ----------------------
(* Two vaults, the administrator and one holder; a small offset, so that rounding shows. *)
EXTENDS CapitalPreservation

CONSTANT u1

MCUser == {u1}
MCAmount == {1}
MCShareAmount == {1}
MCRatio == {2000}
MCCap == {1}
MCExpiry == {0, 2}
MCTarget == {1}
=============================================================================
