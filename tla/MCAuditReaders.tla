-------------------------- MODULE MCAuditReaders --------------------------
(***************************************************************************)
(* Three concurrent transactions of up to two appends each, one key and    *)
(* the empty key, a verifier and a paging client.                          *)
(***************************************************************************)
EXTENDS AuditReaders, TLC

CONSTANTS t1, t2, t3, k1

MCTx  == {t1, t2, t3}
MCKey == {k1}
MCTypes == {"DRAW_CREATED"}
MCBody == {"draw"}
MCHash == 1..9

Symmetry == Permutations(MCTx)
=============================================================================
