------------------------ MODULE MCPartnerSettlement -------------------------
EXTENDS PartnerSettlement, TLC
CONSTANTS r1, d1, k1, c1, c2
\* Amounts in cents: right, a cent off, and more.
MCAmount == {100, 101, 90}
MCRequest == {r1}
MCCalls == {c1, c2}
MCDraw == {d1}
MCKey == {k1, NoKey}
CallSymmetry == Permutations({c1, c2})
=============================================================================
