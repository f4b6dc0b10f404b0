--------------------------- MODULE MCEvidenceGate ---------------------------
EXTENDS EvidenceGate, TLC
CONSTANTS s1, v1, v2, h1, h2, h3, h4, n1, a1, a2, m1, m2

Doc(class, hash, number, destination, milestone, expires, defects) ==
  [class |-> class, hash |-> hash, number |-> number, destination |-> destination,
   verified |-> None, milestone |-> milestone, expires |-> expires, defects |-> defects]

\* A waiver that expires, two invoices of one number, a waiver of another
\* milestone, and an unapproved validation of another account whose content is
\* that of the second waiver.
MCDocument ==
  {Doc("lien_waiver", h1, None, None, m1, 0, {}),
   Doc("invoice", h2, n1, a1, m1, None, {}),
   Doc("invoice", h3, n1, None, m1, None, {}),
   Doc("lien_waiver", h4, None, None, m2, None, {}),
   Doc("bank_account_validation", h4, None, a2, m1, None, {"approval"})}
MCHash == {h1, h2, h3, h4}
MCNumber == {n1}
MCDestination == {a1, a2}
MCMilestone == {m1, m2}
MCSubmitter == {s1}
MCValidator == {v1, v2}
MCMaxAgeOption == {0}
MCMaxAge == [c \in Class |-> IF c = "invoice" THEN 0 ELSE 1]
MCRequired == {"invoice"}
ValidatorSymmetry == Permutations(MCValidator)
=============================================================================
