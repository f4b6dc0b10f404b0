------------------------ MODULE MCDrawTransactions ------------------------
(***************************************************************************)
(* One draw from creation to reconciliation, every operation requested     *)
(* once (evaluate, upload and import also by a second request), and the    *)
(* requests sent once or twice.                                            *)
(***************************************************************************)
EXTENDS DrawTransactions, TLC

CONSTANTS t1, t2, t3

MCTwo == {t1, t2}
MCThree == {t1, t2, t3}

R(op, key) == [op |-> op, key |-> key]

Path == {R("create", "kc"), R("upload", "ku"), R("submit", "ks"), R("evaluate", "ke"),
         R("approve", "ka"), R("instruct", "ki"), R("import", "kb")}

MCPath == Path
MCRace == Path \cup {R("upload", "ku2"), R("evaluate", "ke2")}

\* Nothing is retried, or what a client may well repeat is.
MCOnce == [r \in Path |-> 1]
MCRaceOnce == [r \in MCRace |-> 1]
MCRetried == [r \in Path |-> IF r.op \in {"import", "submit"} THEN 1 ELSE 2]

MCKey == {"kc", "ku", "ku2", "ks", "ke", "ke2", "ka", "ki", "kb"}

MCType == DrawEventType
MCBody == DrawBody
MCHash == 1..15

Symmetry2 == Permutations(MCTwo)
Symmetry3 == Permutations(MCThree)
=============================================================================
