-------------------------- MODULE MCDrawWorkflow --------------------------
(***************************************************************************)
(* One draw and five people.  The first pack needs two approvers; a second *)
(* version of it needs one.  Underwriter una loses her role, the treasurer *)
(* also holds an approver's role, and a hold, an unverified payee and a    *)
(* missing policy version come and go.                                     *)
(***************************************************************************)
EXTENDS DrawWorkflow

CONSTANTS d1, acct, party, r1

MCDraw == {d1}
MCSubject == {"sponsor", "ops", "una", "max", "treasurer", "bot"}
MCRobot == {"bot"}
MCAccount == {acct}
MCParty == {party}
MCDocType == {"INVOICE"}
MCReference == {r1}

MCPack ==
  [v \in {"v1", "v2"} |->
     [evidence |-> {"INVOICE"}, approvals |-> IF v = "v1" THEN 2 ELSE 1,
      roles |-> {"Underwriter", "PortfolioManager"}]]

Roles ==
  {<<"sponsor", "BorrowerSponsor">>, <<"sponsor", "PortfolioManager">>,
   <<"ops", "OperationsOwner">>, <<"una", "Underwriter">>, <<"max", "PortfolioManager">>,
   <<"treasurer", "TreasuryOwner">>, <<"treasurer", "PortfolioManager">>,
   <<"bot", "PortfolioManager">>, <<"bot", "TreasuryOwner">>}

Open ==
  [roles |-> Roles, holds |-> {}, ready |-> {acct}, screened |-> {party},
   effective |-> "v1", today |-> 0]

MCWorlds ==
  {Open,
   [Open EXCEPT !.roles = @ \ {<<"una", "Underwriter">>}, !.effective = "v2"],
   [Open EXCEPT !.holds = {d1}],
   [Open EXCEPT !.ready = {}, !.effective = NoPolicy]}
=============================================================================
