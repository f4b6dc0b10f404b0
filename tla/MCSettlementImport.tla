------------------------ MODULE MCSettlementImport ------------------------
(***************************************************************************)
(* One draw with one approver, two references and two files of up to two   *)
(* rows.  Rows are right, wrong in one respect, repeated, or about a       *)
(* reference that may never be instructed; the draw is instructed on day 0 *)
(* or on day 1.                                                            *)
(***************************************************************************)
EXTENDS SettlementImport

CONSTANTS d1, acct, other, party, r1, r2, b1, b2

MCDraw == {d1}
MCSubject == {"sponsor", "una", "treasurer", "fund"}
MCAccount == {acct, other}
MCParty == {party}
MCDocType == {"INVOICE"}
MCReference == {r1, r2}
MCBatch == {b1, b2}

MCPack ==
  [v \in {"v1"} |-> [evidence |-> {"INVOICE"}, approvals |-> 1, roles |-> {"LenderAdmin"}]]

Roles ==
  {<<"sponsor", "BorrowerSponsor">>, <<"una", "Underwriter">>, <<"una", "LenderAdmin">>,
   <<"treasurer", "TreasuryOwner">>, <<"fund", "FundAdministrator">>}

Day(n) ==
  [roles |-> Roles, holds |-> {}, ready |-> {acct}, screened |-> {party},
   effective |-> "v1", today |-> n]

MCWorlds == {Day(0), Day(1)}

Good(ref) == [ref |-> ref, amount |-> 2, account |-> acct, sameCurrency |-> TRUE, date |-> 1]

Wrong(field, value) == [Good(r1) EXCEPT ![field] = value]

MCFile ==
  {<<>>, <<Good(r1)>>, <<Good(r2)>>, <<Wrong("amount", 1)>>, <<Wrong("date", 0)>>,
   <<Wrong("account", other), Good(r1)>>, <<Wrong("sameCurrency", FALSE), Good(r2)>>,
   <<Good(r2), Good(r2)>>, <<Good(r1), Wrong("amount", 0)>>,
   <<Good(r2), Wrong("amount", 0)>>}
=============================================================================
