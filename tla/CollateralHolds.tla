--------------------------- MODULE CollateralHolds ---------------------------
(***************************************************************************)
(* Collateral holds (covenant/collateral-hold.ts and its routes), with the *)
(* risk flags of shared/validation that lead to them, of one tenant.       *)
(*                                                                         *)
(* createHold waits at each event it appends, and an automated evaluation  *)
(* waits for every hold it creates; it decides which ones to create from   *)
(* the holds it saw when it began.  placing[c] is what caller c has still  *)
(* to do.  Records are replaced on change, so what was seen stays as it    *)
(* was.                                                                    *)
(***************************************************************************)
EXTENDS Integers, Lists

CONSTANTS Placer,       \* concurrent callers of createHold and evaluateAndCreateHolds
          Asset, Project, Request,
          NoRequest,    \* a hold or a question without a request
          Collateral,   \* the figures an evaluation may be given, see evaluateCollateralRisk
          ManualReason, \* the reasons given to POST /hold
          ReleaseCondition,
          MaxHolds

ReinspectTriggers == {"stale_appraisal", "appraisal_municipal_variance", "title_defect",
                      "lien_detected", "collateral_transfer"}
ValidReleaseConditions == {"supplemental_collateral_provided", "ltv_restored", "title_cured",
                           "insurance_renewed", "lien_resolved"}

VARIABLES holds,     \* the holds, in the order of their creation
          placing,   \* what each caller is doing
          notices    \* the events: <<type, hold>>
holdVars == <<holds, placing, notices>>

Unoccupied == [step |-> "idle"]
Blocking(h) == holds[h].status \in {"active", "converted_to_block", "escalated"}

HoldsInit ==
  holds = <<>> /\ notices = {} /\ placing = [c \in Placer |-> Unoccupied]

-----------------------------------------------------------------------------
Abs(n) == IF n < 0 THEN -n ELSE n

\* The triggers of the flags evaluateCollateralRisk raises, in its order.
\* Days since the valuation, values and percentages are whole numbers.
evaluateCollateralRisk(x) ==
  LET on(cond, trigger) == IF cond THEN <<trigger>> ELSE <<>>
  IN  on(x.municipal > 0 /\ 100 * Abs(x.appraisal - x.municipal) > 15 * x.municipal,
         "appraisal_municipal_variance")
      \o on(x.valuationAge > 365, "stale_appraisal")
      \o on(x.uccFilings, "lien_detected") \o on(x.taxLiens, "lien_detected")
      \o on(x.mechanicsLiens, "lien_detected")
      \o on(x.titleStatus # "clear", "title_defect")
      \o on(x.insuranceStatus # "active", "insurance_lapse")
      \o on(x.ltvMetric > x.maxLTV, "ltv_exceeds_policy")

\* Go on with the first of the holds still to be created, if there is one.
createHold(c, call) ==
  IF call.todo = <<>>
  THEN placing' = [placing EXCEPT ![c] = Unoccupied] /\ UNCHANGED <<holds, notices>>
  ELSE LET id == Len(holds) + 1
       IN  /\ id <= MaxHolds
           /\ holds' = Append(holds, [asset |-> call.asset, project |-> call.project, request |-> call.request,
                                      reason |-> Head(call.todo), status |-> "active"])
           /\ notices' = notices \cup {<<"COLLATERAL_FLAGGED", id>>}
           /\ placing' = [placing EXCEPT ![c] =
                [call EXCEPT !.todo = Tail(@), !.hold = id,
                             !.step = IF Head(call.todo) \in ReinspectTriggers THEN "reinspect" ELSE "next"]]

\* A caller found the triggers and will create the holds todo; gone are the
\* holds that were released before it began.
Begin(c, asset, project, request, found, todo) ==
  /\ placing[c] = Unoccupied
  /\ createHold(c, [step |-> "next", asset |-> asset, project |-> project, request |-> request,
                    found |-> found, todo |-> todo, hold |-> 0,
                    gone |-> {h \in DOMAIN holds : holds[h].status = "released"}])

\* POST /hold
PlaceHold(c, asset, project, request, reason) ==
  Begin(c, asset, project, request, {reason}, <<reason>>)

\* (a bug) A hold of any status counts as a duplicate.
duplicateActive_AnyStatus(asset, trigger) ==
  \E h \in DOMAIN holds : holds[h].asset = asset /\ holds[h].reason = trigger

duplicateActive(asset, trigger) ==
  \E h \in DOMAIN holds :
    holds[h].asset = asset /\ holds[h].reason = trigger /\ holds[h].status \in {"active", "escalated"}

evaluateAndCreateHolds(c, asset, project, request, x) ==
  LET found == evaluateCollateralRisk(x)
  IN  Begin(c, asset, project, request, {found[i] : i \in DOMAIN found},
            filter(found, {i \in DOMAIN found : ~duplicateActive(asset, found[i])}))

RequireReinspection(c) ==
  /\ placing[c].step = "reinspect"
  /\ notices' = notices \cup {<<"COLLATERAL_REINSPECT_REQUIRED", placing[c].hold>>}
  /\ placing' = [placing EXCEPT ![c].step = "next"]
  /\ UNCHANGED holds

ContinuePlacing(c) == placing[c].step = "next" /\ createHold(c, placing[c])

\* Any of the conditions releases any hold, a block too.
releaseHold(h, condition) ==
  /\ holds[h].status # "released" /\ condition \in ValidReleaseConditions
  /\ holds' = [holds EXCEPT ![h].status = "released"]
  /\ notices' = notices \cup {<<"RELEASE_HOLD", h>>}
  /\ UNCHANGED placing

escalateHold(h) ==
  /\ holds[h].status # "released"
  /\ holds' = [holds EXCEPT ![h].status = "escalated"]
  /\ UNCHANGED <<placing, notices>>

convertHoldToBlock(h) ==
  /\ holds[h].status # "released"
  /\ holds' = [holds EXCEPT ![h].status = "converted_to_block"]
  /\ UNCHANGED <<placing, notices>>

\* (a bug) An escalated hold does not block.
isDrawBlocked_NotEscalated(request, project, asset) ==
  \E h \in DOMAIN holds :
    /\ holds[h].status \in {"active", "converted_to_block"}
    /\ \/ request # NoRequest /\ holds[h].request = request
       \/ holds[h].project = project \/ holds[h].asset = asset

isDrawBlocked(request, project, asset) ==
  \E h \in DOMAIN holds :
    /\ Blocking(h)
    /\ \/ request # NoRequest /\ holds[h].request = request
       \/ holds[h].project = project \/ holds[h].asset = asset

HoldsNext ==
  \/ \E c \in Placer :
       \/ \E asset \in Asset, project \in Project, request \in Request \cup {NoRequest} :
            \/ \E reason \in ManualReason : PlaceHold(c, asset, project, request, reason)
            \/ \E x \in Collateral : evaluateAndCreateHolds(c, asset, project, request, x)
       \/ RequireReinspection(c)
       \/ ContinuePlacing(c)
  \/ \E h \in DOMAIN holds :
       (\E condition \in ReleaseCondition : releaseHold(h, condition)) \/ escalateHold(h) \/ convertHoldToBlock(h)

HoldsSpec == HoldsInit /\ [][HoldsNext]_holdVars

-----------------------------------------------------------------------------
(* Properties                                                              *)

\* Whatever an evaluation found, there is a hold for it on the asset that was
\* still unreleased when the evaluation began, or a later one, for each
\* finding it has dealt with: it never relies on a hold that was already
\* released, however stale its picture of the holds is by then
\* (evaluateAndCreateHolds).
FindingIsHeld ==
  \A c \in Placer : placing[c] # Unoccupied =>
    LET call == placing[c]
    IN  \A t \in call.found \ {call.todo[i] : i \in DOMAIN call.todo} :
          \E h \in DOMAIN holds \ call.gone : holds[h].asset = call.asset /\ holds[h].reason = t

\* A draw that is blocked is unblocked only by a release: escalating a hold,
\* turning it into a block or back, and evaluating anew never let it through
\* (isDrawBlocked).
OnlyReleaseUnblocks ==
  [][\A request \in Request \cup {NoRequest}, project \in Project, asset \in Asset :
       isDrawBlocked(request, project, asset) /\ ~isDrawBlocked(request, project, asset)'
       => \E h \in DOMAIN holds : <<"RELEASE_HOLD", h>> \in notices' \ notices]_holdVars
=============================================================================
