--------------------------- MODULE DrawdownReview ---------------------------
(***************************************************************************)
(* DrawdownMonitor under its full interface: any sequence of observations  *)
(* and recovery confirmations, with a history of what was observed and     *)
(* confirmed.                                                              *)
(***************************************************************************)
EXTENDS DrawdownMonitor

CONSTANT Equity   \* the equities that can be observed or confirmed

ASSUME EquityRangeAssumption == Equity \subseteq Nat

VARIABLES
  worst,   \* history: deepest alarm level observed since the last recovery
  given    \* history: ids accepted since the review began

reviewVars == <<monitorVars, worst, given>>

ReviewInit ==
  /\ MonitorInit
  /\ worst = 0
  /\ given = {}

Level(equity, mark) ==
  IF DownBy(StopPct, equity, mark) THEN 2
  ELSE IF DownBy(WarningPct, equity, mark) THEN 1 ELSE 0

ObserveStep(equity) ==
  /\ Observe(equity)
  /\ worst' = LET l == Level(equity, peak') IN IF l > worst THEN l ELSE worst
  /\ given' = IF risk' = risk THEN given ELSE {}

ConfirmStep(id, equity) ==
  /\ ConfirmRecovery(id, equity)
  /\ given' = given \cup {id}
  /\ worst' = IF risk' = "NORMAL" THEN 0 ELSE worst

ReviewNext ==
  \E equity \in Equity :
    \/ ObserveStep(equity)
    \/ \E id \in Confirmation : ConfirmStep(id, equity)

ReviewSpec == ReviewInit /\ [][ReviewNext]_reviewVars

----------------------------------------------------------------------------
ReviewTypeOK ==
  /\ peak \in Nat \ {0}
  /\ risk \in RiskState
  /\ confirmed \subseteq Confirmation
  /\ worst \in 0 .. 2
  /\ given \subseteq Confirmation

Severity(state) ==
  IF state = "NORMAL" THEN 0 ELSE IF state = "STOP_NEW" THEN 1 ELSE 2

\* An alarm is as severe as the worst drawdown since the last recovery: no
\* later observation, however good, takes it back (drawdown.py:50, 57).
AlarmReflectsWorst == worst = Severity(risk)

\* A review ends only after two different ids were accepted since it began
\* (drawdown.py:79 to 92): one left over from an earlier review, or one
\* sent twice, does not count.
RecoveryConfirmedTwice ==
  [][risk = "REVIEW_REQUIRED" /\ risk' # "REVIEW_REQUIRED"
       => \E i, j \in given' : i # j]_reviewVars

\* Confirmations exist only during a review and belong to it.
ConfirmedInReview ==
  /\ confirmed \subseteq given
  /\ risk # "REVIEW_REQUIRED" => confirmed = {}

ReviewInv == ReviewTypeOK /\ AlarmReflectsWorst /\ ConfirmedInReview
=============================================================================
