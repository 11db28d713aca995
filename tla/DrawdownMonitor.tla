-------------------------- MODULE DrawdownMonitor --------------------------
(***************************************************************************)
(* The drawdown state machine of domain/risk/drawdown.py: observations of  *)
(* equity raise the alarm, and only two confirmations clear it.            *)
(***************************************************************************)
EXTENDS Integers, FiniteSets

CONSTANTS
  InitialEquity,
  WarningPct,      \* warning_threshold, in percent of the high water mark
  StopPct,         \* stop_threshold
  Confirmation     \* confirmation ids

ASSUME EquityAssumption == InitialEquity \in Nat \ {0}
ASSUME ThresholdAssumption ==
  /\ WarningPct \in Nat /\ StopPct \in Nat
  /\ 0 < WarningPct /\ WarningPct < StopPct /\ StopPct < 100

VARIABLES
  peak,       \* high_water_mark
  risk,       \* state
  confirmed   \* _confirmations

monitorVars == <<peak, risk, confirmed>>

RiskState == {"NORMAL", "STOP_NEW", "REVIEW_REQUIRED"}

MonitorInit ==
  /\ peak = InitialEquity
  /\ risk = "NORMAL"
  /\ confirmed = {}

\* equity has fallen pct percent below a high water mark, or more.
DownBy(pct, equity, mark) == (mark - equity) * 100 >= pct * mark

NextRiskSelfHealing(equity, mark) ==
  IF risk = "REVIEW_REQUIRED" \/ DownBy(StopPct, equity, mark) THEN "REVIEW_REQUIRED"
  ELSE IF DownBy(WarningPct, equity, mark) THEN "STOP_NEW"
  ELSE "NORMAL"

NextRisk(equity, mark) ==
  IF risk = "REVIEW_REQUIRED" \/ DownBy(StopPct, equity, mark) THEN "REVIEW_REQUIRED"
  ELSE IF risk = "STOP_NEW" \/ DownBy(WarningPct, equity, mark) THEN "STOP_NEW"
  ELSE "NORMAL"

Observe(equity) ==
  LET mark == IF equity > peak THEN equity ELSE peak IN
  /\ peak' = mark
  /\ risk' = NextRisk(equity, mark)
  /\ confirmed' = confirmed

ConfirmRecoveryKeepsIds(id, equity) ==
  /\ equity * 100 > peak * (100 - WarningPct)
  /\ risk = "REVIEW_REQUIRED"
  /\ id \notin confirmed
  /\ confirmed' = confirmed \cup {id}
  /\ risk' = IF confirmed = {} THEN risk ELSE "NORMAL"
  /\ peak' = peak

\* confirm_recovery by an authorized caller with a complete checklist; the
\* calls it turns down change nothing.
ConfirmRecovery(id, equity) ==
  /\ equity * 100 > peak * (100 - WarningPct)
  /\ risk = "REVIEW_REQUIRED"
  /\ id \notin confirmed
  /\ IF confirmed = {}
     THEN confirmed' = {id} /\ risk' = risk
     ELSE confirmed' = {} /\ risk' = "NORMAL"
  /\ peak' = peak
============================================================================
