------------------------------ MODULE Payslip -------------------------------
(***************************************************************************)
(* Timesheet hours on a payslip: hr.payslip's compute_sheet replaces the   *)
(* TS_HOURS input of a draft by the hours its employee logged.             *)
(***************************************************************************)
EXTENDS Naturals, FiniteSets, Sequences, FiniteSetsExt

CONSTANTS
  Sheets,       \* timesheet lines of the employee in the period
  HoursOf,      \* [Sheets -> hours]
  Tweaks,       \* amounts an HR officer may put in by hand
  MaxTweaks     \* bound: hand-made changes

HoursIn(sheets) == FoldSet(LAMBDA sheet, sum : HoursOf[sheet] + sum, 0, sheets)

ASSUME HoursArePositive == HoursOf \in [Sheets -> Nat \ {0}]
ASSUME HoursAddUp == \A sheets \in SUBSET Sheets : HoursIn(sheets) \in Nat
ASSUME TweaksAreAmounts == Tweaks \subseteq Nat

VARIABLES
  logged,         \* the timesheet lines there are
  validated,      \* those that are validated
  validatedOnly,  \* hr_timesheet_payslip.validated_only
  inputType,      \* whether the TS_HOURS input type is there
  slip,           \* state, the amounts of its TS_HOURS lines, and the hours last summed
  tweaks

payslipVars == <<logged, validated, validatedOnly, inputType, slip, tweaks>>

PayslipTypeOK ==
  /\ logged \subseteq Sheets /\ validated \subseteq logged
  /\ validatedOnly \in BOOLEAN /\ inputType \in BOOLEAN
  /\ slip.state \in {"draft", "validated"} /\ slip.amounts \in Seq(Nat) /\ slip.summed \in Nat
  /\ slip.tweaked \in BOOLEAN

PayslipInit ==
  /\ logged = {} /\ validated = {}
  /\ validatedOnly \in BOOLEAN /\ inputType = TRUE
  /\ slip = [state |-> "draft", amounts |-> <<>>, summed |-> 0, tweaked |-> FALSE]
  /\ tweaks = 0

\* _ts_sum_hours
SumHours == HoursIn(IF validatedOnly THEN validated ELSE logged)

Remaining_All(amounts) == amounts

\* The TS_HOURS lines that go when the sheet is computed.
Remaining(amounts) == <<>>

\* _ts_sync_input_line: no line for zero hours.
Synced(amounts, hours) ==
  IF hours > 0 THEN Append(Remaining(amounts), hours) ELSE Remaining(amounts)

\* Without its input type a draft's computation fails; a slip that is no
\* draft is left alone.
ComputeSheet ==
  /\ slip.state = "draft" => inputType
  /\ slip' = IF slip.state # "draft" THEN slip
             ELSE [slip EXCEPT !.amounts = Synced(@, SumHours), !.summed = SumHours,
                               !.tweaked = FALSE]
  /\ UNCHANGED <<logged, validated, validatedOnly, inputType, tweaks>>

\* The payslip's form: a draft's amounts can be edited by hand.
Tweak ==
  /\ tweaks < MaxTweaks
  /\ tweaks' = tweaks + 1
  /\ slip.state = "draft" /\ slip.amounts # <<>>
  /\ \E amount \in Tweaks : slip' = [slip EXCEPT !.amounts[1] = amount, !.tweaked = TRUE]
  /\ UNCHANGED <<logged, validated, validatedOnly, inputType>>

\* Odoo's own buttons: validate, and set back to draft.
SetState ==
  /\ \E state \in {"draft", "validated"} : slip' = [slip EXCEPT !.state = state]
  /\ UNCHANGED <<logged, validated, validatedOnly, inputType, tweaks>>

Timesheet ==
  /\ \E sheet \in Sheets :
       \/ sheet \notin logged /\ logged' = logged \cup {sheet} /\ UNCHANGED validated
       \/ sheet \in logged /\ logged' = logged \ {sheet} /\ validated' = validated \ {sheet}
       \/ sheet \in logged \ validated /\ validated' = validated \cup {sheet} /\ UNCHANGED logged
  /\ UNCHANGED <<validatedOnly, inputType, slip, tweaks>>

SetOption ==
  /\ validatedOnly' \in BOOLEAN /\ inputType' \in BOOLEAN
  /\ UNCHANGED <<logged, validated, slip, tweaks>>

PayslipNext == ComputeSheet \/ Tweak \/ SetState \/ Timesheet \/ SetOption

PayslipSpec == PayslipInit /\ [][PayslipNext]_payslipVars
-----------------------------------------------------------------------------
\* "Re-compute is idempotent": however often it is computed while timesheets
\* come and go, a slip has one line of the hours last summed, or none at zero,
\* until it is changed by hand.
HoursAreSheets ==
  ~slip.tweaked => slip.amounts = IF slip.summed = 0 THEN <<>> ELSE <<slip.summed>>

\* "HR can override if needed": tweak the TS_HOURS amount, compute the sheet
\* again, and it is the amount that is priced.
OverrideStands ==
  [][ComputeSheet /\ slip.state = "draft" /\ slip.tweaked => slip'.amounts = slip.amounts]_payslipVars
=============================================================================
