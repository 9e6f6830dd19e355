---------------------------- MODULE MCBillReports ---------------------------
(* BillReports on a few bills made around the beginning of a month: two     *)
(* units to a day, so noon and midnight; 0 begins a Sunday and a month of   *)
(* 30 days.                                                                 *)
EXTENDS BillReports, TLC

MCMoments     == {58, 60, 61}
MCDates       == {58, 60}
MCMonthStarts == {-62, 0, 60, 122}
MCYearAgo(t)  == t - 365 * Day
Symmetry      == Permutations(Bills)
=============================================================================
