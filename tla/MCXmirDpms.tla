----------------------------- MODULE MCXmirDpms -----------------------------
(***************************************************************************)
(* Instances of XmirDpms for TLC.                                          *)
(***************************************************************************)
EXTENDS XmirDpms

Dpms(standby, suspend, off) == [standby |-> standby, suspend |-> suspend, off |-> off]
Saver(time, interval) == [time |-> time, interval |-> interval]

\* Two levels in turn, with one skipped.
MCDpmsTimes == {Dpms(1, 0, 2)}

\* No saver, and one that cycles; DPMS starts with the same times.
MCSaverTimes == {Saver(0, 0), Saver(1, 1)}
=============================================================================
