------------------------------- MODULE Waves --------------------------------
(***************************************************************************)
(* The schedule of the housekeeping a validator does when it leaves a      *)
(* round, and the rounds each kind of it looks at.  The length of a wave   *)
(* is a parameter (WAVE is 4 in the source), so that small instances reach *)
(* every case.  Rounds are numbered from 1; the source indexes dag_image   *)
(* from 0, and the index i stands for the round i + 1.                     *)
(***************************************************************************)
EXTENDS Integers

(* The macro HALF_WAVE. *)
HalfWave(wave) == wave \div 2

(* On leaving round r: look for vertices missing from the wave before last *)
ScanDue(wave, r) == r % wave = 0 /\ r > wave

(* or else give up on those still missing, half a wave after the look.     *)
OrderDue(wave, r) ==
  ~ ScanDue(wave, r) /\ r % wave = HalfWave(wave) /\ r > 2 * wave

(* The rounds of the loop "for i = start; i < end" of dag_scan, which      *)
(* clamps a negative start to 0.                                           *)
Window(start, end) == (IF start < 0 THEN 0 ELSE start) + 1 .. end

ScanWindow(wave, r) == Window(r - 2 * wave, r - wave)

OrderWindow(wave, r) ==
  LET finish == r - (wave + HalfWave(wave))
  IN  Window(finish - wave, finish)

HelpWindowBehind(wave, r) == Window(r - wave, r - 1)   \* mutant: off by one

(* A validator that does not get on in round r looks at its last rounds.   *)
HelpWindow(wave, r) == Window(r - wave, r)
=============================================================================
