----------------------------- MODULE MCLauncher -----------------------------
(***************************************************************************)
(* Three validators and waves of one round, so that of a DAG of four       *)
(* rounds the first is settled and the second is not.  The DAGs differ in  *)
(* the one or in the other; those of three rounds have nothing settled,    *)
(* and those of two are too short to have a digest.                        *)
(***************************************************************************)
EXTENDS Launcher

Full == {1, 2, 3}

SomeDAGs ==
  {<<Full, Full, Full, Full>>, <<{1, 2}, Full, Full, Full>>,
   <<Full, {2, 3}, Full, Full>>,
   <<Full, Full, Full>>, <<{1, 2}, Full, Full>>,
   <<Full, Full>>}
=============================================================================
