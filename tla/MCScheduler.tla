----------------------------- MODULE MCScheduler -----------------------------
(* FMTK_StartTask calls as in FMTKInitialize; 030, 055, 070 and 077 of the   *)
(* source are 24, 45, 56 and 63.                                             *)
EXTENDS TaskScheduler

OnePerClass == <<<<24, 0, 0>>, <<45, 0, 1>>, <<63, 0, 0>>>>
WithZero    == <<<<1, 0, 0>>, <<24, 0, 0>>, <<24, 1, 2>>, <<0, 0, 1>>, <<63, 1, 1>>>>
=============================================================================
