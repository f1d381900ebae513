-------------------------- MODULE MCTrainerCheckpoint --------------------------
(* Instances of TrainerCheckpoint for TLC.                                     *)
EXTENDS TrainerCheckpoint
NoneOrSecond == {{}, {2}}
===============================================================================
