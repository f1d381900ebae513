---------------------------- MODULE MCSeqlenBalance ----------------------------
(* Instances of SeqlenBalance for TLC.                                        *)
EXTENDS SeqlenBalance
Lengths == {1, 2, 5}
SmallInputs == UNION {[1 .. n -> Lengths] : n \in 1 .. 6}
UpToThree == 1 .. 3
===============================================================================
