---------------------------- MODULE MCProcessCom ----------------------------
(* Model values for checking ProcessCom with TLC. *)
EXTENDS ProcessCom, TLC

RobotSymmetry == Permutations(Robots)
=============================================================================
