----------------------------- MODULE MCActionRun -----------------------------
(***************************************************************************)
(* Instances of ActionRun for TLC: two actions of two steps each, with     *)
(* every kind of step and every failure mode.                              *)
(***************************************************************************)
EXTENDS ActionRun

Two == <<2, 2>>
Kinds == [c \in {1, 2} \X {1, 2} |-> IF c[2] = 1 THEN "exec" ELSE "agent"]
Failing == [c \in {1, 2} \X {1, 2} |->
  CASE c = <<1, 1>> -> "continue" [] c = <<2, 1>> -> "stop" [] OTHER -> "abort"]

=============================================================================
