---------------------------- MODULE MCRoleSession ----------------------------
(***************************************************************************)
(* Instances of RoleSession for TLC: the host launches a child, which asks *)
(* a provider and launches a child of its own, which runs a tool that asks *)
(* a provider.                                                             *)
(***************************************************************************)
EXTENDS RoleSession

Work == {"child", "lookup", "grandchild", "tool", "request"}
Nested == [e \in Work |->
  CASE e = "child" -> NoEffect
    [] e \in {"lookup", "grandchild"} -> "child"
    [] e = "tool" -> "grandchild"
    [] e = "request" -> "tool"]
Performs == [e \in Work |->
  CASE e = "child" -> 0
    [] e \in {"lookup", "grandchild"} -> 1
    [] OTHER -> 2]
Launching == [n \in 1 .. 2 |-> IF n = 1 THEN "child" ELSE "grandchild"]

=============================================================================
