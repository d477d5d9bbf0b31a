----------------------------- MODULE MCBuildCache -----------------------------
(***************************************************************************)
(* Instances of BuildCache for TLC.                                        *)
(***************************************************************************)
EXTENDS BuildCache, TLC

CONSTANTS b1, b2, a1, a2, old, new, dev

Compiler == (old :> "old") @@ (new :> "new") @@ (dev :> "new")

Cargo(kind, agent, key, force, keep, sound) ==
  [kind |-> kind, agent |-> agent, key |-> key, force |-> force, keep |-> keep, sound |-> sound]

\* Two agents, one of them with a definition that does not compile, under the
\* current compiler, one also under the former, a check and a project build.
Few == {
  Cargo("hatch", a1, new, FALSE, FALSE, TRUE),
  Cargo("project", a1, new, TRUE, FALSE, TRUE),
  Cargo("hatch", a2, new, FALSE, FALSE, FALSE),
  Cargo("hatch", a2, old, TRUE, TRUE, TRUE),
  Cargo("check", a2, dev, FALSE, FALSE, TRUE)}

Before == {{}, {old}, {new, dev}}

=============================================================================
