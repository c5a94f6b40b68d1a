---------------------------- MODULE MCPluginHost ----------------------------
(* A chain of three plugins, one of them under development. *)
EXTENDS PluginHost, TLC

CONSTANTS base, lib, app

MCIds == {base, lib, app}
MCDeps == base :> {} @@ lib :> {base} @@ app :> {lib}

ASSUME DependentsFirst
=============================================================================
