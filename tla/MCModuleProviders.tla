------------------------- MODULE MCModuleProviders -------------------------
(***************************************************************************)
(* Three modules for ModuleProviders: a and b look each other up while     *)
(* they are loaded, and c looks up a.                                      *)
(***************************************************************************)
EXTENDS ModuleProviders, TLC

CONSTANTS a, b, c, o1, o2, o3   \* model values

MCNames == {a, b, c}
MCObjects == {o1, o2, o3}
MCAsks == {<<a, b>>, <<b, a>>, <<c, a>>}

\* The storage of SystemModules is alike.
MCSymmetry == Permutations(MCObjects)

=============================================================================
