---------------------------- MODULE MCNamespace ----------------------------
(* Instances of Namespace for TLC: the trees a run starts from. *)
EXTENDS Namespace, TLC

CONSTANTS ana, beto, x, y, eq, compartido

\* Nothing but the roots, or a directory /x of the first user, or /x and /y.
SeedNone == << >>
SeedOne == <<DirectoryRow(1, x, Roots[1])>>
SeedTwo == <<DirectoryRow(1, x, Roots[1]), DirectoryRow(1, y, Roots[1])>>

\* No name is told from another; users are not exchanged (the roots are ordered).
Symmetry == Permutations({x, y})
=============================================================================
