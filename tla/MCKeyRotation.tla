---------------------------- MODULE MCKeyRotation ----------------------------
(* Two ways to replace key k1 by k2, on small instances. Processes and     *)
(* credentials are interchangeable.                                        *)
EXTENDS KeyRotation, TLC

CONSTANTS k1, k2

Ring(active, keys) == [active |-> active, keys |-> keys]

\* The way of the developer guide: add k2 and make it active at once.
Guide == <<Ring(k1, {k1}), Ring(k2, {k1, k2}), Ring(k2, {k2})>>

\* In two deployments: every process can read k2 before one of them writes it.
Staged == <<Ring(k1, {k1}), Ring(k1, {k1, k2}), Ring(k2, {k1, k2}), Ring(k2, {k2})>>

Symmetry == Permutations(Procs) \cup Permutations(Creds)
=============================================================================
