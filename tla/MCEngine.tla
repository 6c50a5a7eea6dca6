------------------------------ MODULE MCEngine ------------------------------
(* Instances of Engine for TLC.                                                *)
EXTENDS Engine, TLC

CONSTANTS p, I64, Str, Person, Robot

Symmetry == Permutations(Id)

\* Graph instances: no schema, no properties.
NoProperties == {<<>>}

\* Fault instances: one property, absent or of one of two types; schemas that
\* declare one label, with the property typed or undeclared.
OneProperty == {<<>>} \cup [{p} -> {I64, Str}]
TwoSchemas == {[version |-> 1, tables |-> Person :> (p :> I64)],
               [version |-> 2, tables |-> Robot :> <<>>]}
=============================================================================
