------------------------------- MODULE Schema -------------------------------
(* Controller-pushed schemas (morceau-core/src/schema.rs) and the two checks   *)
(* the engine runs against the schema in force before an insert is committed.  *)
(*                                                                             *)
(* A property value is abstracted to its type: that is all that validation     *)
(* reads.  A property map is a function from the names it carries to types.    *)
(* TableKind is left out: nothing in the engine ever reads it.                 *)
EXTENDS Naturals

CONSTANTS
    Label,       \* labels of nodes and edges
    Property,    \* property names
    ValueType,   \* the variants of Value
    Null,        \* the variant Value::Null
    NoSchema     \* current_schema = None

ASSUME SchemaAssumption == Null \in ValueType

PropertyType == ValueType \ {Null}
Properties == UNION {[P -> ValueType] : P \in SUBSET Property}
TableSchema == UNION {[P -> PropertyType] : P \in SUBSET Property}
SchemaValue == [version : Nat, tables : UNION {[L -> TableSchema] : L \in SUBSET Label}]

has_label(schema, label) == label \in DOMAIN schema.tables

matches(declared, type) == type = Null \/ type = declared

validate_label(schema, label) == schema # NoSchema => has_label(schema, label)

\* Only declared properties are checked, and only if the insert carries them.
validate_properties(schema, label, properties) ==
    (schema # NoSchema /\ has_label(schema, label)) =>
        \A name \in DOMAIN schema.tables[label] \cap DOMAIN properties :
            matches(schema.tables[label][name], properties[name])

\* A mutant: undeclared labels are let through.
Conforms_properties(schema, label, properties) ==
    validate_properties(schema, label, properties)

Conforms(schema, label, properties) ==
    /\ validate_label(schema, label)
    /\ validate_properties(schema, label, properties)
=============================================================================
