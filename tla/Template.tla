------------------------------ MODULE Template ------------------------------
(***************************************************************************)
(* The template pallet (pallets/template/src/lib.rs): one optional u32.    *)
(***************************************************************************)
EXTENDS Integers

CONSTANTS
    U32Max,       \* 2^32 - 1
    Values,       \* the u32 values that do_something is called with
    NoValue       \* the value of Something that was never put

ASSUME TemplateAssumption == U32Max \in Nat /\ Values \subseteq 0 .. U32Max

VARIABLE Something

TemplateInit == Something = NoValue

do_something(something) == Something' = something

\* Err(NoneValue) and Err(StorageOverflow) otherwise
cause_error ==
    /\ Something # NoValue
    /\ Something + 1 <= U32Max
    /\ Something' = Something + 1
=============================================================================
