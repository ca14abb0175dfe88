-------------------------------- MODULE Int32 --------------------------------
(***************************************************************************)
(* The signed integers of 32 bits of the serialization library, outside     *)
(* this repository, as Seed makes them of quantities minted and of numbers  *)
(* in metadata (src/utils/serialization.util.ts 756 and 943): Int.new_i32   *)
(* takes a JavaScript number modulo the width.  They end at Half and -Half. *)
(***************************************************************************)
EXTENDS Integers

CONSTANT Half  \* half the width, 2^31 in the library

ASSUME HalfAssumption == Half \in Nat \ {0}

(* Mutant: the integers have no width.                                      *)
NewI32Unbounded(n) == n

(* Int.new_i32: the number modulo the width, as a signed one.               *)
NewI32(n) == ((n + Half) % (2 * Half)) - Half

Fits(n) == -Half <= n /\ n < Half
=============================================================================
