--------------------------- MODULE PlainSelection ---------------------------
(***************************************************************************)
(* What one call of Utils.coinSelection (src/common/utils.ts 31-86) may     *)
(* return, and what it throws instead, when outputs hold lovelace only.     *)
(* CoinSelection models the call turn by turn, and implements this;         *)
(* WalletSelection uses it for the calls it makes.                          *)
(***************************************************************************)
EXTENDS Integers, FiniteSets, Functions

CONSTANTS
  Coin,      \* the lovelace of each output
  MinUtxo    \* the lovelace an output must hold

Worth(S) == SumFunctionOnSet(Coin, S)

(* T is what the loop pops from S, largest first, until it has n lovelace.  *)
IsCover(T, S, n) ==
  /\ T \subseteq S
  /\ \A o \in T, p \in S \ T : Coin[o] >= Coin[p]
  /\ Worth(T) >= n
  /\ \E o \in T : (\A p \in T : Coin[o] <= Coin[p]) /\ Worth(T \ {o}) < n

Covers(S, n) == {T \in SUBSET S : IsCover(T, S, n)}

IsDust(n) == 0 < n /\ n < MinUtxo

(* The top-up of change that is dust, if the rest of S and the limit allow  *)
(* it; its failure is swallowed.                                            *)
Topped(T, S, n, c) ==
  LET change == Worth(T) - n
      extra == {U \in Covers(S \ T, MinUtxo - change) : Cardinality(T \cup U) <= c}
  IN  IF extra = {} THEN {T} ELSE {T \cup U : U \in extra}

(* What a call on S may return, and what it throws instead.                 *)
Selected(S, n, c, chk) ==
  UNION {IF chk /\ IsDust(Worth(T) - n) THEN Topped(T, S, n, c) ELSE {T} :
           T \in {T \in Covers(S, n) : Cardinality(T) <= c}}

Thrown(S, n, c) ==
  IF n = 0 THEN "typeError"
  ELSE IF Worth(S) >= n \/ Cardinality(S) > c THEN "tooMany"
  ELSE "exhausted"
=============================================================================
