-------------------------- MODULE MCCoinSelection --------------------------
(***************************************************************************)
(* CoinSelection over lists of up to three outputs and two assets.          *)
(* The lovelace scale is shrunk so that 2 is the minimum of a plain output; *)
(* each asset adds 1.  The outputs include one whose lovelace is all locked *)
(* up, one locked up by a datum, and one made below today's minimum.        *)
(***************************************************************************)
EXTENDS CoinSelection

CONSTANTS a, b

Bundle(x, y) == [z \in {a, b} |-> IF z = a THEN x ELSE y]
Out(c, x, y, e) == [coin |-> c, assets |-> Bundle(x, y), extra |-> e]

MCOutput == {
  Out(1, 0, 0, 0), Out(2, 0, 0, 0), Out(4, 0, 0, 1),   \* lovelace only
  Out(3, 1, 0, 0), Out(5, 1, 0, 0), Out(4, 2, 0, 0),   \* asset a: 3 is locked up
  Out(4, 0, 1, 1), Out(5, 0, 1, 0),                    \* asset b
  Out(5, 1, 1, 0), Out(2, 1, 0, 0)}                    \* both; below the minimum

Ask(c, D, x, y) == [coin |-> c, assets |-> [z \in D |-> Bundle(x, y)[z]]]

(* What today's ledger accepts.                                             *)
MCValidOutput == {o \in MCOutput :
  o.coin >= 2 + Cardinality({z \in {a, b} : o.assets[z] > 0}) + o.extra}

MCRequest == {
  Ask(0, {}, 0, 0),        \* a wallet request with no value at all
  Ask(3, {}, 0, 0), Ask(5, {}, 0, 0),
  Ask(2, {a}, 1, 0), Ask(4, {a}, 2, 0), Ask(3, {a, b}, 1, 1),
  Ask(3, {a}, 0, 0)}       \* an asset listed with quantity 0

MCMinUtxo == [S \in SUBSET {a, b} |-> 2 + Cardinality(S)]
=============================================================================
