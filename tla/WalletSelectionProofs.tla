------------------------ MODULE WalletSelectionProofs ------------------------
(***************************************************************************)
(* Theorems about WalletSelection, for any wallet, page size, limit and     *)
(* amount.                                                                  *)
(***************************************************************************)
EXTENDS WalletSelection, Sums, TLAPS

(* What a call returns is of the outputs it was given.                      *)
LEMMA SelectedIsGiven ==
  ASSUME NEW S, NEW n, NEW c, NEW chk, NEW T \in Selected(S, n, c, chk)
  PROVE  T \subseteq S
<1>1. PICK U \in Covers(S, n) :
        T \in IF chk /\ IsDust(Worth(U) - n) THEN Topped(U, S, n, c) ELSE {U}
  BY DEF Selected
<1>2. U \subseteq S
  BY DEF Covers
<1>3. CASE T \in Topped(U, S, n, c)
  <2> DEFINE extra == {V \in Covers(S \ U, MinUtxo - (Worth(U) - n)) : Cardinality(U \cup V) <= c}
  <2>1. T \in IF extra = {} THEN {U} ELSE {U \cup V : V \in extra}
    BY <1>3 DEF Topped
  <2>2. \A V \in extra : V \subseteq S \ U
    BY DEF Covers
  <2> HIDE DEF extra
  <2> QED BY <1>2, <2>1, <2>2
<1>4. CASE T = U
  BY <1>2, <1>4
<1> QED BY <1>1, <1>3, <1>4

(* A request starts well typed.                                             *)
LEMMA InitType == Init => TypeOK
BY DEF Init, TypeOK, Unspent

(* What a failed selection throws is a refusal.                             *)
LEMMA ThrownType ==
  ASSUME NEW S, NEW n, NEW c
  PROVE  Thrown(S, n, c) \in Refusal
BY DEF Thrown, Refusal

(* What the end of a listing leaves.                                        *)
LEMMA CollectType ==
  ASSUME TypeOK, Collect
  PROVE  \E R \in SUBSET (snapshot \cup At(current)) :
           /\ R \subseteq snapshot /\ R \subseteq made
           /\ utxos' = utxos \cup R \/ (kind = "address" /\ utxos' = R)
           /\ twice' = twice \/ (kind = "wallet" /\ twice' = twice \cup (utxos \cap R))
           /\ selection' = selection \/ selection' \subseteq utxos'
           /\ pc' \in {"list", "first", "done"} /\ (pc' = "list" => more)
           /\ outcome' \in {"none", "selected", "error"} \cup Refusal
<1>1. PICK R \in SUBSET (snapshot \cup At(current)) :
        MayList(R) /\ IF kind = "wallet" THEN TryWallet(R) ELSE TryAddress(R)
  BY DEF Collect
<1>2. R \subseteq snapshot /\ R \subseteq made
  BY <1>1 DEF MayList, Listing!Promised, TypeOK
<1>3. CASE kind = "wallet"
  <2> DEFINE answers == IF amount = 0 THEN {} ELSE Selected(Tried(R), amount, cap, check)
  <2>1. TryWallet(R)
    BY <1>1, <1>3
  <2>2. CASE R = {}
    BY <1>2, <2>1, <2>2, ThrownType DEF TryWallet, GoOn, End, TypeOK, Refusal
  <2>3. CASE R # {} /\ answers # {}
    <3>1. /\ twice' = twice \cup (utxos \cap R) /\ utxos' = utxos \cup R
          /\ selection' \in answers /\ pc' = "done" /\ outcome' = "selected"
      BY <2>1, <2>3 DEF TryWallet, End
    <3>2. selection' \subseteq utxos \cup R
      BY <3>1, SelectedIsGiven DEF Tried
    <3> QED BY <1>2, <1>3, <3>1, <3>2
  <2>4. CASE R # {} /\ answers = {}
    <3>1. /\ twice' = twice \cup (utxos \cap R) /\ utxos' = utxos \cup R
          /\ selection' = selection /\ GoOn(Thrown(Tried(R), amount, cap))
      BY <2>1, <2>4 DEF TryWallet, LeftByCall
    <3>2. /\ pc' \in {"list", "first", "done"} /\ (pc' = "list" => more)
          /\ outcome' \in {"none", "selected", "error"} \cup Refusal
      BY <3>1, ThrownType DEF GoOn, End, TypeOK
    <3> QED BY <1>2, <1>3, <3>1, <3>2
  <2> QED BY <2>2, <2>3, <2>4
<1>4. CASE kind # "wallet"
  <2>1. kind = "address" /\ TryAddress(R)
    BY <1>1, <1>4 DEF TypeOK
  <2>2. /\ utxos' = R /\ twice' = twice /\ pc' = "done"
        /\ \/ selection' = selection /\ outcome' \in Refusal
           \/ selection' \in Selected(R, Need, cap, check) /\ outcome' = "selected"
    BY <2>1, ThrownType DEF TryAddress, End, Refusal
  <2>3. selection' = selection \/ selection' \subseteq R
    BY <2>2, SelectedIsGiven
  <2> QED BY <1>2, <2>1, <2>2, <2>3
<1> QED BY <1>3, <1>4

(* The order the walk goes in: what it has collected lies before what it    *)
(* has yet to list, and up to the cursor if there is another page.          *)
Behind(o, n) == Place[Owner[o]] < n

WalkOk ==
  /\ kind = "address" => utxos = {} \/ pc = "done"
  /\ kind = "address" => ~ more /\ pc # "list"
  /\ \A o \in utxos, x \in page : Behind(o, Place[x])
  /\ pc = "rest" => /\ \A o \in utxos : Behind(o, Place[current])
                    /\ \A x \in page : Place[current] < Place[x]
                    /\ more => Place[current] <= cursor
  /\ pc = "list" => page = {}
  /\ more => \A x \in page : Place[x] <= cursor
  /\ more \/ pc = "list" => \A o \in utxos : Behind(o, cursor + 1)

IInv == TypeOK /\ WalkOk /\ NoDuplicates
(* Addresses have places in the ledger's order.                             *)
LEMMA PlaceType == \A x \in Address : Place[x] \in Nat
BY AddressAssumption

(* The invariant holds when a request comes in.                             *)
LEMMA InitInv == Init => IInv
<1> SUFFICES ASSUME Init PROVE IInv
  OBVIOUS
<1> QED BY InitType DEF Init, IInv, WalkOk, NoDuplicates

(* A transaction of the ledger keeps the invariant.                         *)
LEMMA CommitInv ==
  ASSUME IInv, NEW ins, NEW outs, Commit(ins, outs)
  PROVE  IInv'
<1>1. TypeOK'
  BY DEF IInv, Commit, TypeOK, Unspent, request, walk
<1>2. WalkOk' /\ NoDuplicates'
  BY DEF IInv, Commit, WalkOk, Behind, NoDuplicates, request, walk
<1> QED BY <1>1, <1>2 DEF IInv

(* Reading a page of addresses keeps the invariant.                         *)
LEMMA ListInv ==
  ASSUME IInv, List
  PROVE  IInv'
<1>1. PICK P \in SUBSET Ahead :
        /\ page' = P /\ more' = (P # Ahead)
        /\ IF P # Ahead THEN cursor' \in Cursor(P) ELSE UNCHANGED cursor
        /\ IF P = {} THEN End("notEnough") ELSE pc' = "first" /\ UNCHANGED outcome
  BY DEF List
<1>2. pc = "list" /\ UNCHANGED <<made, spent, kind, amount, cap, check, current, snapshot, utxos,
                               twice, selection, kept>>
  BY DEF List, ledger, request
<1>3. \A x \in Ahead : x \in Address /\ cursor < Place[x] /\ Place[x] \in Nat
  BY OutputAssumption, PlaceType DEF Ahead, IInv, TypeOK
<1>4. cursor \in Int /\ \A o \in utxos : Owner[o] \in Address /\ Place[Owner[o]] \in Int
  BY OutputAssumption, PlaceType DEF IInv, TypeOK
<1>5. kind # "address" /\ page = {} /\ \A o \in utxos : Place[Owner[o]] < cursor + 1
  BY <1>2 DEF IInv, WalkOk, Behind
<1>6. P # Ahead => \E x \in P : cursor' = Place[x] /\ \A z \in P : Place[z] <= Place[x]
  BY <1>1 DEF Cursor
<1>7. TypeOK'
  BY <1>1, <1>2, <1>3, <1>6 DEF IInv, TypeOK, End, Refusal, Unspent
<1>8. \A o \in utxos, x \in P : Place[Owner[o]] < Place[x]
  BY <1>3, <1>4, <1>5
<1>9. P # Ahead => \A o \in utxos : Place[Owner[o]] < cursor' + 1
  BY <1>3, <1>4, <1>6, <1>8
<1>10. pc' \in {"first", "done"}
  BY <1>1 DEF End
<1>11. WalkOk'
  BY <1>1, <1>2, <1>5, <1>6, <1>8, <1>9, <1>10 DEF WalkOk, Behind
<1> QED BY <1>2, <1>7, <1>11 DEF IInv, NoDuplicates

(* Beginning to list an address keeps the invariant.                        *)
LEMMA BeginInv ==
  ASSUME IInv, Begin
  PROVE  IInv'
<1>1. PICK x \in page :
        /\ \A y \in page : Place[x] <= Place[y]
        /\ current' = x /\ page' = page \ {x} /\ snapshot' = At(x)
  BY DEF Begin
<1>2. pc = "first" /\ pc' = "rest"
      /\ UNCHANGED <<made, spent, kind, amount, cap, check, cursor, more, utxos, twice,
                     selection, outcome, kept>>
  BY DEF Begin, ledger, request
<1>3. \A y \in page : y \in Address /\ Place[y] \in Nat
  BY PlaceType DEF IInv, TypeOK
<1>4. TypeOK'
  BY <1>1, <1>2, <1>3 DEF IInv, TypeOK, At, Unspent
<1>5. \A y \in page \ {x} : Place[x] < Place[y]
  BY <1>1, <1>3, AddressAssumption
<1>6. WalkOk'
  BY <1>1, <1>2, <1>5 DEF IInv, WalkOk, Behind
<1> QED BY <1>2, <1>4, <1>6 DEF IInv, NoDuplicates

(* Collecting an address's outputs keeps the invariant.                     *)
LEMMA CollectInv ==
  ASSUME IInv, Collect
  PROVE  IInv'
<1> USE DEF IInv
<1>1. PICK R \in SUBSET (snapshot \cup At(current)) :
        /\ R \subseteq snapshot /\ R \subseteq made
        /\ utxos' = utxos \cup R \/ (kind = "address" /\ utxos' = R)
        /\ twice' = twice \/ (kind = "wallet" /\ twice' = twice \cup (utxos \cap R))
        /\ selection' = selection \/ selection' \subseteq utxos'
        /\ pc' \in {"list", "first", "done"} /\ (pc' = "list" => more)
        /\ outcome' \in {"none", "selected", "error"} \cup Refusal
  BY CollectType
<1>2. pc = "rest"
      /\ UNCHANGED <<made, spent, kind, amount, cap, check, cursor, page, more, current,
                     snapshot, kept>>
  BY DEF Collect, ledger, request, walk
<1>3. kind = "address" => utxos = {} /\ ~ more
  BY <1>2 DEF WalkOk
<1>4. utxos' = utxos \cup R
  BY <1>1, <1>3
<1>5. \A o \in R : Owner[o] = current
  BY <1>1 DEF TypeOK
<1>6. current \in Address /\ Place[current] \in Nat /\ cursor \in Int
      /\ \A o \in utxos : Place[Owner[o]] \in Nat
  BY OutputAssumption, PlaceType DEF TypeOK
<1>7. \A o \in utxos : Place[Owner[o]] < Place[current]
  BY <1>2 DEF WalkOk, Behind
<1>8. utxos \cap R = {}
  BY <1>5, <1>6, <1>7
<1>9. NoDuplicates'
  BY <1>1, <1>8 DEF NoDuplicates
<1>10. TypeOK'
  BY <1>1, <1>2, <1>4, <1>9 DEF TypeOK, NoDuplicates, Unspent
<1>11. \A x \in page : x \in Address /\ Place[x] \in Nat /\ Place[current] < Place[x]
  BY <1>2, PlaceType DEF WalkOk, TypeOK
<1>12. \A o \in utxos \cup R : Place[Owner[o]] <= Place[current] /\ Place[Owner[o]] \in Nat
  BY <1>5, <1>6, <1>7
<1>13. more => Place[current] <= cursor
  BY <1>2 DEF WalkOk
<1>14. \A o \in utxos \cup R, x \in page : Place[Owner[o]] < Place[x]
  BY <1>6, <1>11, <1>12
<1>15. more => \A o \in utxos \cup R : Place[Owner[o]] < cursor + 1
  BY <1>6, <1>12, <1>13
<1>16. kind = "address" => pc' = "done"
  <2> SUFFICES ASSUME kind = "address" PROVE pc' = "done"
    OBVIOUS
  <2>1. PICK Q : TryAddress(Q)
    BY DEF Collect
  <2> QED BY <2>1 DEF TryAddress, End
<1>17. pc' = "list" => page = {}
  <2> SUFFICES ASSUME pc' = "list" PROVE page = {}
    OBVIOUS
  <2>1. PICK Q : TryWallet(Q)
    BY <1>16 DEF Collect, TypeOK, TryAddress, End
  <2> QED BY <2>1 DEF TryWallet, GoOn, End
<1>18. WalkOk'
  BY <1>1, <1>2, <1>3, <1>4, <1>14, <1>15, <1>16, <1>17 DEF WalkOk, Behind
<1> QED BY <1>9, <1>10, <1>18

(* Every step keeps the invariant.                                          *)
LEMMA NextInv == IInv /\ [Next]_vars => IInv'
<1> SUFFICES ASSUME IInv, [Next]_vars PROVE IInv'
  OBVIOUS
<1>1. ASSUME NEW ins, NEW outs, Commit(ins, outs) PROVE IInv'
  BY <1>1, CommitInv
<1>2. CASE List
  BY <1>2, ListInv
<1>3. CASE Begin
  BY <1>3, BeginInv
<1>4. CASE Collect
  BY <1>4, CollectInv
<1>5. CASE Break
  <2>1. TypeOK'
    BY <1>5 DEF IInv, TypeOK, Break, End, ledger, request, walk, Unspent
  <2>2. WalkOk' /\ NoDuplicates'
    BY <1>5 DEF IInv, WalkOk, Behind, NoDuplicates, Break, End, ledger, request, walk
  <2> QED BY <2>1, <2>2 DEF IInv
<1>6. CASE UNCHANGED vars
  BY <1>6 DEF IInv, TypeOK, WalkOk, Behind, NoDuplicates, vars, Unspent
<1> QED BY <1>1, <1>2, <1>3, <1>4, <1>5, <1>6 DEF Next

(* The invariant holds for every wallet.                                    *)
THEOREM Invariant == Spec => []IInv
<1> QED BY InitInv, NextInv, PTL DEF Spec

(* Every variable has its type, and what is selected was collected.         *)
THEOREM TypeCorrect == Spec => []TypeOK
<1>1. IInv => TypeOK
  BY DEF IInv
<1> QED BY <1>1, Invariant, PTL

(* No output is collected twice, whatever addresses appear while the pages  *)
(* are read (stakes.service.ts 63-70).                                      *)
THEOREM NothingTwice == Spec => []NoDuplicates
<1>1. IInv => NoDuplicates
  BY DEF IInv
<1> QED BY <1>1, Invariant, PTL

-----------------------------------------------------------------------------
(* What a call of Utils.coinSelection can find.                             *)

(* What outputs are worth together is a natural number.                     *)
LEMMA WorthType ==
  ASSUME NEW S \in SUBSET Output
  PROVE  IsFiniteSet(S) /\ Worth(S) \in Nat
<1>1. IsFiniteSet(S)
  BY OutputAssumption, FS_Subset
<1> QED BY <1>1, OutputAssumption, SumNat DEF Worth

(* A part of some outputs is worth no more than all of them.                *)
LEMMA WorthMonotone ==
  ASSUME NEW S \in SUBSET Output, NEW T \in SUBSET S
  PROVE  Worth(T) <= Worth(S)
<1>1. IsFiniteSet(S)
  BY WorthType
<1> QED BY <1>1, OutputAssumption, SumMonotone DEF Worth

(* A selection is worth what was asked for, within the limit.               *)
LEMMA SelectedPays ==
  ASSUME NEW S \in SUBSET Output, NEW n \in Nat, NEW c \in Nat, NEW chk,
         NEW T \in Selected(S, n, c, chk)
  PROVE  Worth(T) >= n /\ Cardinality(T) <= c
<1>1. PICK U \in Covers(S, n) :
        /\ Cardinality(U) <= c
        /\ T \in IF chk /\ IsDust(Worth(U) - n) THEN Topped(U, S, n, c) ELSE {U}
  BY DEF Selected
<1>2. U \subseteq S /\ Worth(U) >= n
  BY DEF Covers, IsCover
<1>3. CASE T \in Topped(U, S, n, c)
  <2> DEFINE extra == {V \in Covers(S \ U, MinUtxo - (Worth(U) - n)) : Cardinality(U \cup V) <= c}
  <2>1. T \in IF extra = {} THEN {U} ELSE {U \cup V : V \in extra}
    BY <1>3 DEF Topped
  <2>2. CASE T = U
    BY <1>1, <1>2, <2>2
  <2>3. ASSUME NEW V \in extra, T = U \cup V PROVE Worth(T) >= n /\ Cardinality(T) <= c
    <3>1. V \subseteq S /\ Cardinality(U \cup V) <= c
      BY DEF Covers
    <3>2. T \in SUBSET Output /\ U \in SUBSET T
      BY <1>2, <2>3, <3>1
    <3>3. Worth(U) <= Worth(T) /\ Worth(T) \in Nat /\ Worth(U) \in Nat
      BY <3>2, WorthType, WorthMonotone
    <3> QED BY <1>2, <2>3, <3>1, <3>3
  <2> HIDE DEF extra
  <2> QED BY <2>1, <2>2, <2>3
<1>4. CASE T = U
  BY <1>1, <1>2, <1>4
<1> QED BY <1>1, <1>3, <1>4

(* Every output of P holds at least as much as every output of S left out.  *)
TopOf(P, S) == P \subseteq S /\ \A o \in P, p \in S \ P : Coin[o] >= Coin[p]

(* What the loop has popped is never worth less than as many other outputs. *)
LEMMA TopIsWorthMost ==
  ASSUME NEW S \in SUBSET Output, NEW Q, TopOf(Q, S), NEW T \in SUBSET S,
         Cardinality(T) <= Cardinality(Q)
  PROVE  Worth(T) <= Worth(Q)
<1>1. \A o \in S : Coin[o] \in Nat
  BY OutputAssumption
<1> QED BY <1>1, WorthType, SumTop DEF TopOf, Worth

(* The greedy loop fails only where every choice fails: if some outputs     *)
(* within the limit are worth the amount, the largest first are too.        *)
LEMMA NothingServes ==
  ASSUME NEW S \in SUBSET Output, NEW n \in Nat, n > 0, NEW c \in Nat, NEW chk,
         Selected(S, n, c, chk) = {}, NEW T \in SUBSET S, Cardinality(T) <= c
  PROVE  Worth(T) < n
<1> SUFFICES ASSUME Worth(T) >= n PROVE FALSE
  BY WorthType
<1>0. IsFiniteSet(S) /\ IsFiniteSet(T) /\ Worth(T) \in Nat /\ Worth(S) \in Nat
  BY WorthType
<1> DEFINE F == {P \in SUBSET S : TopOf(P, S) /\ Worth(P) >= n}
<1>1. F \subseteq FiniteSubsetsOf(S) /\ F # {}
  <2>1. Worth(S) >= n
    BY <1>0, WorthMonotone
  <2>2. S \in F
    BY <2>1 DEF TopOf
  <2> QED BY <1>0, <2>2, FS_Subset DEF FiniteSubsetsOf
<1>2. PICK P \in F : \A V \in F : ~(V \subseteq P /\ V # P)
  <2> HIDE DEF F
  <2> QED BY <1>1, MinimalSet
<1>3. P \in SUBSET Output /\ IsFiniteSet(P) /\ TopOf(P, S) /\ Worth(P) >= n
  BY <1>2, WorthType
<1>4. PICK o \in P : \A p \in P : Coin[o] <= Coin[p]
  <2> DEFINE R == {Coin[p] : p \in P}
  <2>1. R \subseteq Nat
    BY <1>3, OutputAssumption
  <2>2. P # {}
    <3>1. SumFunctionOnSet(Coin, {}) = 0
      BY SumEmpty
    <3> QED BY <1>3, <3>1 DEF Worth
  <2>3. R # {}
    BY <2>2
  <2>4. \E m \in R : \A k \in R : m <= k
    <3> HIDE DEF R
    <3> QED BY <2>1, <2>3, LeastNatural
  <2> QED BY <2>4
<1> DEFINE Q == P \ {o}
<1>5. TopOf(Q, S)
  <2> SUFFICES ASSUME NEW q \in Q, NEW p \in S \ Q PROVE Coin[q] >= Coin[p]
    BY <1>3 DEF TopOf
  <2>1. CASE p = o
    <3>1. Coin[o] \in Nat /\ Coin[q] \in Nat
      BY <1>3, OutputAssumption
    <3> QED BY <1>4, <2>1, <3>1
  <2>2. CASE p # o
    BY <1>3, <2>2 DEF TopOf
  <2> QED BY <2>1, <2>2
<1>6. Worth(Q) < n /\ Worth(Q) \in Nat
  <2>1. Worth(Q) \in Nat
    BY <1>3, WorthType
  <2>2. Q \notin F
    BY <1>2
  <2>3. Q \in SUBSET S
    BY <1>2
  <2>4. ~(Worth(Q) >= n)
    <3> HIDE DEF Q
    <3> QED BY <1>5, <2>2, <2>3
  <2> QED BY <2>1, <2>4
<1>7. P \in Covers(S, n)
  BY <1>2, <1>3, <1>4, <1>6 DEF Covers, IsCover, TopOf
<1>8. Cardinality(P) <= c
  <2>1. Cardinality(Q) = Cardinality(P) - 1 /\ Cardinality(P) \in Nat
    BY <1>3, FS_RemoveElement, FS_CardinalityType
  <2>2. Cardinality(T) \in Nat
    BY <1>0, FS_CardinalityType
  <2> SUFFICES ASSUME Cardinality(P) > c PROVE FALSE
    BY <2>1
  <2>3. Cardinality(T) <= Cardinality(Q)
    BY <2>1, <2>2
  <2>4. Worth(T) <= Worth(Q)
    <3> HIDE DEF Q
    <3> QED BY <1>5, <2>3, TopIsWorthMost
  <2> QED BY <1>0, <1>6, <2>4
<1>9. (IF chk /\ IsDust(Worth(P) - n) THEN Topped(P, S, n, c) ELSE {P}) # {}
  BY DEF Topped
<1>10. Selected(S, n, c, chk) # {}
  BY <1>7, <1>8, <1>9 DEF Selected
<1> QED BY <1>10

-----------------------------------------------------------------------------
(* The walk misses nothing that stays.                                      *)

(* The outputs that were there all the time and that the request is about.  *)
Mine == IF kind = "wallet" THEN kept ELSE {o \in kept : Owner[o] = current}

(* The walk has collected the output, or will come to it.                   *)
Coming(o) ==
  \/ o \in utxos
  \/ Owner[o] \in page
  \/ (pc = "list" \/ more) /\ Place[Owner[o]] > cursor
  \/ pc = "rest" /\ Owner[o] = current /\ o \in snapshot

(* No selection from what was collected so far succeeded.                   *)
FailedSoFar ==
  amount > 0 /\ utxos # {} => Selected(utxos, amount, cap, check) = {}

Searching ==
  /\ outcome = "none" <=> pc # "done"
  /\ kind = "address" /\ pc = "first" => page = {current}
  /\ pc # "done" => (\A o \in Mine : Coming(o)) /\ FailedSoFar

SInv == Searching /\ RefusalGenuine /\ SelectionPays

(* Nothing collected, or nothing that serves: no choice among the outputs   *)
(* collected is worth the amount.                                           *)
LEMMA NothingCollectedServes ==
  ASSUME NEW S \in SUBSET Output, NEW n \in Nat, n > 0, NEW c \in Nat, NEW chk,
         S = {} \/ Selected(S, n, c, chk) = {}, NEW T \in SUBSET S, Cardinality(T) <= c
  PROVE  Worth(T) < n
<1>1. CASE S = {}
  <2>1. SumFunctionOnSet(Coin, {}) = 0 /\ T = {}
    BY <1>1, SumEmpty
  <2> QED BY <2>1 DEF Worth
<1>2. CASE Selected(S, n, c, chk) = {}
  BY <1>2, NothingServes
<1> QED BY <1>1, <1>2

(* What is needed, and the limit, are natural numbers.                      *)
LEMMA NeedType == TypeOK => amount \in Nat /\ cap \in Nat /\ Need \in Nat
BY AskAssumption, PageAssumption DEF TypeOK, Need

(* At first all that is needed is still to come.                            *)
LEMMA InitSearch == Init => SInv
<1> SUFFICES ASSUME Init PROVE SInv
  OBVIOUS
<1>1. \A o \in kept : Owner[o] \in Address /\ Place[Owner[o]] > cursor
  BY OutputAssumption, PlaceType DEF Init, Unspent
<1>2. outcome = "none" /\ utxos = {}
  BY DEF Init
<1>3. Searching
  BY <1>1, <1>2 DEF Init, Searching, Mine, Coming, FailedSoFar
<1> QED BY <1>2, <1>3 DEF SInv, RefusalGenuine, SelectionPays

(* The request and its answer stay, and outputs may be spent.               *)
LEMMA SpendingKeeps ==
  ASSUME SInv, UNCHANGED <<request, walk, utxos, selection>>, kept' \subseteq kept,
         \/ UNCHANGED <<pc, outcome>>
         \/ pc' = "done" /\ outcome' = "error"
  PROVE  SInv'
<1> USE DEF SInv, request, walk
<1>1. Mine' \subseteq Mine
  BY DEF Mine
<1>2. Searching'
  BY <1>1 DEF Searching, Coming, FailedSoFar
<1>3. RefusalGenuine'
  BY DEF RefusalGenuine, Need
<1>4. SelectionPays'
  BY DEF SelectionPays, Need
<1> QED BY <1>2, <1>3, <1>4

(* A page of addresses leaves out none that is still to come.               *)
LEMMA ListSearch ==
  ASSUME IInv, SInv, List
  PROVE  SInv'
<1> USE DEF SInv, IInv
<1>1. PICK P \in SUBSET Ahead :
        /\ P = Ahead \/ Cardinality(P) = PageSize
        /\ \A x \in P, y \in Ahead \ P : Place[x] < Place[y]
        /\ page' = P /\ more' = (P # Ahead)
        /\ IF P # Ahead THEN cursor' \in Cursor(P) ELSE UNCHANGED cursor
        /\ IF P = {} THEN End("notEnough") ELSE pc' = "first" /\ UNCHANGED outcome
  BY DEF List
<1>2. pc = "list" /\ outcome = "none" /\ kind = "wallet" /\ page = {}
      /\ UNCHANGED <<made, spent, kind, amount, cap, check, current, snapshot, utxos,
                     selection, kept>>
  BY DEF List, ledger, request, Searching, WalkOk, TypeOK
<1>3. \A o \in kept : o \in utxos \/ Owner[o] \in Ahead
  <2> SUFFICES ASSUME NEW o \in kept, o \notin utxos PROVE Owner[o] \in Ahead
    OBVIOUS
  <2>1. Place[Owner[o]] > cursor
    BY <1>2 DEF Searching, Mine, Coming
  <2> QED BY <2>1 DEF Ahead, TypeOK, Unspent
<1>4. CASE P = {}
  <2>1. P = Ahead
    BY <1>1, <1>4, FS_EmptySet, PageAssumption
  <2>2. kept \subseteq utxos
    BY <1>3, <1>4, <2>1
  <2>3. pc' = "done" /\ outcome' = "notEnough"
    BY <1>1, <1>4 DEF End
  <2>4. RefusalGenuine'
    <3> SUFFICES ASSUME Need' > 0, NEW T \in SUBSET kept, Cardinality(T) <= cap
                 PROVE  Worth(T) < Need'
      BY <1>2 DEF RefusalGenuine
    <3>1. Need' = amount /\ amount \in Nat /\ cap \in Nat
      BY <1>2, NeedType DEF Need
    <3>2. utxos \in SUBSET Output /\ T \in SUBSET utxos
      BY <2>2 DEF TypeOK
    <3>3. utxos = {} \/ Selected(utxos, amount, cap, check) = {}
      BY <1>2, <3>1 DEF Searching, FailedSoFar
    <3> QED BY <3>1, <3>2, <3>3, NothingCollectedServes
  <2> QED BY <2>3, <2>4 DEF Searching, SelectionPays
<1>5. CASE P # {}
  <2>1. pc' = "first" /\ outcome' = "none"
    BY <1>1, <1>2, <1>5
  <2>2. ASSUME NEW o \in kept PROVE o \in utxos \/ Owner[o] \in P \/ (more' /\ Place[Owner[o]] > cursor')
    <3> SUFFICES ASSUME Owner[o] \in Ahead \ P PROVE more' /\ Place[Owner[o]] > cursor'
      BY <1>3
    <3>1. P # Ahead
      OBVIOUS
    <3>2. PICK x \in P : cursor' = Place[x]
      BY <1>1, <3>1 DEF Cursor
    <3>3. Place[x] < Place[Owner[o]]
      BY <1>1
    <3>4. Place[x] \in Nat /\ Place[Owner[o]] \in Nat
      BY PlaceType, OutputAssumption DEF Ahead, TypeOK
    <3> QED BY <1>1, <3>1, <3>2, <3>3, <3>4
  <2>3. Searching'
    BY <1>1, <1>2, <2>1, <2>2 DEF Searching, Mine, Coming, FailedSoFar
  <2> QED BY <2>1, <2>3 DEF RefusalGenuine, SelectionPays
<1> QED BY <1>4, <1>5

(* The snapshot of an address has what is to come from it.                  *)
LEMMA BeginSearch ==
  ASSUME IInv, SInv, Begin
  PROVE  SInv'
<1> USE DEF SInv, IInv
<1>1. PICK x \in page : current' = x /\ page' = page \ {x} /\ snapshot' = At(x)
  BY DEF Begin
<1>2. pc = "first" /\ pc' = "rest" /\ outcome = "none"
      /\ UNCHANGED <<made, spent, kind, amount, cap, check, cursor, more, utxos,
                     selection, outcome, kept>>
  BY DEF Begin, ledger, request, Searching
<1>3. Mine' = Mine
  BY <1>1, <1>2 DEF Mine, Searching, TypeOK
<1>4. ASSUME NEW o \in Mine PROVE Coming(o)'
  <2>1. o \in Unspent
    BY DEF Mine, TypeOK
  <2>2. CASE Owner[o] = x
    BY <1>1, <1>2, <2>1, <2>2 DEF Coming, At
  <2>3. CASE Owner[o] # x
    BY <1>1, <1>2, <2>3 DEF Searching, Coming
  <2> QED BY <2>2, <2>3
<1>5. Searching'
  BY <1>2, <1>3, <1>4 DEF Searching, FailedSoFar
<1> QED BY <1>2, <1>5 DEF RefusalGenuine, SelectionPays

(* The end of a listing: what stayed at its address is in the list.         *)
LEMMA CollectSearch ==
  ASSUME IInv, SInv, Collect
  PROVE  SInv'
<1> USE DEF SInv, IInv
<1>1. PICK R \in SUBSET (snapshot \cup At(current)) :
        MayList(R) /\ IF kind = "wallet" THEN TryWallet(R) ELSE TryAddress(R)
  BY DEF Collect
<1>2. pc = "rest" /\ outcome = "none"
      /\ UNCHANGED <<made, spent, kind, amount, cap, check, cursor, page, more, current,
                     snapshot, kept>>
  BY DEF Collect, ledger, request, walk, Searching
<1>3. R \subseteq snapshot /\ R \subseteq made /\ At(current) \cap snapshot \subseteq R
  BY <1>1 DEF MayList, Listing!Promised, TypeOK
<1>4. R \in SUBSET Output /\ utxos \in SUBSET Output /\ utxos \cup R \in SUBSET Output
  BY <1>3 DEF TypeOK
<1>5. amount \in Nat /\ cap \in Nat /\ Need \in Nat /\ Need' = Need
  BY <1>2, NeedType DEF Need
<1>6. Mine' = Mine
  BY <1>2 DEF Mine
<1>7. \A o \in Mine :
        \/ o \in utxos \cup R
        \/ Owner[o] \in page
        \/ more /\ Place[Owner[o]] > cursor
  <2> SUFFICES ASSUME NEW o \in Mine
               PROVE  \/ o \in utxos \cup R
                      \/ Owner[o] \in page
                      \/ more /\ Place[Owner[o]] > cursor
    OBVIOUS
  <2>1. Coming(o)
    BY <1>2 DEF Searching
  <2>2. ASSUME Owner[o] = current, o \in snapshot PROVE o \in R
    <3>1. o \in At(current)
      BY <2>2 DEF Mine, At, TypeOK
    <3> QED BY <1>3, <2>2, <3>1
  <2>3. pc # "list"
    BY <1>2
  <2>4. CASE (pc = "list" \/ more) /\ Place[Owner[o]] > cursor
    BY <2>3, <2>4
  <2> QED BY <2>1, <2>2, <2>4 DEF Coming
<1>8. ASSUME NEW S \in SUBSET Output, NEW n \in Nat, n = Need,
             n > 0 => S = {} \/ Selected(S, n, cap, check) = {},
             Mine \subseteq S
      PROVE  RefusalGenuine'
  <2> SUFFICES ASSUME Need > 0, NEW T \in SUBSET Mine, Cardinality(T) <= cap
               PROVE  Worth(T) < Need
    BY <1>2, <1>5 DEF RefusalGenuine, Mine
  <2> QED BY <1>5, <1>8, NothingCollectedServes
<1>9. CASE kind = "address"
  <2>1. TryAddress(R) /\ ~more
    BY <1>1, <1>9 DEF WalkOk
  <2>2. utxos' = R /\ pc' = "done" /\ outcome' \in {"selected"} \cup Refusal
    BY <2>1, ThrownType DEF TryAddress, End, Refusal
  <2>3. Mine \subseteq R
    <3> SUFFICES ASSUME NEW o \in Mine PROVE o \in R
      OBVIOUS
    <3>1. Owner[o] = current /\ utxos = {}
      BY <1>2, <1>9 DEF Mine, WalkOk
    <3>2. current \notin page
      <4>1. \A x \in page : Place[current] < Place[x]
        BY <1>2 DEF WalkOk
      <4>2. Place[current] \in Nat
        BY PlaceType DEF TypeOK
      <4> QED BY <4>1, <4>2
    <3> QED BY <1>7, <2>1, <3>1, <3>2
  <2>4. CASE outcome' = "selected"
    <3>1. selection' \in Selected(R, Need, cap, check)
      BY <2>1, <2>4, ThrownType DEF TryAddress, End, Refusal
    <3>2. Worth(selection') >= Need /\ Cardinality(selection') <= cap
      BY <1>4, <1>5, <3>1, SelectedPays
    <3>3. selection' \subseteq snapshot
      BY <1>3, <3>1, SelectedIsGiven
    <3> QED BY <1>2, <1>5, <2>2, <2>4, <3>2, <3>3 DEF Searching, RefusalGenuine, SelectionPays
  <2>5. CASE outcome' # "selected"
    <3>1. outcome' = "belowMinimum" \/ Selected(R, Need, cap, check) = {}
      BY <2>1, <2>5 DEF TryAddress, End
    <3>2. RefusalGenuine'
      <4>1. CASE outcome' = "belowMinimum"
        BY <4>1 DEF RefusalGenuine
      <4>2. CASE Selected(R, Need, cap, check) = {}
        BY <1>4, <1>5, <1>8, <2>3, <4>2
      <4> QED BY <3>1, <4>1, <4>2
    <3> QED BY <2>2, <2>5, <3>2 DEF Searching, SelectionPays, Refusal
  <2> QED BY <2>4, <2>5
<1>10. CASE kind = "wallet"
  <2>1. TryWallet(R) /\ Need = amount /\ Mine = kept
    BY <1>1, <1>10 DEF Need, Mine
  <2> DEFINE S == utxos \cup R
             answers == IF amount = 0 THEN {} ELSE Selected(S, amount, cap, check)
  <2>2. CASE R # {} /\ answers # {}
    <3>1. utxos' = S /\ selection' \in answers /\ pc' = "done" /\ outcome' = "selected"
      BY <2>1, <2>2 DEF TryWallet, End, Tried
    <3>2. selection' \in Selected(S, amount, cap, check)
      BY <2>2, <3>1
    <3>3. Worth(selection') >= Need /\ Cardinality(selection') <= cap
      BY <1>4, <1>5, <2>1, <3>2, SelectedPays
    <3> QED BY <1>2, <1>5, <1>10, <3>1, <3>3 DEF Searching, RefusalGenuine, SelectionPays
  <2>3. CASE R = {} \/ answers = {}
    <3>1. /\ utxos' = S /\ UNCHANGED selection
          /\ amount > 0 => S = {} \/ Selected(S, amount, cap, check) = {}
      <4>1. CASE R = {}
        BY <1>2, <2>1, <4>1 DEF TryWallet, Searching, FailedSoFar
      <4>2. CASE R # {} /\ answers = {}
        BY <1>5, <2>1, <4>2 DEF TryWallet, LeftByCall, Tried
      <4> QED BY <2>3, <4>1, <4>2
    <3>2. PICK why \in Refusal : GoOn(why)
      BY <2>1, <2>3, ThrownType DEF TryWallet, Tried, Refusal
    <3>3. CASE page # {} \/ more
      <4>1. /\ pc' \in {"first", "list"} /\ outcome' = "none"
            /\ page = {} => pc' = "list"
        BY <1>2, <3>2, <3>3 DEF GoOn
      <4>2. \A o \in Mine : Coming(o)'
        BY <1>2, <1>7, <3>1 DEF Coming
      <4>3. FailedSoFar'
        BY <1>2, <3>1 DEF FailedSoFar
      <4> QED BY <1>2, <1>6, <1>10, <4>1, <4>2, <4>3 DEF Searching, RefusalGenuine, SelectionPays
    <3>4. CASE page = {} /\ ~more
      <4>1. pc' = "done" /\ outcome' = why
        BY <3>2, <3>4 DEF GoOn, End
      <4>2. Mine \subseteq S
        BY <1>7, <3>4
      <4>3. RefusalGenuine'
        BY <1>4, <1>5, <1>8, <2>1, <3>1, <4>2
      <4>4. outcome' # "selected" /\ outcome' # "none"
        BY <4>1 DEF Refusal
      <4> QED BY <4>1, <4>3, <4>4 DEF Searching, SelectionPays
    <3> QED BY <3>3, <3>4
  <2> QED BY <2>2, <2>3
<1> QED BY <1>9, <1>10 DEF TypeOK

(* Every step keeps what is still to come ahead of the walk.                *)
LEMMA NextSearch == IInv /\ SInv /\ [Next]_vars => SInv'
<1> SUFFICES ASSUME IInv, SInv, [Next]_vars PROVE SInv'
  OBVIOUS
<1>1. ASSUME NEW ins, NEW outs, Commit(ins, outs) PROVE SInv'
  BY <1>1, SpendingKeeps DEF Commit
<1>2. CASE Break
  BY <1>2, SpendingKeeps DEF Break, End
<1>3. CASE UNCHANGED vars
  BY <1>3, SpendingKeeps DEF vars, request, walk
<1> QED BY <1>1, <1>2, <1>3, ListSearch, BeginSearch, CollectSearch DEF Next

(* What a failed request missed is always known to be too little.           *)
LEMMA SearchInvariant == Spec => [](IInv /\ SInv)
<1> QED BY InitInv, NextInv, InitSearch, NextSearch, PTL DEF Spec

(* A refusal for want of funds is genuine for every wallet: of the outputs  *)
(* that stayed unspent since the request came in, no choice within the      *)
(* limit is worth the amount (stakes.service.ts 62-80, addresses.service.ts *)
(* 116-135).                                                                *)
THEOREM RefusalIsGenuine == Spec => []RefusalGenuine
<1>1. IInv /\ SInv => RefusalGenuine
  BY DEF SInv
<1> QED BY <1>1, SearchInvariant, PTL

(* A selection pays what was asked for within the limit, and for an address *)
(* from outputs that were unspent at one moment (addresses.service.ts 117). *)
THEOREM SelectionsPay == Spec => []SelectionPays
<1>1. IInv /\ SInv => SelectionPays
  BY DEF SInv
<1> QED BY <1>1, SearchInvariant, PTL
=============================================================================
