---------------------------- MODULE ListsProofs ----------------------------
(***************************************************************************)
(* Proofs about the lists: UtxoWalk, for any set of outputs, page sizes and *)
(* number of transactions; Listing, for any rows and columns; and           *)
(* AssetNames.  The invariant of the walk says where the cursor stands:     *)
(* behind all that is collected, before all that is still to come.          *)
(***************************************************************************)
EXTENDS UtxoWalk, Listing, AssetNames, Sums, FiniteSetTheorems, TLAPS

(* Keys are ordered: no key is below itself, and below is transitive.       *)
LEMMA KeyOrder ==
  /\ \A k \in Key : ~KeyLess(k, k)
  /\ \A k, l, m \in Key : KeyLess(k, l) /\ KeyLess(l, m) => KeyLess(k, m)
  /\ \A k, l \in Key : ~(KeyLess(k, l) /\ KeyLess(l, k))
BY DEF KeyLess, Key

(* What a page can be: R is read, I is kept of it.  On the last page that   *)
(* is all of the rest; otherwise the cursor, m's key, separates I from the  *)
(* rest.                                                                    *)
LEMMA PageSplits ==
  ASSUME TypeOK, NEW R \in SUBSET Rest, IsAnswer(R, size + 1), NEW I \in Items(R)
  PROVE  /\ I \subseteq Rest
         /\ Cardinality(R) <= size => I = Rest
         /\ Cardinality(R) > size =>
              \A k \in Cursor(R, I) :
                \E m \in I : /\ k = row[m]
                             /\ \A p \in I \ {m} : Before(p, m)
                             /\ \A p \in Rest \ I : Before(m, p)
<1>1. size \in Nat
  BY SizeAssumption DEF TypeOK
<1>2. Cardinality(R) \in Nat
  <2>1. R \subseteq Output
    BY DEF Rest, Unspent, TypeOK
  <2> QED BY <2>1, OutputAssumption, FS_Subset, FS_CardinalityType
<1>3. R \subseteq Rest /\ (R = Rest \/ Cardinality(R) = size + 1)
      /\ \A o \in R, p \in Rest \ R : Before(o, p)
  BY DEF IsAnswer
<1>4. CASE Cardinality(R) <= size
  BY <1>1, <1>2, <1>3, <1>4 DEF Items
<1>5. CASE Cardinality(R) > size
  <2>1. PICK l \in R : LastOf(R, l) /\ I = R \ {l}
    BY <1>1, <1>2, <1>5 DEF Items
  <2>2. ASSUME NEW k \in Cursor(R, I)
        PROVE  \E m \in I : /\ k = row[m]
                            /\ \A p \in I \ {m} : Before(p, m)
                            /\ \A p \in Rest \ I : Before(m, p)
    <3>1. PICK m \in I : LastOf(I, m) /\ k = row[m]
      BY <2>2 DEF Cursor
    <3>2. \A p \in Rest \ I : Before(m, p)
      BY <1>3, <2>1, <3>1 DEF LastOf
    <3> QED BY <3>1, <3>2 DEF LastOf
  <2> QED BY <1>1, <1>2, <1>3, <1>5, <2>1, <2>2
<1> QED BY <1>1, <1>2, <1>4, <1>5

(* The walk starts well typed.                                              *)
LEMMA InitType == Init => TypeOK
<1> SUFFICES ASSUME Init PROVE TypeOK
  OBVIOUS
<1>1. Known = {}
  BY DEF Init, Known
<1>2. row \in [Known -> Key] /\ spentBy \in [Known -> 0 .. tip]
  BY <1>1 DEF Init
<1>3. token \in Key
  BY DEF Init, Start, Key
<1> QED BY <1>1, <1>2, <1>3 DEF Init, TypeOK

(* A commit keeps the types.                                                *)
LEMMA CommitType ==
  ASSUME TypeOK, NEW spent \in SUBSET Unspent, NEW made \in SUBSET Output,
         Commit(spent, made)
  PROVE  TypeOK'
<1>1. Known' = Known \cup made /\ tip' = tip + 1 /\ tip \in Nat
  BY DEF Commit, Known, TypeOK
<1>2. \A o \in Known' : row'[o] = IF o \in made THEN [tx |-> tip + 1, index |-> Index[o]] ELSE row[o]
  BY <1>1 DEF Commit
<1>3. \A o \in made : o \in Output /\ Index[o] \in Nat
  BY OutputAssumption
<1>4. row' \in [Known' -> Key]
  <2>1. \A o \in Known' : (IF o \in made THEN [tx |-> tip + 1, index |-> Index[o]] ELSE row[o]) \in Key
    BY <1>1, <1>3 DEF TypeOK, Key
  <2> QED BY <1>1, <2>1 DEF Commit
<1>5. \A o \in Known' : row'[o].tx \in 1 .. tip' /\ row'[o].index = Index[o]
  <2> SUFFICES ASSUME NEW o \in Known' PROVE row'[o].tx \in 1 .. tip' /\ row'[o].index = Index[o]
    OBVIOUS
  <2>1. CASE o \in made
    <3>1. row'[o] = [tx |-> tip + 1, index |-> Index[o]]
      BY <1>2, <2>1
    <3> QED BY <1>1, <3>1
  <2>2. CASE o \notin made
    <3>1. row'[o] = row[o] /\ o \in Known
      BY <1>1, <1>2, <2>2
    <3>2. row[o].tx \in 1 .. tip /\ row[o].index = Index[o]
      BY <3>1 DEF TypeOK
    <3> QED BY <1>1, <3>1, <3>2
  <2> QED BY <2>1, <2>2
<1>6. \A o, p \in Known' : row'[o] = row'[p] => o = p
  <2> SUFFICES ASSUME NEW o \in Known', NEW p \in Known', row'[o] = row'[p] PROVE o = p
    OBVIOUS
  <2>1. CASE o \in made /\ p \in made
    <3>1. Index[o] = Index[p]
      BY <1>5
    <3> QED BY <2>1, <3>1 DEF Commit
  <2>2. CASE o \notin made /\ p \notin made
    BY <1>1, <1>2, <2>2 DEF TypeOK
  <2>3. ASSUME NEW x \in made, NEW y \in Known' \ made PROVE row'[x].tx # row'[y].tx
    <3>1. row'[x].tx = tip + 1
      <4>1. row'[x] = [tx |-> tip + 1, index |-> Index[x]]
        BY <1>1, <1>2
      <4> QED BY <4>1
    <3>2. row'[y].tx \in 1 .. tip
      <4>1. row'[y] = row[y] /\ y \in Known
        BY <1>1, <1>2
      <4> QED BY <4>1 DEF TypeOK
    <3> QED BY <1>1, <3>1, <3>2
  <2> QED BY <2>1, <2>2, <2>3
<1>7. spentBy' \in [Known' -> 0 .. tip']
  <2>1. \A o \in Known' :
          (IF o \in made THEN 0 ELSE IF o \in spent THEN tip + 1 ELSE spentBy[o]) \in 0 .. tip + 1
    BY <1>1 DEF TypeOK
  <2> QED BY <1>1, <2>1 DEF Commit
<1>8. kept' \subseteq start' /\ UNCHANGED <<walk, rolled>>
  BY DEF Commit, walk, TypeOK
<1>9. Known' \subseteq Output /\ tip' \in Nat
  BY <1>1 DEF TypeOK
<1> QED BY <1>4, <1>5, <1>6, <1>7, <1>8, <1>9 DEF TypeOK, walk

(* A rollback keeps the types.                                              *)
LEMMA RollbackType ==
  ASSUME TypeOK, NEW t \in 1 .. tip, Rollback(t)
  PROVE  TypeOK'
<1>1. Known' = {o \in Known : row[o].tx # t} /\ UNCHANGED <<tip, walk>>
  BY DEF Rollback, Known
<1>2. \A o \in Known' : row'[o] = row[o]
  BY <1>1 DEF Rollback
<1>3. row' \in [Known' -> Key]
  BY <1>1 DEF Rollback, TypeOK
<1>4. spentBy' \in [Known' -> 0 .. tip']
  BY <1>1 DEF Rollback, TypeOK
<1>5. kept' \subseteq start' /\ rolled' \in BOOLEAN
  BY <1>1 DEF Rollback, TypeOK, walk
<1> QED BY <1>1, <1>2, <1>3, <1>4, <1>5 DEF TypeOK, walk

(* A page keeps the types.                                                  *)
LEMMA FetchType ==
  ASSUME TypeOK, Fetch
  PROVE  TypeOK'
<1>1. UNCHANGED <<ledger, order, size, rolled>>
  BY DEF Fetch
<1>2. PICK R \in SUBSET Rest :
        /\ IsAnswer(R, size + 1)
        /\ \/ /\ size = 0 /\ R # {}
              /\ pc' = "error"
              /\ UNCHANGED <<token, result, twice, start, kept, base>>
           \/ /\ size > 0 \/ R = {}
              /\ \E I \in Items(R) :
                   /\ Collect(I)
                   /\ \/ Cardinality(R) <= size /\ pc' = "done" /\ UNCHANGED token
                      \/ Cardinality(R) > size /\ token' \in Cursor(R, I) /\ UNCHANGED pc
  BY DEF Fetch
<1>3. CASE UNCHANGED <<token, result, twice, start, kept, base>> /\ pc' = "error"
  BY <1>1, <1>3 DEF TypeOK, ledger, Known
<1>4. ASSUME NEW I \in Items(R), Collect(I),
             \/ Cardinality(R) <= size /\ pc' = "done" /\ UNCHANGED token
             \/ Cardinality(R) > size /\ token' \in Cursor(R, I) /\ UNCHANGED pc
      PROVE  TypeOK'
  <2>1. I \subseteq Rest /\ Rest \subseteq Known /\ Unspent \subseteq Output
    BY <1>2, PageSplits DEF Rest, Unspent, TypeOK
  <2>2. token' \in Key
    <3>1. ASSUME token' \in Cursor(R, I), Cardinality(R) > size PROVE token' \in Key
      <4>1. \E m \in I : token' = row[m]
        BY <1>2, <3>1, PageSplits
      <4> QED BY <2>1, <4>1 DEF TypeOK
    <3> QED BY <1>4, <3>1 DEF TypeOK
  <2>3. result' \subseteq Output /\ twice' \subseteq result'
    BY <1>4, <2>1 DEF Collect, TypeOK
  <2>4. start' \subseteq Output /\ kept' \subseteq start' /\ base' \in Nat
    BY <1>4, <2>1 DEF Collect, TypeOK
  <2>5. pc' \in {"walking", "done", "error"}
    BY <1>4 DEF TypeOK
  <2> QED BY <1>1, <2>2, <2>3, <2>4, <2>5 DEF TypeOK, ledger, Known
<1> QED BY <1>2, <1>3, <1>4

(* Every step keeps the types.                                              *)
LEMMA NextType == TypeOK /\ [Next]_vars => TypeOK'
<1> SUFFICES ASSUME TypeOK, [Next]_vars PROVE TypeOK'
  OBVIOUS
<1>1. ASSUME NEW s \in Size, Resize(s) PROVE TypeOK'
  BY <1>1 DEF Resize, TypeOK, ledger, Known
<1>2. CASE Break
  BY <1>2 DEF Break, TypeOK, ledger, Known
<1>3. CASE UNCHANGED vars
  BY <1>3 DEF vars, TypeOK, Known
<1> QED BY <1>1, <1>2, <1>3, CommitType, RollbackType, FetchType DEF Next

(* Every variable keeps its type, and no two outputs share a key.           *)
THEOREM TypeCorrect == Spec => []TypeOK
<1> QED BY InitType, NextType, PTL DEF Spec

(* No sequence of keys goes down for ever: every set of keys has one that   *)
(* none of the others is below.                                             *)
LEMMA KeysAreWellFounded ==
  ASSUME NEW S \in SUBSET Key, S # {}
  PROVE  \E k \in S : \A l \in S : ~KeyLess(l, k)
<1> DEFINE X == {k.tx : k \in S}
<1>1. X \subseteq Nat /\ X # {}
  BY DEF Key
<1>2. PICK t \in X : \A u \in X : t <= u
  <2> HIDE DEF X
  <2> QED BY <1>1, LeastNatural
<1> DEFINE Y == {k.index : k \in {l \in S : l.tx = t}}
<1>3. Y \subseteq Nat /\ Y # {}
  BY DEF Key
<1>4. PICK i \in Y : \A j \in Y : i <= j
  <2> HIDE DEF Y
  <2> QED BY <1>3, LeastNatural
<1>5. PICK k \in S : k.tx = t /\ k.index = i
  OBVIOUS
<1>6. ASSUME NEW l \in S, KeyLess(l, k) PROVE FALSE
  <2>1. t <= l.tx /\ t \in Nat /\ l.tx \in Nat /\ i \in Nat /\ l.index \in Nat
    BY <1>2, <1>1, <1>3 DEF Key
  <2>2. l.tx = t
    BY <1>5, <1>6, <2>1 DEF KeyLess
  <2>3. i <= l.index
    BY <1>4, <2>2
  <2> QED BY <1>5, <1>6, <2>1, <2>2, <2>3 DEF KeyLess
<1> QED BY <1>5, <1>6

(* A page ends the walk or sets a cursor, in descending order below the one *)
(* before; nothing else moves it (utils.ts 88-114).                         *)
Nearer ==
  /\ Fetch => \/ pc' # "walking"
              \/ token' # Start /\ (token # Start /\ order = "desc" => KeyLess(token', token))
  /\ token' # token => Fetch

(* A walk in descending order gets nearer to its end with every page,       *)
(* however many transactions come in or are rolled back: the part of        *)
(* WalkEnds that needs no fairness.                                         *)
THEOREM EveryPageIsProgress == Spec => [][Nearer]_vars
<1>1. ASSUME TypeOK, Next PROVE token' # token => Fetch
  BY <1>1 DEF Next, Commit, Rollback, Break, Resize, walk
<1>2. ASSUME TypeOK, Fetch, pc' = "walking"
      PROVE  token' # Start /\ (token # Start /\ order = "desc" => KeyLess(token', token))
  <2>1. PICK R \in SUBSET Rest : \E I \in Items(R) :
          IsAnswer(R, size + 1) /\ Cardinality(R) > size /\ token' \in Cursor(R, I)
    BY <1>2 DEF Fetch
  <2>2. PICK o \in Rest : token' = row[o]
    BY <1>2, <2>1, PageSplits
  <2>3. o \in Known /\ Follows(row[o], token) /\ row[o].tx >= 1
    BY <1>2, <2>2 DEF Rest, Unspent, TypeOK
  <2>4. token' # Start
    BY <2>2, <2>3 DEF Start
  <2>5. token # Start /\ order = "desc" => KeyLess(token', token)
    BY <2>2, <2>3 DEF Follows
  <2> QED BY <2>4, <2>5
<1>3. TypeOK /\ [Next]_vars => [Nearer]_vars
  BY <1>1, <1>2 DEF Nearer, vars
<1> QED BY <1>3, TypeCorrect, PTL DEF Spec

-----------------------------------------------------------------------------
(* Before the first page nothing is collected; afterwards the cursor is a   *)
(* key of the time of the first page, or later in ascending order.          *)
CursorOk ==
  /\ base <= tip
  /\ token = Start => ~rolled
  /\ token = Start /\ pc = "walking" => result = {}
  /\ token # Start => token.tx \in 1 .. (IF order = "desc" THEN base ELSE tip)

(* While the walk runs, what is collected does not follow the cursor.       *)
Behind ==
  pc = "walking" /\ (order = "desc" \/ ~rolled) =>
    \A o \in result : /\ ~rolled => o \in Known
                      /\ o \in Known => ~Follows(row[o], token)

(* While the walk runs, what it must still collect follows the cursor.      *)
StillAhead ==
  /\ kept \subseteq Unspent
  /\ pc = "walking" /\ token # Start =>
       \A o \in kept \ result : Follows(row[o], token)

(* Outputs as old as the first page were unspent then.                      *)
OldOnes ==
  pc = "walking" /\ ~rolled /\ token # Start =>
    \A o \in Unspent : row[o].tx <= base => o \in start

IInv ==
  TypeOK /\ CursorOk /\ Behind /\ StillAhead /\ OldOnes
    /\ NoDuplicates /\ Complete /\ Simultaneous

(* The invariant holds before the first page.                               *)
LEMMA InitInv == Init => IInv
<1> SUFFICES ASSUME Init PROVE IInv
  OBVIOUS
<1>1. TypeOK
  BY InitType
<1>2. CursorOk /\ Behind /\ StillAhead /\ OldOnes
  BY DEF Init, CursorOk, Behind, StillAhead, OldOnes
<1>3. NoDuplicates /\ Complete /\ Simultaneous
  BY DEF Init, NoDuplicates, Complete, Simultaneous
<1> QED BY <1>1, <1>2, <1>3 DEF IInv

(* A commit keeps the invariant: what it makes is newer than the cursor of  *)
(* a descending walk, and ahead of it in an ascending one.                  *)
LEMMA CommitInv ==
  ASSUME IInv, TypeOK', NEW spent \in SUBSET Unspent, NEW made \in SUBSET Output,
         Commit(spent, made)
  PROVE  IInv'
<1>1. /\ Known' = Known \cup made /\ tip' = tip + 1 /\ tip \in Nat
      /\ made \cap Known = {}
      /\ UNCHANGED <<order, token, result, pc, twice, start, base, rolled>>
      /\ kept' = kept \ spent
  BY DEF Commit, Known, TypeOK, IInv, walk
<1>2. \A o \in made : row'[o] = [tx |-> tip + 1, index |-> Index[o]] /\ spentBy'[o] = 0
  BY <1>1 DEF Commit
<1>3. \A o \in Known : row'[o] = row[o]
  BY <1>1 DEF Commit
<1>4. \A o \in Unspent \ spent : spentBy'[o] = 0
  BY <1>1 DEF Commit, Unspent
<1>5. \A o \in Unspent' : o \in made \/ o \in Unspent
  BY <1>1 DEF Commit, Unspent, IInv, TypeOK
<1>6. CursorOk'
  BY <1>1 DEF CursorOk, IInv, TypeOK, Key
<1>7. Behind'
  <2> SUFFICES ASSUME pc = "walking", order = "desc" \/ ~rolled, NEW o \in result
               PROVE  /\ ~rolled => o \in Known'
                      /\ o \in Known' => ~Follows(row[o], token)'
    BY <1>1 DEF Behind
  <2>1. token # Start
    BY DEF IInv, CursorOk
  <2>2. CASE o \in Known
    BY <1>1, <1>3, <2>2 DEF IInv, Behind, Follows
  <2>3. CASE o \in made
    <3>1. order = "desc" /\ rolled
      BY <1>1, <2>3 DEF IInv, Behind
    <3>2. token.tx \in 1 .. base /\ base <= tip /\ base \in Nat
      BY <2>1, <3>1 DEF IInv, CursorOk, TypeOK
    <3>3. row'[o].tx = tip + 1
      <4>1. row'[o] = [tx |-> tip + 1, index |-> Index[o]]
        BY <1>2, <2>3
      <4> QED BY <4>1
    <3>4. ~KeyLess(row'[o], token)
      BY <1>1, <3>2, <3>3 DEF KeyLess
    <3> QED BY <1>1, <2>1, <3>1, <3>4 DEF Follows
  <2>4. CASE o \notin Known'
    BY <1>1, <2>4 DEF IInv, Behind
  <2> QED BY <1>1, <2>2, <2>3, <2>4
<1>8. StillAhead'
  <2>1. kept' \subseteq Unspent'
    BY <1>1, <1>4 DEF IInv, StillAhead, Unspent
  <2>2. ASSUME pc = "walking", token # Start, NEW o \in kept' \ result
        PROVE  Follows(row[o], token)'
    <3>1. o \in kept \ result /\ o \in Known
      BY <1>1, <2>2 DEF IInv, StillAhead, Unspent
    <3> QED BY <1>1, <1>3, <2>2, <3>1 DEF IInv, StillAhead, Follows
  <2> QED BY <1>1, <2>1, <2>2 DEF StillAhead
<1>9. OldOnes'
  <2> SUFFICES ASSUME pc = "walking", ~rolled, token # Start, NEW o \in Unspent',
                      row'[o].tx <= base
               PROVE  o \in start
    BY <1>1 DEF OldOnes
  <2>1. o \notin made
    <3> SUFFICES ASSUME o \in made PROVE FALSE
      OBVIOUS
    <3>1. row'[o] = [tx |-> tip + 1, index |-> Index[o]]
      BY <1>2
    <3>2. row'[o].tx = tip + 1
      BY <3>1
    <3> QED BY <1>1, <3>2 DEF IInv, CursorOk, TypeOK
  <2>2. o \in Unspent /\ row'[o] = row[o]
    BY <1>3, <1>5, <2>1 DEF Unspent
  <2> QED BY <2>2 DEF IInv, OldOnes
<1>10. NoDuplicates' /\ Complete' /\ Simultaneous'
  BY <1>1 DEF IInv, NoDuplicates, Complete, Simultaneous
<1> QED BY <1>6, <1>7, <1>8, <1>9, <1>10 DEF IInv

(* A rollback keeps the invariant.                                          *)
LEMMA RollbackInv ==
  ASSUME IInv, TypeOK', NEW t \in 1 .. tip, Rollback(t)
  PROVE  IInv'
<1>1. /\ Known' = {o \in Known : row[o].tx # t}
      /\ UNCHANGED <<tip, order, token, result, pc, twice, start, base>>
      /\ kept' = {o \in kept : row[o].tx # t}
      /\ rolled' = (token # Start)
  BY DEF Rollback, Known, walk
<1>2. \A o \in Known' : row'[o] = row[o]
  BY <1>1 DEF Rollback
<1>3. CursorOk'
  BY <1>1 DEF CursorOk, IInv
<1>4. Behind'
  <2> SUFFICES ASSUME pc = "walking", order = "desc" \/ ~rolled', NEW o \in result
               PROVE  /\ ~rolled' => o \in Known'
                      /\ o \in Known' => ~Follows(row[o], token)'
    BY <1>1 DEF Behind
  <2>1. token # Start
    BY DEF IInv, CursorOk
  <2>2. order = "desc" /\ rolled'
    BY <1>1, <2>1
  <2>3. o \in Known' => ~Follows(row[o], token)
    BY <1>1, <2>2 DEF IInv, Behind
  <2> QED BY <1>1, <1>2, <2>2, <2>3 DEF Follows
<1>5. StillAhead'
  <2>1. \A o \in kept' : o \in Known' /\ spentBy'[o] = 0
    BY <1>1 DEF Rollback, IInv, StillAhead, Unspent
  <2>2. kept' \subseteq Unspent'
    BY <2>1 DEF Unspent
  <2>3. ASSUME pc = "walking", token # Start, NEW o \in kept' \ result
        PROVE  Follows(row[o], token)'
    BY <1>1, <1>2, <2>1, <2>3 DEF IInv, StillAhead, Follows
  <2> QED BY <1>1, <2>2, <2>3 DEF StillAhead
<1>6. OldOnes'
  BY <1>1 DEF OldOnes
<1>7. NoDuplicates' /\ Complete' /\ Simultaneous'
  BY <1>1 DEF IInv, NoDuplicates, Complete, Simultaneous, CursorOk
<1> QED BY <1>3, <1>4, <1>5, <1>6, <1>7 DEF IInv
(* A page keeps the invariant.  Nothing it brings was collected before, as  *)
(* all of it follows the cursor; the new cursor is the key of its last      *)
(* output, which everything collected precedes and the rest follows.        *)
LEMMA FetchInv ==
  ASSUME IInv, TypeOK', Fetch
  PROVE  IInv'
<1>1. /\ pc = "walking" /\ UNCHANGED <<row, spentBy, tip, order, size, rolled>>
      /\ Unspent' = Unspent /\ Known' = Known
  BY DEF Fetch, ledger, Unspent, Known
<1>2. PICK R \in SUBSET Rest :
        /\ IsAnswer(R, size + 1)
        /\ \/ /\ size = 0 /\ R # {}
              /\ pc' = "error"
              /\ UNCHANGED <<token, result, twice, start, kept, base>>
           \/ /\ size > 0 \/ R = {}
              /\ \E I \in Items(R) :
                   /\ Collect(I)
                   /\ \/ Cardinality(R) <= size /\ pc' = "done" /\ UNCHANGED token
                      \/ Cardinality(R) > size /\ token' \in Cursor(R, I) /\ UNCHANGED pc
  BY DEF Fetch
<1>3. CASE UNCHANGED <<token, result, twice, start, kept, base>> /\ pc' = "error"
  <2>1. CursorOk' /\ Behind' /\ StillAhead' /\ OldOnes'
    BY <1>1, <1>3 DEF IInv, CursorOk, Behind, StillAhead, OldOnes
  <2>2. NoDuplicates' /\ Complete' /\ Simultaneous'
    BY <1>1, <1>3 DEF IInv, NoDuplicates, Complete, Simultaneous
  <2> QED BY <2>1, <2>2 DEF IInv
<1>4. ASSUME NEW I \in Items(R), Collect(I),
             \/ Cardinality(R) <= size /\ pc' = "done" /\ UNCHANGED token
             \/ Cardinality(R) > size /\ token' \in Cursor(R, I) /\ UNCHANGED pc
      PROVE  IInv'
  <2>1. I \subseteq Rest
    BY <1>2, PageSplits DEF IInv
  <2>2. /\ Rest \subseteq Unspent /\ Unspent \subseteq Known
        /\ \A o \in Rest : Follows(row[o], token)
    BY DEF Rest, Unspent
  <2>3. \A o \in Known : row[o] \in Key /\ row[o].tx \in 1 .. tip
    BY DEF IInv, TypeOK
  <2>4. /\ result' = result \cup I /\ twice' = twice \cup (result \cap I)
        /\ token = Start => start' = Unspent /\ kept' = Unspent /\ base' = tip
        /\ token # Start => UNCHANGED <<start, kept, base>>
    BY <1>4 DEF Collect
  <2>5. base' <= tip /\ base' \in Nat /\ tip \in Nat /\ kept' \subseteq Unspent
    BY <1>1, <2>4 DEF IInv, TypeOK, CursorOk, StillAhead
  <2>6. ASSUME order = "desc" \/ ~rolled PROVE result \cap I = {}
    BY <1>1, <2>1, <2>2, <2>6 DEF IInv, Behind
  <2>7. NoDuplicates'
    BY <1>1, <2>4, <2>6 DEF IInv, NoDuplicates
  <2>8. ASSUME order = "desc", ~rolled PROVE I \subseteq start'
    <3>1. CASE token = Start
      BY <2>1, <2>2, <2>4, <3>1
    <3>2. CASE token # Start
      <4>1. ASSUME NEW o \in I PROVE row[o].tx <= base
        <5>1. KeyLess(row[o], token)
          BY <2>1, <2>2, <2>8, <3>2 DEF Follows
        <5>2. token.tx \in 1 .. base /\ base \in Nat
          BY <2>8, <3>2 DEF IInv, CursorOk, TypeOK
        <5>3. row[o].tx \in Nat
          BY <2>1, <2>2, <2>3 DEF Key
        <5> QED BY <5>1, <5>2, <5>3 DEF KeyLess
      <4> QED BY <1>1, <2>1, <2>2, <2>4, <2>8, <3>2, <4>1 DEF IInv, OldOnes
    <3> QED BY <3>1, <3>2
  <2>9. Simultaneous'
    <3> SUFFICES ASSUME order = "desc", ~rolled PROVE result' \subseteq start'
      BY <1>1 DEF Simultaneous
    <3>1. result \subseteq start'
      BY <1>1, <2>4 DEF IInv, CursorOk, Simultaneous
    <3> QED BY <2>4, <2>8, <3>1
  <2>10. OldOnes'
    <3> SUFFICES ASSUME pc' = "walking", ~rolled, NEW o \in Unspent, row[o].tx <= base'
                 PROVE  o \in start'
      BY <1>1 DEF OldOnes
    <3>1. CASE token = Start
      BY <2>4, <3>1
    <3>2. CASE token # Start
      BY <1>1, <2>4, <3>2 DEF IInv, OldOnes
    <3> QED BY <3>1, <3>2
  <2>11. CASE Cardinality(R) <= size /\ pc' = "done" /\ UNCHANGED token
    <3>1. I = Rest
      BY <1>2, <2>11, PageSplits DEF IInv
    <3>2. CursorOk'
      <4>1. token # Start => base' = base
        BY <2>4
      <4> QED BY <1>1, <2>5, <2>11, <4>1 DEF IInv, CursorOk
    <3>3. Behind' /\ StillAhead'
      BY <1>1, <2>5, <2>11 DEF Behind, StillAhead
    <3>4. Complete'
      <4> SUFFICES ASSUME NEW o \in kept' PROVE o \in result'
        BY DEF Complete
      <4>1. CASE o \in result
        BY <2>4, <4>1
      <4>2. CASE o \notin result /\ token = Start
        BY <2>4, <2>5, <3>1, <4>2 DEF Rest, Follows
      <4>3. CASE o \notin result /\ token # Start
        <5>1. Follows(row[o], token)
          BY <1>1, <2>4, <4>3 DEF IInv, StillAhead
        <5> QED BY <2>4, <2>5, <3>1, <5>1 DEF Rest
      <4> QED BY <4>1, <4>2, <4>3
    <3> QED BY <2>7, <2>9, <2>10, <3>2, <3>3, <3>4 DEF IInv
  <2>12. CASE Cardinality(R) > size /\ token' \in Cursor(R, I) /\ UNCHANGED pc
    <3>1. PICK m \in I : /\ token' = row[m]
                         /\ \A p \in I \ {m} : Before(p, m)
                         /\ \A p \in Rest \ I : Before(m, p)
      BY <1>2, <2>12, PageSplits DEF IInv
    <3>2. m \in Rest /\ m \in Known /\ row[m] \in Key /\ row[m].tx \in 1 .. tip
      BY <2>1, <2>2, <2>3
    <3>3. token' # Start
      BY <3>1, <3>2 DEF Start
    <3>4. CursorOk'
      <4>1. ASSUME order = "desc" PROVE row[m].tx \in 1 .. base'
        <5>1. CASE token = Start
          BY <2>4, <3>2, <5>1
        <5>2. CASE token # Start
          <6>1. KeyLess(row[m], token)
            BY <2>2, <3>2, <4>1, <5>2 DEF Follows
          <6>2. token.tx \in 1 .. base /\ base' = base
            BY <2>4, <4>1, <5>2 DEF IInv, CursorOk
          <6> QED BY <2>5, <3>2, <6>1, <6>2 DEF KeyLess
        <5> QED BY <5>1, <5>2
      <4> QED BY <1>1, <2>5, <3>1, <3>2, <3>3, <4>1 DEF CursorOk
    <3>5. ASSUME NEW p \in Known, NEW k \in Key,
                 KeyLess(row[p], k), KeyLess(k, row[p])
          PROVE  FALSE
      BY <2>3, <3>5, KeyOrder
    <3>6. Behind'
      <4> SUFFICES ASSUME order = "desc" \/ ~rolled, NEW o \in result'
                   PROVE  /\ ~rolled => o \in Known
                          /\ o \in Known => ~Follows(row[o], row[m])
        BY <1>1, <3>1 DEF Behind, Follows
      <4>1. row[m] # Start
        BY <3>1, <3>3
      <4>2. CASE o \in I
        <5>1. o \in Known /\ row[o] \in Key
          BY <2>1, <2>2, <2>3, <4>2
        <5>2. o = m \/ Before(o, m)
          BY <3>1, <4>2
        <5> QED BY <3>2, <4>1, <5>1, <5>2, KeyOrder DEF Follows, Before
      <4>3. CASE o \in result
        <5>1. /\ ~rolled => o \in Known
              /\ o \in Known => ~Follows(row[o], token)
          BY <1>1, <4>3 DEF IInv, Behind
        <5>2. token # Start /\ token \in Key
          BY <1>1, <4>3 DEF IInv, CursorOk, TypeOK
        <5>3. Follows(row[m], token)
          BY <2>2, <3>2
        <5> QED BY <2>3, <3>2, <4>1, <5>1, <5>2, <5>3, KeyOrder DEF Follows
      <4> QED BY <2>4, <4>2, <4>3
    <3>7. StillAhead'
      <4> SUFFICES ASSUME NEW o \in kept' \ result' PROVE Follows(row[o], row[m])
        BY <1>1, <2>5, <3>1 DEF StillAhead, Follows
      <4>1. o \in Rest
        <5>1. CASE token = Start
          BY <2>5, <5>1 DEF Rest, Follows
        <5>2. CASE token # Start
          BY <1>1, <2>4, <2>5, <5>2 DEF IInv, StillAhead, Rest
        <5> QED BY <5>1, <5>2
      <4>2. Before(m, o)
        BY <2>4, <3>1, <4>1
      <4> QED BY <4>2 DEF Before, Follows
    <3>8. Complete'
      BY <1>1, <2>12 DEF Complete
    <3> QED BY <2>7, <2>9, <2>10, <3>4, <3>6, <3>7, <3>8 DEF IInv
  <2> QED BY <1>4, <2>11, <2>12
<1> QED BY <1>2, <1>3, <1>4

(* Every step keeps the invariant.                                          *)
LEMMA NextInv == IInv /\ [Next]_vars => IInv'
<1> SUFFICES ASSUME IInv, [Next]_vars PROVE IInv'
  OBVIOUS
<1>0. TypeOK'
  BY NextType DEF IInv
<1>1. ASSUME UNCHANGED <<row, spentBy, tip, order, token, result, pc, twice, start,
                         kept, base, rolled>>
      PROVE  IInv'
  <2>1. Known' = Known /\ Unspent' = Unspent
    BY <1>1 DEF Known, Unspent
  <2>2. CursorOk' /\ Behind' /\ StillAhead' /\ OldOnes'
    BY <1>1, <2>1 DEF IInv, CursorOk, Behind, StillAhead, OldOnes, Follows
  <2>3. NoDuplicates' /\ Complete' /\ Simultaneous'
    BY <1>1 DEF IInv, NoDuplicates, Complete, Simultaneous
  <2> QED BY <1>0, <2>2, <2>3 DEF IInv
<1>2. ASSUME NEW s \in Size, Resize(s) PROVE IInv'
  BY <1>1, <1>2 DEF Resize, ledger
<1>3. CASE Break
  <2>1. /\ pc' = "error" /\ UNCHANGED <<row, spentBy, tip, order, token, result, twice,
                                         start, kept, base, rolled>>
        /\ Known' = Known /\ Unspent' = Unspent
    BY <1>3 DEF Break, ledger, Known, Unspent
  <2>2. CursorOk' /\ Behind' /\ StillAhead' /\ OldOnes'
    BY <2>1 DEF IInv, CursorOk, Behind, StillAhead, OldOnes
  <2>3. NoDuplicates' /\ Complete' /\ Simultaneous'
    BY <2>1 DEF IInv, NoDuplicates, Complete, Simultaneous
  <2> QED BY <1>0, <2>2, <2>3 DEF IInv
<1>4. CASE UNCHANGED vars
  BY <1>1, <1>4 DEF vars
<1> QED BY <1>0, <1>2, <1>3, <1>4, CommitInv, RollbackInv, FetchInv DEF Next

(* The invariant holds throughout every walk.                               *)
THEOREM Invariant == Spec => []IInv
<1> QED BY InitInv, NextInv, PTL DEF Spec

(* Nothing is collected twice, in descending order not even when the ledger *)
(* rolls back (utils.ts 88-114).                                            *)
THEOREM NothingCollectedTwice == Spec => []NoDuplicates
<1>1. IInv => NoDuplicates
  BY DEF IInv
<1> QED BY <1>1, Invariant, PTL

(* A finished walk missed nothing that was unspent throughout.              *)
THEOREM FinishedWalkIsComplete == Spec => []Complete
<1>1. IInv => Complete
  BY DEF IInv
<1> QED BY <1>1, Invariant, PTL

(* A descending walk collects what was unspent at one moment.               *)
THEOREM DescendingWalkIsASnapshot == Spec => []Simultaneous
<1>1. IInv => Simultaneous
  BY DEF IInv
<1> QED BY <1>1, Invariant, PTL

(* The first page, when it is the only one, has all that is unspent.        *)
LEMMA OnePageHasAll ==
  ASSUME TypeOK, token = Start, NEW R \in SUBSET Rest, IsAnswer(R, size + 1),
         Cardinality(R) <= size
  PROVE  R = Unspent
<1>1. Rest = Unspent
  BY DEF Rest, Follows
<1>2. IsFiniteSet(R)
  BY <1>1, FS_Subset, OutputAssumption DEF Unspent, Known, TypeOK
<1>3. Cardinality(R) \in Nat /\ size \in Nat
  BY <1>2, FS_CardinalityType, SizeAssumption DEF TypeOK
<1> QED BY <1>1, <1>3 DEF IsAnswer

(* A page is nothing to the caller, the beginning of a listing, or its end. *)
LEMMA FetchRefines ==
  ASSUME IInv, IInv', Fetch
  PROVE  [Contract!Next]_(Contract!listing)
<1>1. PICK R \in SUBSET Rest :
        /\ IsAnswer(R, size + 1)
        /\ \/ /\ size = 0 /\ R # {}
              /\ pc' = "error"
              /\ UNCHANGED <<token, result, twice, start, kept, base>>
           \/ /\ size > 0 \/ R = {}
              /\ \E I \in Items(R) :
                   /\ Collect(I)
                   /\ \/ Cardinality(R) <= size /\ pc' = "done" /\ UNCHANGED token
                      \/ Cardinality(R) > size /\ token' \in Cursor(R, I) /\ UNCHANGED pc
  BY DEF Fetch
<1>2. /\ pc = "walking" /\ UNCHANGED <<row, spentBy, order, rolled>>
      /\ Unspent' = Unspent
  BY DEF Fetch, ledger, Unspent, Known
<1>3. CASE pc' = "error" /\ UNCHANGED <<token, result, twice, start, kept, base>>
  <2>1. Contract!Fail
    BY <1>2, <1>3 DEF Contract!Fail
  <2> QED BY <2>1 DEF Contract!Next
<1>4. ASSUME NEW I \in Items(R), Collect(I), Cardinality(R) <= size,
             pc' = "done", UNCHANGED token
      PROVE  [Contract!Next]_(Contract!listing)
  <2>1. result' = result \cup I /\ result' \in SUBSET Output
    BY <1>4 DEF Collect, IInv, TypeOK
  <2>2. CASE token = Start
    <3>1. I = Unspent /\ result = {}
      BY <1>1, <1>2, <1>4, <2>2, OnePageHasAll DEF Items, IInv, CursorOk
    <3>2. Contract!GiveAtOnce
      BY <1>2, <1>4, <2>1, <2>2, <3>1 DEF Contract!GiveAtOnce, Collect
    <3> QED BY <3>2 DEF Contract!Next
  <2>3. CASE token # Start
    <3>1. UNCHANGED <<start, kept>>
      BY <1>4, <2>3 DEF Collect
    <3>2. kept \subseteq result' /\ (order = "desc" /\ ~rolled => result' \subseteq start)
      BY <1>2, <1>4, <3>1 DEF IInv, Complete, Simultaneous
    <3>3. Contract!Give
      BY <1>2, <1>4, <2>1, <2>3, <3>1, <3>2 DEF Contract!Give, Contract!Promised
    <3> QED BY <3>3 DEF Contract!Next
  <2> QED BY <2>2, <2>3
<1>5. ASSUME NEW I \in Items(R), Collect(I), Cardinality(R) > size,
             token' \in Cursor(R, I), UNCHANGED pc
      PROVE  [Contract!Next]_(Contract!listing)
  <2>1. token' # Start
    <3>1. PICK o \in I : token' = row[o]
      BY <1>5 DEF Cursor
    <3>2. I \subseteq R
      BY <1>5 DEF Items
    <3>3. o \in Known
      BY <1>1, <3>1, <3>2 DEF Rest, Unspent
    <3> QED BY <3>1, <3>3 DEF Start, IInv, TypeOK
  <2>2. CASE token = Start
    <3>1. Contract!Begin
      BY <1>2, <1>5, <2>1, <2>2 DEF Contract!Begin, Collect
    <3> QED BY <3>1 DEF Contract!Next
  <2>3. CASE token # Start
    BY <1>2, <1>5, <2>1, <2>3 DEF Contract!listing, Collect
  <2> QED BY <2>2, <2>3
<1> QED BY <1>1, <1>3, <1>4, <1>5

(* The ledger's steps are those of the contract, forwards and back.         *)
LEMMA LedgerRefines ==
  ASSUME IInv, IInv', UNCHANGED walk, Unspent' \in SUBSET Output,
         kept' = kept \cap Unspent', rolled' \in {rolled, token # Start}
  PROVE  [Contract!Next]_(Contract!listing)
<1>1. UNCHANGED <<order, pc, token, result, start>>
  BY DEF walk
<1>2. pc # "walking" => pc \in {"done", "error"}
  BY DEF IInv, TypeOK
<1>3. rolled' = rolled \/ (rolled' = TRUE /\ token # Start)
  <2>1. CASE token = Start
    BY <2>1 DEF IInv, CursorOk, TypeOK
  <2>2. CASE token # Start
    BY <2>2
  <2> QED BY <2>1, <2>2
<1>4. Contract!Move
  BY <1>1, <1>2, <1>3 DEF Contract!Move, IInv, TypeOK
<1> QED BY <1>4 DEF Contract!Next

(* Every step of a walk is a step of the contract, or none of its.          *)
LEMMA NextRefines ==
  ASSUME IInv, IInv', [Next]_vars
  PROVE  [Contract!Next]_(Contract!listing)
<1>1. Unspent' \in SUBSET Output
  BY DEF Unspent, Known, IInv, TypeOK
<1>2. ASSUME NEW spent \in SUBSET Unspent, NEW made \in SUBSET Output, Commit(spent, made)
      PROVE  [Contract!Next]_(Contract!listing)
  <2>1. kept' = kept \ spent /\ UNCHANGED walk /\ rolled' = rolled
    BY <1>2 DEF Commit
  <2>2. kept \subseteq Unspent
    BY DEF IInv, StillAhead
  <2>3. kept \cap Unspent' = kept \ spent
    <3>1. \A o \in kept : o \in Known' /\ o \notin made
      BY <1>2, <2>2 DEF Commit, Known, Unspent
    <3>2. \A o \in kept : (spentBy'[o] = 0) <=> o \notin spent
      BY <1>2, <2>2, <3>1 DEF Commit, Unspent, IInv, TypeOK
    <3> QED BY <3>1, <3>2 DEF Unspent
  <2> QED BY <1>1, <2>1, <2>3, LedgerRefines
<1>3. ASSUME NEW t \in 1 .. tip, Rollback(t) PROVE [Contract!Next]_(Contract!listing)
  <2>1. kept' = {o \in kept : row[o].tx # t} /\ UNCHANGED walk /\ rolled' = (token # Start)
    BY <1>3 DEF Rollback
  <2>2. kept \subseteq Unspent
    BY DEF IInv, StillAhead
  <2>3. kept \cap Unspent' = {o \in kept : row[o].tx # t}
    <3>1. Known' = {o \in Known : row[o].tx # t}
      BY <1>3 DEF Rollback, Known
    <3>2. \A o \in kept : o \in Known' => spentBy'[o] = 0
      BY <1>3, <2>2, <3>1 DEF Rollback, Unspent
    <3> QED BY <2>2, <3>1, <3>2 DEF Unspent
  <2> QED BY <1>1, <2>1, <2>3, LedgerRefines
<1>4. CASE Fetch
  BY <1>4, FetchRefines
<1>5. CASE Break
  <2>1. /\ pc = "walking" /\ pc' = "error" /\ Unspent' = Unspent
        /\ UNCHANGED <<order, token, result, start, kept, rolled>>
    BY <1>5 DEF Break, ledger, Unspent, Known
  <2>2. Contract!Fail
    BY <2>1 DEF Contract!Fail
  <2> QED BY <2>2 DEF Contract!Next
<1>6. ASSUME UNCHANGED <<row, spentBy, order, token, result, pc, start, kept, rolled>>
      PROVE  [Contract!Next]_(Contract!listing)
  BY <1>6 DEF Contract!listing, Unspent, Known
<1>7. ASSUME NEW s \in Size, Resize(s) PROVE [Contract!Next]_(Contract!listing)
  BY <1>6, <1>7 DEF Resize, ledger
<1>8. CASE UNCHANGED vars
  BY <1>6, <1>8 DEF vars
<1> QED BY <1>2, <1>3, <1>4, <1>5, <1>7, <1>8 DEF Next

(* A walk, page by page over a moving ledger, is a listing as its callers   *)
(* see one: it starts, answers once or fails, and its answer is what        *)
(* OutputListing promises (getAllUtxos, utils.ts 88-124).                   *)
THEOREM WalkImplementsListing == Spec => ImplementsListing
<1>1. Init => Contract!Init
  BY OrderAssumption DEF Init, Contract!Init, Unspent, Known
<1>2. IInv /\ IInv' /\ [Next]_vars => [Contract!Next]_(Contract!listing)
  BY NextRefines
<1> QED BY <1>1, <1>2, Invariant, PTL DEF Spec, ImplementsListing, Contract!Spec

-----------------------------------------------------------------------------
(* The names in lists, and the paged lists.                                 *)

(* The form of a name follows from where the expression was left:           *)
(* a conversion that found something left its index at the end of a run of  *)
(* that name, any other at the beginning.                                   *)
NamesInv ==
  /\ NamesTypeOK
  /\ last = <<>> \/ last[1].form = "hex" => lastIndex = 0
  /\ last # <<>> /\ last[1].form = "text" => lastIndex \in Ends[last[1].name]
  /\ MistakesFollowOthers

(* What a conversion shows is recorded.                                     *)
LEMMA Shown ==
  ASSUME NamesTypeOK, NEW n \in Name, NEW f \in {"hex", "text"}, Show(n, f)
  PROVE  /\ last' = <<[name |-> n, form |-> f]>> /\ last' # <<>>
         /\ last'[1].name = n /\ last'[1].form = f
         /\ before' = last
         /\ \E c \in Conversion : last' = <<c>>
         /\ before' = <<>> \/ \E c \in Conversion : before' = <<c>>
BY DEF Show, NamesTypeOK, Conversion

(* The inductive invariant of the names (utils.ts 25, 126-139).             *)
THEOREM NamesInvariant == NamesSpec => []NamesInv
<1>1. NamesInit => NamesInv
  BY DEF NamesInit, NamesInv, NamesTypeOK, MistakesFollowOthers
<1>2. NamesInv /\ [NamesNext]_names => NamesInv'
  <2> SUFFICES ASSUME NamesInv, [NamesNext]_names PROVE NamesInv'
    OBVIOUS
  <2> USE DEF NamesInv
  <2>1. ASSUME NEW n \in Name, ShowInHex(n) PROVE NamesInv'
    <3>1. Ahead(n) = {} /\ lastIndex' = 0 /\ Show(n, "hex")
      BY <2>1 DEF ShowInHex
    <3>2. /\ last' # <<>> /\ last'[1].name = n /\ last'[1].form = "hex"
          /\ before' = last
          /\ \E c \in Conversion : last' = <<c>>
          /\ before' = <<>> \/ \E c \in Conversion : before' = <<c>>
      BY <3>1, Shown
    <3>3. NamesTypeOK'
      BY <3>1, <3>2 DEF NamesTypeOK
    <3>4. ASSUME Ends[n] # {} PROVE
            /\ last # <<>> /\ last[1].form = "text"
            /\ \A e \in Ends[n] : \E f \in Ends[last[1].name] : e <= f
      <4>1. Ends[n] \subseteq Nat \ {0}
        BY EndsAssumption
      <4>2. \A e \in Ends[n] : e <= lastIndex
        BY <3>1, <4>1 DEF Ahead, NamesTypeOK
      <4>3. lastIndex # 0
        BY <3>4, <4>1, <4>2 DEF NamesTypeOK
      <4>4. last # <<>> /\ last[1].form # "hex"
        BY <4>3
      <4>5. last[1].form = "text"
        BY <4>4 DEF NamesTypeOK, Conversion
      <4> QED BY <4>2, <4>4, <4>5
    <3>5. MistakesFollowOthers'
      BY <3>2, <3>4 DEF MistakesFollowOthers, Unprintable
    <3> QED BY <3>1, <3>2, <3>3, <3>5
  <2>2. ASSUME NEW n \in Name, ShowAsItIs(n) PROVE NamesInv'
    <3>1. lastIndex' \in Ahead(n) /\ Show(n, "text")
      BY <2>2 DEF ShowAsItIs
    <3>2. /\ last' # <<>> /\ last'[1].name = n /\ last'[1].form = "text"
          /\ \E c \in Conversion : last' = <<c>>
          /\ before' = <<>> \/ \E c \in Conversion : before' = <<c>>
      BY <3>1, Shown
    <3>3. lastIndex' \in Ends[n] /\ lastIndex' \in Nat
      BY <3>1, EndsAssumption DEF Ahead
    <3>4. NamesTypeOK'
      BY <3>2, <3>3 DEF NamesTypeOK
    <3>5. MistakesFollowOthers'
      BY <3>2, <3>3 DEF MistakesFollowOthers, Unprintable
    <3> QED BY <3>2, <3>3, <3>4, <3>5
  <2>3. CASE UNCHANGED names
    BY <2>3 DEF names, NamesTypeOK, MistakesFollowOthers, Unprintable
  <2> QED BY <2>1, <2>2, <2>3 DEF NamesNext
<1> QED BY <1>1, <1>2, PTL DEF NamesSpec

(* Every variable of the names keeps its type.                              *)
THEOREM NamesTypeCorrect == NamesSpec => []NamesTypeOK
<1>1. NamesInv => NamesTypeOK
  BY DEF NamesInv
<1> QED BY <1>1, NamesInvariant, PTL

(* A name is shown wrongly only right after another was found, for names of *)
(* any length and any order of conversions (utils.ts 25, 126-139).          *)
THEOREM NamesMistakenOnlyAfterOthers == NamesSpec => []MistakesFollowOthers
<1>1. NamesInv => MistakesFollowOthers
  BY DEF NamesInv
<1> QED BY <1>1, NamesInvariant, PTL

-----------------------------------------------------------------------------
(* What a change of the table leaves of the rows that stayed.               *)
LEMMA Changed ==
  ASSUME ListTypeOK, NEW t, DOMAIN t \subseteq Row, \A r \in DOMAIN t : t[r] \in Values,
         Become(t)
  PROVE  ListTypeOK'
BY DEF ListTypeOK, Become, Untied, Values

(* Every variable of a list keeps its type (the handlers that take a        *)
(* pageToken).                                                              *)
THEOREM ListTypeCorrect == ListSpec => []ListTypeOK
<1>1. ListInit => ListTypeOK
  BY DEF ListInit, ListTypeOK
<1>2. ListTypeOK /\ [ListNext]_listing => ListTypeOK'
  <2> SUFFICES ASSUME ListTypeOK, [ListNext]_listing PROVE ListTypeOK'
    OBVIOUS
  <2>1. ASSUME NEW r \in Row, NEW k \in Values, Insert(r, k) PROVE ListTypeOK'
    <3> DEFINE t == [s \in DOMAIN table \cup {r} |-> IF s = r THEN k ELSE table[s]]
    <3>1. DOMAIN t \subseteq Row /\ \A s \in DOMAIN t : t[s] \in Values
      BY DEF ListTypeOK
    <3>2. Become(t)
      BY <2>1 DEF Insert
    <3> HIDE DEF t
    <3> QED BY <3>1, <3>2, Changed
  <2>2. ASSUME NEW r \in Row, Delete(r) PROVE ListTypeOK'
    <3> DEFINE t == [s \in DOMAIN table \ {r} |-> table[s]]
    <3>1. DOMAIN t \subseteq Row /\ \A s \in DOMAIN t : t[s] \in Values
      BY DEF ListTypeOK
    <3>2. Become(t)
      BY <2>2 DEF Delete
    <3> HIDE DEF t
    <3> QED BY <3>1, <3>2, Changed
  <2>3. ASSUME NEW r \in Row, NEW q \in 1 .. Span[2], Requantify(r, q) PROVE ListTypeOK'
    <3> DEFINE t == [table EXCEPT ![r] = [@ EXCEPT ![1] = q]]
    <3>1. r \in DOMAIN table /\ columns[1] = "quantity" /\ Become(t)
      BY <2>3 DEF Requantify
    <3>2. columns = <<"quantity", "address">>
      BY <3>1 DEF ListTypeOK, Lists, AddressAssets, AddressAssetUtxos, AddressTransactions,
                  AssetOwners, FingerprintOwners, BlockTransactions, PoolDelegations,
                  PolicyAssets, ScriptRedeemers, TransactionMints, TransactionMetadata,
                  StakeAddresses
    <3>3. table[r] \in Values /\ Values = [{1, 2} -> 1 .. Span[2]]
      BY <3>1, <3>2 DEF ListTypeOK, Values
    <3>4. [table[r] EXCEPT ![1] = q] \in Values
      BY <3>3
    <3>5. DOMAIN t \subseteq Row /\ \A s \in DOMAIN t : t[s] \in Values
      BY <3>1, <3>4 DEF ListTypeOK
    <3> HIDE DEF t
    <3> QED BY <3>1, <3>5, Changed
  <2>4. CASE Page
    <3>1. Values' = Values /\ UNCHANGED <<columns, direction, listSize, table>>
      BY <2>4 DEF Page, Values
    <3>2. stayed' \subseteq DOMAIN table /\ begun' \in BOOLEAN
      BY <2>4 DEF Page, Untied, ListTypeOK
    <3>3. PICK R \in SUBSET Following :
            \/ /\ listed' = listed \cup R /\ again' = again \cup (listed \cap R)
               /\ reading' = "done" /\ UNCHANGED position
            \/ /\ \E beyond \in Lasts(R) : LET I == R \ {beyond} IN
                    /\ listed' = listed \cup I /\ again' = again \cup (listed \cap I)
                    /\ position' \in {Position(r) : r \in Lasts(I)}
               /\ UNCHANGED reading
            \/ reading' = "error" /\ UNCHANGED <<listed, again, position>>
      BY <2>4 DEF Page
    <3>4. R \subseteq DOMAIN table /\ R \subseteq Row
      BY DEF Following, ListTypeOK
    <3>5. \A I \in SUBSET R : \A r \in Lasts(I) : Position(r) \in Values
      BY <3>4 DEF Lasts, Position, ListTypeOK
    <3>6. position' \in Values \cup {<<>>}
      BY <3>3, <3>5 DEF ListTypeOK
    <3>7. listed' \subseteq Row /\ again' \subseteq listed'
      BY <3>3, <3>4 DEF ListTypeOK
    <3>8. reading' \in {"open", "done", "error"}
      BY <3>3 DEF ListTypeOK
    <3> QED BY <3>1, <3>2, <3>6, <3>7, <3>8 DEF ListTypeOK
  <2>5. CASE PageFails
    BY <2>5 DEF PageFails, ListTypeOK, Values
  <2>6. CASE UNCHANGED listing
    BY <2>6 DEF listing, ListTypeOK, Values
  <2> QED BY <2>1, <2>2, <2>3, <2>4, <2>5, <2>6 DEF ListNext
<1> QED BY <1>1, <1>2, PTL DEF ListSpec

-----------------------------------------------------------------------------
(* Each list has one column in its cursor, or two.                          *)
LEMMA Widths ==
  ASSUME columns \in Lists
  PROVE  Values = [{1} -> 1 .. Span[1]] \/ Values = [{1, 2} -> 1 .. Span[2]]
<1>1. \/ \E a \in {"fingerprint", "tx_id", "label", "address"} : columns = <<a>>
      \/ \E a \in {"tx_id", "quantity"}, b \in {"index", "address"} : columns = <<a, b>>
  BY DEF Lists, AddressAssets, AddressAssetUtxos, AddressTransactions, AssetOwners,
         FingerprintOwners, BlockTransactions, PoolDelegations, PolicyAssets,
         ScriptRedeemers, TransactionMints, TransactionMetadata, StakeAddresses
<1>2. ASSUME NEW a, columns = <<a>> PROVE DOMAIN columns = {1} /\ Len(columns) = 1
  BY <1>2
<1>3. ASSUME NEW a, NEW b, columns = <<a, b>>
      PROVE  DOMAIN columns = {1, 2} /\ Len(columns) = 2
  BY <1>3
<1> QED BY <1>1, <1>2, <1>3 DEF Values

(* The order of a list is transitive and irreflexive, and decides between   *)
(* any two rows whose values differ.                                        *)
LEMMA OneColumn ==
  ASSUME NEW V \in Nat, NEW k \in [{1} -> 1 .. V], NEW l \in [{1} -> 1 .. V]
  PROVE  Lesser(k, l) <=> k[1] < l[1]
<1>1. DOMAIN k = {1} /\ 1 .. 1 - 1 = {}
  OBVIOUS
<1> QED BY <1>1 DEF Lesser

(* The order of a cursor of two columns: the first decides, or the second.  *)
LEMMA TwoColumns ==
  ASSUME NEW V \in Nat, NEW k \in [{1, 2} -> 1 .. V], NEW l \in [{1, 2} -> 1 .. V]
  PROVE  Lesser(k, l) <=> k[1] < l[1] \/ (k[2] < l[2] /\ k[1] = l[1])
<1>1. DOMAIN k = {1, 2} /\ 1 .. 1 - 1 = {} /\ 1 .. 2 - 1 = {1}
  OBVIOUS
<1> QED BY <1>1 DEF Lesser

(* The columns of a cursor order the values of rows totally and strictly.   *)
LEMMA Ordered ==
  ASSUME columns \in Lists, NEW k \in Values, NEW l \in Values, NEW m \in Values
  PROVE  /\ Lesser(k, l) /\ Lesser(l, m) => Lesser(k, m)
         /\ ~Lesser(k, k)
         /\ k # l => Lesser(k, l) \/ Lesser(l, k)
<1>1. CASE Values = [{1} -> 1 .. Span[1]]
  <2>1. /\ k \in [{1} -> 1 .. Span[1]] /\ l \in [{1} -> 1 .. Span[1]]
        /\ m \in [{1} -> 1 .. Span[1]] /\ Span[1] \in Nat
    BY <1>1, SpanAssumption
  <2>2. k # l => k[1] # l[1]
    BY <2>1
  <2>3. /\ Lesser(k, l) <=> k[1] < l[1]
        /\ Lesser(l, m) <=> l[1] < m[1]
        /\ Lesser(k, m) <=> k[1] < m[1]
        /\ Lesser(l, k) <=> l[1] < k[1]
        /\ Lesser(k, k) <=> k[1] < k[1]
    BY <2>1, OneColumn
  <2>4. k[1] \in Int /\ l[1] \in Int /\ m[1] \in Int
    BY <2>1
  <2> QED BY <2>2, <2>3, <2>4
<1>2. CASE Values = [{1, 2} -> 1 .. Span[2]]
  <2>1. /\ k \in [{1, 2} -> 1 .. Span[2]] /\ l \in [{1, 2} -> 1 .. Span[2]]
        /\ m \in [{1, 2} -> 1 .. Span[2]] /\ Span[2] \in Nat
    BY <1>2, SpanAssumption
  <2>2. k # l => k[1] # l[1] \/ k[2] # l[2]
    BY <2>1
  <2>3. /\ Lesser(k, l) <=> k[1] < l[1] \/ (k[2] < l[2] /\ k[1] = l[1])
        /\ Lesser(l, m) <=> l[1] < m[1] \/ (l[2] < m[2] /\ l[1] = m[1])
        /\ Lesser(k, m) <=> k[1] < m[1] \/ (k[2] < m[2] /\ k[1] = m[1])
        /\ Lesser(l, k) <=> l[1] < k[1] \/ (l[2] < k[2] /\ l[1] = k[1])
        /\ Lesser(k, k) <=> k[1] < k[1] \/ (k[2] < k[2] /\ k[1] = k[1])
    BY <2>1, TwoColumns
  <2>4. /\ k[1] \in Int /\ l[1] \in Int /\ m[1] \in Int
        /\ k[2] \in Int /\ l[2] \in Int /\ m[2] \in Int
    BY <2>1
  <2> QED BY <2>2, <2>3, <2>4
<1> QED BY <1>1, <1>2, Widths

(* So does the direction in which a list is read.                           *)
LEMMA InOrder ==
  ASSUME columns \in Lists, NEW k \in Values, NEW l \in Values, NEW m \in Values
  PROVE  /\ Precedes(k, l) /\ Precedes(l, m) => Precedes(k, m)
         /\ ~Precedes(k, k)
         /\ k # l => Precedes(k, l) \/ Precedes(l, k)
BY Ordered DEF Precedes

(* A row that stayed is listed exactly if it does not follow the cursor.    *)
StayingInv ==
  /\ ListTypeOK
  /\ ~begun => position = <<>> /\ listed = {} /\ again = {}
  /\ stayed \subseteq Untied(table)
  /\ stayed \cap again = {}
  /\ reading = "open" => \A r \in stayed : r \in listed <=> r \notin Following
  /\ reading = "done" => stayed \subseteq listed

(* The rows that stayed are those that did before, with the same values.    *)
LEMMA StayingThroughChange ==
  ASSUME StayingInv, NEW t, Become(t), ListTypeOK'
  PROVE  StayingInv'
<1>1. /\ table' = t /\ stayed' \subseteq stayed \cap Untied(t)
      /\ \A r \in stayed' : t[r] = table[r] /\ r \in DOMAIN t /\ r \in DOMAIN table
      /\ UNCHANGED <<columns, direction, listSize, position, listed, reading, begun, again>>
  BY DEF Become, Untied, StayingInv
<1>2. stayed' \subseteq Untied(table)'
  BY <1>1 DEF Untied
<1>3. \A r \in stayed' : r \in Following' <=> r \in Following
  BY <1>1 DEF Following, Precedes
<1> QED BY <1>1, <1>2, <1>3 DEF StayingInv

(* Of the rows that have their values for themselves a page lists those     *)
(* that come before the new cursor, and none that came before the old one.  *)
LEMMA PageCuts ==
  ASSUME ListTypeOK, NEW R \in SUBSET Following, NEW n, IsFirst(R, n),
         NEW beyond \in Lasts(R), NEW last0 \in Lasts(R \ {beyond}),
         NEW r \in Untied(table)
  PROVE  /\ r \in Following =>
               (r \in R \ {beyond} <=> ~Precedes(table[last0], table[r]))
         /\ r \notin Following => ~Precedes(table[last0], table[r])
<1>1. /\ r \in DOMAIN table /\ table[r] \in Values
      /\ last0 \in R \ {beyond} /\ last0 \in DOMAIN table /\ table[last0] \in Values
      /\ last0 \in Following /\ columns \in Lists
  BY DEF Untied, Lasts, Following, ListTypeOK
<1>2. ASSUME r \in R \ {beyond} PROVE ~Precedes(table[last0], table[r])
  BY <1>2 DEF Lasts
<1>3. ASSUME r \in Following, r \notin R \ {beyond} PROVE Precedes(table[last0], table[r])
  <2>1. table[r] # table[last0]
    BY <1>1, <1>3 DEF Untied
  <2>2. ~Precedes(table[r], table[last0])
    <3>1. CASE r = beyond
      BY <3>1, <1>1 DEF Lasts
    <3>2. CASE r # beyond
      BY <3>2, <1>1, <1>3 DEF IsFirst
    <3> QED BY <3>1, <3>2
  <2> QED BY <1>1, <2>1, <2>2, InOrder
<1>4. ASSUME r \notin Following, Precedes(table[last0], table[r]) PROVE FALSE
  <2>1. position # <<>> /\ ~Precedes(position, table[r])
    BY <1>1, <1>4 DEF Following
  <2>2. position \in Values /\ Precedes(position, table[last0])
    BY <1>1, <2>1 DEF Following, ListTypeOK
  <2> QED BY <1>1, <1>4, <2>1, <2>2, InOrder
<1> QED BY <1>2, <1>3, <1>4

(* The inductive invariant of the lists (the handlers that take a           *)
(* pageToken).                                                              *)
THEOREM StayingInvariant == ListSpec => []StayingInv
<1>1. ListInit => StayingInv
  BY DEF ListInit, StayingInv, ListTypeOK
<1>2. StayingInv /\ ListTypeOK' /\ [ListNext]_listing => StayingInv'
  <2> SUFFICES ASSUME StayingInv, ListTypeOK', [ListNext]_listing PROVE StayingInv'
    OBVIOUS
  <2>1. ASSUME NEW r \in Row, NEW k \in Values, Insert(r, k) PROVE StayingInv'
    BY <2>1, StayingThroughChange DEF Insert
  <2>2. ASSUME NEW r \in Row, Delete(r) PROVE StayingInv'
    BY <2>2, StayingThroughChange DEF Delete
  <2>3. ASSUME NEW r \in Row, NEW q \in 1 .. Span[2], Requantify(r, q) PROVE StayingInv'
    BY <2>3, StayingThroughChange DEF Requantify
  <2>4. CASE Page
    <3>1. /\ reading = "open" /\ begun' = TRUE
          /\ stayed' = IF begun THEN stayed ELSE Untied(table)
          /\ UNCHANGED <<columns, direction, listSize, table>>
      BY <2>4 DEF Page
    <3>2. PICK R \in SUBSET Following :
            /\ IsFirst(R, listSize + 1)
            /\ \/ /\ Cardinality(R) <= listSize
                  /\ listed' = listed \cup R /\ again' = again \cup (listed \cap R)
                  /\ reading' = "done"
               \/ \E beyond \in Lasts(R) : LET I == R \ {beyond} IN
                    /\ listed' = listed \cup I /\ again' = again \cup (listed \cap I)
                    /\ position' \in {Position(r) : r \in Lasts(I)}
                    /\ UNCHANGED reading
               \/ reading' = "error" /\ UNCHANGED <<listed, again>>
      BY <2>4 DEF Page
    <3>3. /\ stayed' \subseteq Untied(table) /\ stayed' \subseteq Untied(table)'
          /\ \A r \in stayed' : r \in listed <=> r \notin Following
          /\ stayed' \cap again = {}
      BY <3>1 DEF StayingInv, Untied, Following
    <3>4. ASSUME Cardinality(R) <= listSize, reading' = "done",
                 listed' = listed \cup R, again' = again \cup (listed \cap R)
          PROVE  StayingInv'
      <4>1. listSize \in Nat /\ Cardinality(R) # listSize + 1
        BY <3>4, ListSizeAssumption DEF StayingInv, ListTypeOK
      <4>2. R = Following
        BY <3>2, <4>1 DEF IsFirst
      <4>3. stayed' \subseteq listed' /\ stayed' \cap again' = {}
        BY <3>3, <3>4, <4>2
      <4> QED BY <3>1, <3>3, <3>4, <4>3 DEF StayingInv
    <3>5. ASSUME NEW beyond \in Lasts(R), NEW last0 \in Lasts(R \ {beyond}),
                 position' = Position(last0), UNCHANGED reading,
                 listed' = listed \cup (R \ {beyond}),
                 again' = again \cup (listed \cap (R \ {beyond}))
          PROVE  StayingInv'
      <4>1. last0 \in DOMAIN table /\ position' = table[last0] /\ position' # <<>>
        <5>1. last0 \in DOMAIN table /\ table[last0] \in Values
          BY DEF Lasts, Following, StayingInv, ListTypeOK
        <5>2. <<>> \notin Values
          BY Widths DEF StayingInv, ListTypeOK
        <5> QED BY <3>5, <5>1, <5>2 DEF Position
      <4>2. \A r \in stayed' : r \in Following' <=> Precedes(table[last0], table[r])
        BY <3>1, <3>3, <4>1 DEF Following, Precedes, Untied
      <4>3. \A r \in stayed' :
              /\ r \in Following =>
                    (r \in R \ {beyond} <=> ~Precedes(table[last0], table[r]))
              /\ r \notin Following => ~Precedes(table[last0], table[r])
        BY <3>2, <3>3, PageCuts DEF StayingInv
      <4>4. \A r \in stayed' : r \in listed' <=> r \notin Following'
        BY <3>3, <3>5, <4>2, <4>3
      <4>5. stayed' \cap again' = {}
        BY <3>3, <3>5
      <4> QED BY <3>1, <3>3, <3>5, <4>4, <4>5 DEF StayingInv
    <3>6. ASSUME reading' = "error", UNCHANGED <<listed, again>> PROVE StayingInv'
      BY <3>1, <3>3, <3>6 DEF StayingInv
    <3> QED BY <3>2, <3>4, <3>5, <3>6
  <2>5. CASE PageFails
    BY <2>5 DEF PageFails, StayingInv, Untied
  <2>6. CASE UNCHANGED listing
    BY <2>6 DEF listing, StayingInv, Untied, Following, Precedes
  <2> QED BY <2>1, <2>2, <2>3, <2>4, <2>5, <2>6 DEF ListNext
<1> QED BY <1>1, <1>2, ListTypeCorrect, PTL DEF ListSpec

(* A row that stays as it is, with the columns of the cursor for itself, is *)
(* on exactly one page, for any number of rows and any size of page (the    *)
(* handlers that take a pageToken).                                         *)
THEOREM StayingRowsAreListedOnce == ListSpec => []StayingRowsListedOnce
<1>1. StayingInv => StayingRowsListedOnce
  BY DEF StayingInv, StayingRowsListedOnce
<1> QED BY <1>1, StayingInvariant, PTL
=============================================================================
