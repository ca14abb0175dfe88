--------------------------- MODULE MeteringProofs ---------------------------
(***************************************************************************)
(* Theorems about the parts of Metering: the connection's slots, the        *)
(* counters of an account and its quota of mints, and the queue.            *)
(***************************************************************************)
EXTENDS MCMetering, Sums, TLAPS

-----------------------------------------------------------------------------
(* The connection.                                                          *)

ConnectionSafety == ConnectionInit /\ [][ConnectionNext]_connection

(* The connection starts well typed.                                        *)
LEMMA ConnectionInitType == ConnectionInit => ConnectionTypeOK
<1> SUFFICES ASSUME ConnectionInit PROVE ConnectionTypeOK
  OBVIOUS
<1>1. drops \in 0 .. MaxDrops
  BY DropsAssumption DEF ConnectionInit
<1>2. /\ opener \in [Opener -> {"idle", "waiting", "stranded", "answered"}]
      /\ closer \in [Closer -> {"idle", "quitting", "waiting", "answered", "failed"}]
  BY DEF ConnectionInit
<1> QED BY <1>1, <1>2 DEF ConnectionInit, ConnectionTypeOK

(* A slot only ever holds somebody whose call has got that far.             *)
LEMMA ConnectionNextType ==
  ConnectionTypeOK /\ [ConnectionNext]_connection => ConnectionTypeOK'
<1> SUFFICES ASSUME ConnectionTypeOK, [ConnectionNext]_connection PROVE ConnectionTypeOK'
  OBVIOUS
<1> USE CallerAssumption, DropsAssumption DEF ConnectionTypeOK
<1>1. ASSUME NEW o \in Opener, Open(o) PROVE ConnectionTypeOK'
  BY <1>1 DEF Open, Connect, GivenUp
<1>2. CASE Established
  BY <1>2 DEF Established
<1>3. CASE Ready
  BY <1>3 DEF Ready
<1>4. CASE Drop
  <2>1. drops' \in 0 .. MaxDrops
    BY <1>4 DEF Drop
  <2>2. status' \in {"reconnecting", "crashed"}
    BY <1>4 DEF Drop, GivenUp
  <2> QED BY <1>4, <2>1, <2>2 DEF Drop
<1>5. CASE Reconnect
  BY <1>5 DEF Reconnect
<1>6. ASSUME NEW c \in Closer, Quit(c) PROVE ConnectionTypeOK'
  BY <1>6 DEF Quit, GivenUp
<1>7. ASSUME NEW c \in Closer, QuitAnswered(c) PROVE ConnectionTypeOK'
  BY <1>7 DEF QuitAnswered, Listen
<1>8. ASSUME NEW c \in Closer, QuitFails(c) PROVE ConnectionTypeOK'
  BY <1>8 DEF QuitFails
<1>9. CASE End
  BY <1>9 DEF End, GivenUp
<1>10. CASE UNCHANGED connection
  BY <1>10 DEF connection
<1> QED BY <1>1, <1>2, <1>3, <1>4, <1>5, <1>6, <1>7, <1>8, <1>9, <1>10 DEF ConnectionNext

(* Whoever is in a slot has called, and no slot loses its type.             *)
THEOREM ConnectionTypeCorrect == ConnectionSafety => []ConnectionTypeOK
<1> QED BY ConnectionInitType, ConnectionNextType, PTL DEF ConnectionSafety

(* No wait without a next step.  For the opener in the slot a connection is *)
(* on the way, unless somebody called quit before one was ready or the      *)
(* process has ended; and once quit was sent the connection can end, in a   *)
(* process that goes on.  This is what CallersAnswered needs besides        *)
(* fairness (metering.ts 48-100).                                           *)
SlotsAreServed ==
  /\ \A o \in Opener : opener[o] = "waiting" /\ onRedisReady = o =>
       \/ quitting = "no" /\ status \in {"connecting", "connect", "reconnecting"}
       \/ quitting = "early"
       \/ status = "crashed"
  /\ quitting = "ready" => status \in {"ready", "disconnecting"}

(* What this rests on: nobody waits for a connection that has ended, or     *)
(* has the slot of one that is ready; only quit disconnects; and the        *)
(* attempt that made a connection is over.                                  *)
ConnectionInv ==
  /\ ConnectionTypeOK /\ SlotsAreServed
  /\ status = "end" => \A o \in Opener : opener[o] # "waiting"
  /\ status = "ready" => \A o \in Opener : onRedisReady = o => opener[o] # "waiting"
  /\ status = "disconnecting" => quitting # "no"
  /\ status = "ready" \/ quitting = "ready" => ~unhandled

(* A caller that keeps the slot is served: no wait without a next step.     *)
THEOREM WaitingCallersAreServed == ConnectionSafety => []SlotsAreServed
<1>1. ConnectionInit => ConnectionInv
  <2> SUFFICES ASSUME ConnectionInit PROVE ConnectionInv
    OBVIOUS
  <2>1. ConnectionTypeOK
    BY ConnectionInitType
  <2> QED BY <2>1 DEF ConnectionInit, ConnectionInv, SlotsAreServed
<1>2. ConnectionInv /\ [ConnectionNext]_connection => ConnectionInv'
  <2> SUFFICES ASSUME ConnectionInv, [ConnectionNext]_connection PROVE ConnectionInv'
    OBVIOUS
  <2>0. ConnectionTypeOK'
    BY ConnectionNextType DEF ConnectionInv
  <2> USE CallerAssumption DEF ConnectionInv, ConnectionTypeOK, SlotsAreServed
  <2>1. ASSUME NEW o \in Opener, Open(o) PROVE ConnectionInv'
    BY <2>0, <2>1 DEF Open, Connect, GivenUp, IsReady, IsConnecting
  <2>2. CASE Established
    BY <2>0, <2>2 DEF Established
  <2>3. CASE Ready
    BY <2>0, <2>3 DEF Ready
  <2>4. CASE Drop
    BY <2>0, <2>4 DEF Drop, GivenUp
  <2>5. CASE Reconnect
    BY <2>0, <2>5 DEF Reconnect
  <2>6. ASSUME NEW c \in Closer, Quit(c) PROVE ConnectionInv'
    <3>1. UNCHANGED <<onRedisReady, opener, unhandled>>
      BY <2>6 DEF Quit
    <3>2. CASE status = "ready"
      <4>1. quitting' = "ready" /\ status' \in {"ready", "disconnecting"}
        BY <2>6, <3>2 DEF Quit, IsReady
      <4> QED BY <2>0, <3>1, <3>2, <4>1
    <3>3. CASE status # "ready" /\ quitting = "ready"
      <4>1. quitting' = "ready" /\ status' = "disconnecting"
        BY <2>6, <3>3 DEF Quit, GivenUp, IsReady
      <4> QED BY <2>0, <3>1, <3>3, <4>1
    <3>4. CASE status # "ready" /\ quitting # "ready"
      <4>1. quitting' = "early" /\ status' \in {status, "disconnecting", "crashed"}
        BY <2>6, <3>4 DEF Quit, GivenUp, IsReady
      <4> QED BY <2>0, <3>1, <3>4, <4>1
    <3> QED BY <3>2, <3>3, <3>4
  <2>7. ASSUME NEW c \in Closer, QuitAnswered(c) PROVE ConnectionInv'
    BY <2>0, <2>7 DEF QuitAnswered, Listen
  <2>8. ASSUME NEW c \in Closer, QuitFails(c) PROVE ConnectionInv'
    BY <2>0, <2>8 DEF QuitFails
  <2>9. CASE End
    BY <2>0, <2>9 DEF End, GivenUp
  <2>10. CASE UNCHANGED connection
    BY <2>0, <2>10 DEF connection
  <2> QED BY <2>1, <2>2, <2>3, <2>4, <2>5, <2>6, <2>7, <2>8, <2>9, <2>10 DEF ConnectionNext
<1>3. ConnectionInv => SlotsAreServed
  BY DEF ConnectionInv
<1> QED BY <1>1, <1>2, <1>3, PTL DEF ConnectionSafety

-----------------------------------------------------------------------------
(* The counters of failures.                                                *)

(* No count exceeds what was reported.                                      *)
Counters ==
  /\ fails \in [Webhook -> Nat] /\ sinceClear \in [Webhook -> Nat]
  /\ sinceRead \in [Resetter -> [Webhook -> Nat]]
  /\ reported \in 0 .. MaxFailures
  /\ \A w \in Webhook : /\ fails[w] <= reported /\ sinceClear[w] <= reported
                        /\ \A r \in Resetter : sinceRead[r][w] <= reported

Resets ==
  /\ resetter \in [Resetter -> {"idle", "reading", "done"}]
  /\ names \in [Resetter -> SUBSET Webhook]
  /\ \A r \in Resetter : resetter[r] = "idle" => names[r] = {}

(* What a reset that has looked did not find had no failures then, and has  *)
(* no more now than were reported since.                                    *)
Found ==
  \A r \in Resetter, w \in Webhook :
    \/ resetter[r] = "idle"
    \/ resetter[r] = "reading" /\ w \in names[r]
    \/ fails[w] <= sinceRead[r][w]

Kept == \A w \in Webhook : sinceClear[w] <= fails[w]

FailInv == Counters /\ Resets /\ Found /\ Kept

(* The counters agree with the history before any failure.                  *)
LEMMA FailInit == AccountInit => FailInv
BY FailuresAssumption DEF AccountInit, FailInv, Counters, Resets, Found, Kept, Zero

(* Every operation on the hash keeps the counters related.                  *)
LEMMA FailNext == FailInv /\ [AccountNext]_account => FailInv'
<1> SUFFICES ASSUME FailInv, [AccountNext]_account PROVE FailInv'
  OBVIOUS
<1> USE FailuresAssumption DEF FailInv
<1>1. CASE UNCHANGED failures
  BY <1>1 DEF failures, Counters, Resets, Found, Kept
<1>2. CASE DeleteAccount
  BY <1>2 DEF DeleteAccount, Zero, Counters, Resets, Found, Kept
<1>3. ASSUME NEW r \in Resetter, ResetKeys(r) PROVE FailInv'
  <2>1. Counters' /\ Resets' /\ Kept'
    BY <1>3 DEF ResetKeys, Zero, Counters, Resets, Kept
  <2>2. ASSUME NEW q \in Resetter, NEW w \in Webhook
        PROVE  \/ resetter'[q] = "idle"
               \/ resetter'[q] = "reading" /\ w \in names'[q]
               \/ fails'[w] <= sinceRead'[q][w]
    <3>1. CASE q = r
      <4>1. resetter'[q] = "reading" /\ names'[q] = {v \in Webhook : fails[v] > 0}
        BY <1>3, <3>1 DEF ResetKeys, Resets
      <4>2. sinceRead'[q][w] = 0 /\ fails'[w] = fails[w] /\ fails[w] \in Nat
        BY <1>3, <3>1 DEF ResetKeys, Zero, Counters
      <4> QED BY <4>1, <4>2
    <3>2. CASE q # r
      BY <1>3, <3>2 DEF ResetKeys, Resets, Counters, Found
    <3> QED BY <3>1, <3>2
  <2> QED BY <2>1, <2>2 DEF Found
<1>4. ASSUME NEW r \in Resetter, NEW cleared \in BOOLEAN, ResetExec(r, cleared)
      PROVE  FailInv'
  <2>1. fails' = [w \in Webhook |-> IF w \in names[r] THEN 0 ELSE fails[w]]
    BY <1>4 DEF ResetExec, Without
  <2>2. Counters' /\ Resets' /\ Kept'
    BY <1>4, <2>1 DEF ResetExec, Zero, Counters, Resets, Kept
  <2>3. ASSUME NEW q \in Resetter, NEW w \in Webhook
        PROVE  \/ resetter'[q] = "idle"
               \/ resetter'[q] = "reading" /\ w \in names'[q]
               \/ fails'[w] <= sinceRead'[q][w]
    <3>1. CASE w \in names[r]
      BY <1>4, <2>1, <3>1 DEF ResetExec, Counters
    <3>2. CASE w \notin names[r]
      BY <1>4, <2>1, <3>2 DEF ResetExec, Counters, Resets, Found
    <3> QED BY <3>1, <3>2
  <2> QED BY <2>2, <2>3 DEF Found
<1>5. ASSUME NEW w \in Webhook, ProcessWebhook(w, TRUE) PROVE FailInv'
  <2>1. CASE reported < MaxFailures /\ reported' = reported + 1
    <3>1. /\ fails' = [fails EXCEPT ![w] = @ + 1]
          /\ sinceClear' = [sinceClear EXCEPT ![w] = @ + 1]
          /\ sinceRead' = [r \in Resetter |-> [sinceRead[r] EXCEPT ![w] = @ + 1]]
          /\ UNCHANGED <<resetter, names>>
      BY <1>5 DEF ProcessWebhook
    <3>2. /\ fails' \in [Webhook -> Nat] /\ sinceClear' \in [Webhook -> Nat]
          /\ sinceRead' \in [Resetter -> [Webhook -> Nat]]
      BY <3>1 DEF Counters
    <3>3. \A v \in Webhook :
            /\ fails'[v] = fails[v] + (IF v = w THEN 1 ELSE 0)
            /\ sinceClear'[v] = sinceClear[v] + (IF v = w THEN 1 ELSE 0)
            /\ \A r \in Resetter : sinceRead'[r][v] = sinceRead[r][v] + (IF v = w THEN 1 ELSE 0)
      BY <3>1 DEF Counters
    <3>4. Counters'
      BY <2>1, <3>2, <3>3 DEF Counters
    <3> QED BY <3>1, <3>3, <3>4 DEF Counters, Resets, Found, Kept
  <2> QED BY <1>5, <2>1 DEF ProcessWebhook
<1>6. ASSUME NEW w \in Webhook, ClearFails(w), UNCHANGED <<resetter, names, reported>>
      PROVE  FailInv'
  BY <1>6 DEF ClearFails, Counters, Resets, Found, Kept
<1>7. CASE FailureNext
  <2>1. ASSUME NEW w \in Webhook, ProcessWebhook(w, FALSE) \/ ResetWebhookFails(w)
        PROVE  FailInv'
    BY <2>1, <1>6 DEF ProcessWebhook, ResetWebhookFails
  <2>2. ASSUME NEW cleared \in BOOLEAN, AddAccount(cleared) PROVE FailInv'
    BY <2>2, <1>1 DEF AddAccount
  <2>3. ASSUME NEW w \in Webhook, NEW failed \in BOOLEAN, ProcessWebhook(w, failed)
        PROVE  FailInv'
    BY <2>1, <2>3, <1>5
  <2> QED BY <1>2, <1>3, <1>4, <1>7, <2>1, <2>2, <2>3 DEF FailureNext, AccountLife
<1>8. CASE QuotaNext
  <2>1. ASSUME NEW b \in Build, BuildMint(b) \/ ProcessNft(b) PROVE UNCHANGED failures
    BY <2>1 DEF BuildMint, ProcessNft
  <2>2. ASSUME NEW cleared \in BOOLEAN, AddAccount(cleared) PROVE FailInv'
    BY <2>2, <1>1 DEF AddAccount
  <2> QED BY <1>1, <1>2, <1>8, <2>1, <2>2 DEF QuotaNext, AccountLife
<1>9. CASE UNCHANGED account
  BY <1>1, <1>9 DEF account, failures
<1> QED BY <1>7, <1>8, <1>9 DEF AccountNext

(* The counters of failures always agree with the history.                  *)
LEMMA FailInvariant == AccountSpec => []FailInv
<1> QED BY FailInit, FailNext, PTL DEF AccountSpec

(* However resets, notifications and removals interleave, no failure after  *)
(* a reset is forgotten and none from before it is kept (metering.ts        *)
(* 111-162).                                                                *)
THEOREM FailuresAreCounted == AccountSpec => []FailuresCounted
<1>1. FailInv => FailuresCounted
  BY DEF FailInv, Found, Kept, FailuresCounted
<1> QED BY <1>1, FailInvariant, PTL

-----------------------------------------------------------------------------
(* The quota of mints.                                                      *)

Price == {"no", "none", "free", "tier1", "tier2", "tier3"}

(* What was built at a price or a lower one and is not minted yet.          *)
Waiting(l) == {b \in Build : BuiltAt(l, b)}
Minted == {b \in Build : build[b] = "minted"}

Allowance(l) == IF Below[l] = 0 THEN 0 ELSE Below[l] - 1

QuotaType ==
  /\ known \in BOOLEAN
  /\ price \in [Build -> Price]
  /\ build \in [Build -> {"idle", "built", "minted"}]
  /\ minted \in Nat /\ cheap \in [Level -> Nat] /\ open \in [Level -> Nat]

(* The mints counted are mints that were submitted, and so are those at a   *)
(* price.                                                                   *)
Counted ==
  /\ minted <= TokensOf(Minted)
  /\ \A l \in Level : cheap[l] <= minted /\ open[l] <= TokensOf(Build)

(* What went through together with what waits exceeds the limit by no more  *)
(* than what ever waited: it grows only when there is still room.           *)
Room ==
  \A l \in Level :
    /\ TokensOf(Waiting(l)) <= open[l]
    /\ cheap[l] + TokensOf(Waiting(l)) <= open[l] + Allowance(l)

QuotaInv == QuotaType /\ Counted /\ Room

(* The levels and their limits, written out.                                *)
LEMMA Levels ==
  /\ Level = {"free", "tier1", "tier2"}
  /\ Below \in [Level -> Nat] /\ Allowance("free") \in Nat
  /\ Below["free"] = Quota
  /\ Below["tier1"] >= Quota /\ Below["tier1"] > Tier1
  /\ Below["tier2"] >= Quota /\ Below["tier2"] > Tier1 /\ Below["tier2"] > Tier2
<1> USE TierAssumption
<1>1. ASSUME NEW S, S \subseteq Nat, S # {}, \E m \in S : \A n \in S : n <= m
      PROVE  Max(S) \in S /\ \A n \in S : n <= Max(S)
  BY <1>1 DEF Max
<1> DEFINE R1 == {Quota, Tier1 + 1}
           R2 == {Quota, Tier1 + 1, Tier2 + 1}
<1>2. Max(R1) \in R1 /\ \A n \in R1 : n <= Max(R1)
  <2>1. \E m \in R1 : \A n \in R1 : n <= m
    OBVIOUS
  <2>2. R1 \subseteq Nat /\ R1 # {}
    OBVIOUS
  <2> HIDE DEF R1
  <2> QED BY <1>1, <2>1, <2>2
<1>3. Max(R2) \in R2 /\ \A n \in R2 : n <= Max(R2)
  <2>1. \E m \in R2 : \A n \in R2 : n <= m
    <3>1. CASE Quota >= Tier1 + 1 /\ Quota >= Tier2 + 1
      BY <3>1
    <3>2. CASE Tier1 + 1 >= Quota /\ Tier1 >= Tier2
      BY <3>2
    <3>3. CASE Tier2 + 1 >= Quota /\ Tier2 >= Tier1
      BY <3>3
    <3> QED BY <3>1, <3>2, <3>3
  <2>2. R2 \subseteq Nat /\ R2 # {}
    OBVIOUS
  <2> HIDE DEF R2
  <2> QED BY <1>1, <2>1, <2>2
<1>4. Level = {"free", "tier1", "tier2"}
  BY DEF Level, Below
<1>5. /\ Below["free"] = Quota
      /\ Below["tier1"] \in Nat /\ Below["tier1"] >= Quota /\ Below["tier1"] > Tier1
      /\ Below["tier2"] \in Nat /\ Below["tier2"] >= Quota /\ Below["tier2"] > Tier1
      /\ Below["tier2"] > Tier2
  BY <1>2, <1>3 DEF Below
<1>6. Below \in [Level -> Nat]
  <2>1. Below = [l \in Level |-> Below[l]]
    BY DEF Level, Below
  <2> QED BY <1>4, <1>5, <2>1
<1> QED BY <1>4, <1>5, <1>6 DEF Allowance

(* A price at a level or below is asked only while the count is below its   *)
(* limit.                                                                   *)
LEMMA PriceHasRoom ==
  ASSUME minted \in Nat, NEW l \in Level, NftFee \in AtMost[l]
  PROVE  minted <= Allowance(l)
<1>1. CASE known /\ Quota > minted
  <2>1. Below[l] \in Nat /\ minted < Below[l]
    BY <1>1, Levels, TierAssumption
  <2> QED BY <2>1 DEF Allowance
<1>2. CASE known /\ ~(Quota > minted)
  <2>1. NftFee = GetTier(minted)
    BY <1>2 DEF NftFee
  <2>2. GetTier(minted) # "free"
    BY DEF GetTier
  <2>3. l # "free"
    BY <2>1, <2>2 DEF AtMost
  <2>4. l = "tier1" => minted <= Tier1
    BY <2>1 DEF AtMost, GetTier
  <2>5. l = "tier2" => minted <= Tier1 \/ minted <= Tier2
    BY <2>1 DEF AtMost, GetTier
  <2>6. Below[l] \in Nat /\ minted < Below[l]
    BY <2>3, <2>4, <2>5, Levels, TierAssumption
  <2> QED BY <2>6 DEF Allowance
<1>3. CASE ~known
  <2>1. NftFee = "none"
    BY <1>3 DEF NftFee
  <2> QED BY <2>1, Levels DEF AtMost
<1> QED BY <1>1, <1>2, <1>3

(* Mints have a number of tokens, no larger than that of all of them.       *)
LEMMA TokensType ==
  ASSUME NEW S \in SUBSET Build
  PROVE  IsFiniteSet(S) /\ TokensOf(S) \in Nat /\ TokensOf(S) <= TokensOf(Build)
<1>1. IsFiniteSet(S) /\ IsFiniteSet(Build)
  BY TokensAssumption, FS_Subset
<1>2. TokensOf(S) \in Nat
  BY <1>1, TokensAssumption, SumNat DEF TokensOf
<1>3. TokensOf(S) <= TokensOf(Build)
  BY <1>1, TokensAssumption, SumMonotone DEF TokensOf
<1> QED BY <1>1, <1>2, <1>3

(* One mint more adds its own tokens.                                       *)
LEMMA TokensAdd ==
  ASSUME NEW S \in SUBSET Build, NEW b \in Build \ S
  PROVE  TokensOf(S \cup {b}) = TokensOf(S) + Tokens[b]
<1>1. IsFiniteSet(S)
  BY TokensType
<1>2. TokensOf(S \cup {b}) = Tokens[b] + TokensOf(S)
  BY <1>1, TokensAssumption, SumAdd DEF TokensOf
<1>3. Tokens[b] \in Nat /\ TokensOf(S) \in Nat
  BY TokensAssumption, TokensType
<1> QED BY <1>2, <1>3

(* There is room at every price before the first mint.                      *)
LEMMA QuotaInit == AccountInit => QuotaInv
<1> SUFFICES ASSUME AccountInit PROVE QuotaInv
  OBVIOUS
<1>1. \A l \in Level : Waiting(l) = {}
  BY DEF AccountInit, Waiting, BuiltAt
<1>2. TokensOf({}) = 0
  BY SumEmpty DEF TokensOf
<1>3. Minted = {}
  BY DEF AccountInit, Minted
<1>4. TokensOf(Build) \in Nat
  BY TokensType
<1>5. \A l \in Level : Allowance(l) \in Nat
  BY Levels DEF Allowance
<1>6. QuotaType
  BY DEF AccountInit, QuotaType, Price
<1>7. Counted
  BY <1>2, <1>3, <1>4 DEF AccountInit, Counted
<1>8. Room
  BY <1>1, <1>2, <1>5 DEF AccountInit, Room
<1> QED BY <1>6, <1>7, <1>8 DEF QuotaInv

(* Clearing the count of mints keeps what waits.                            *)
LEMMA ClearKeepsQuota ==
  ASSUME QuotaInv, known' \in BOOLEAN, UNCHANGED <<price, build, open>>,
         \/ minted' = 0 /\ cheap' = [l \in Level |-> 0]
         \/ UNCHANGED <<minted, cheap>>
  PROVE  QuotaInv'
<1> USE DEF QuotaInv
<1>1. \A l \in Level : TokensOf(Waiting(l)) \in Nat /\ Waiting(l)' = Waiting(l)
  BY TokensType DEF Waiting, BuiltAt
<1>2. Minted' = Minted /\ TokensOf(Minted) \in Nat
  BY TokensType DEF Minted
<1>3. \A l \in Level : Allowance(l) \in Nat
  BY Levels DEF Allowance
<1>4. QuotaType'
  BY DEF QuotaType
<1>5. Counted'
  BY <1>2 DEF Counted, QuotaType, TokensOf
<1>6. Room'
  BY <1>1, <1>3 DEF Room, QuotaType, TokensOf, Allowance
<1> QED BY <1>4, <1>5, <1>6

(* A mint is built at the price the count of minted tokens gives.           *)
LEMMA BuildMintKeepsQuota ==
  ASSUME QuotaInv, NEW b \in Build, BuildMint(b)
  PROVE  QuotaInv'
<1> USE DEF QuotaInv
<1>1. /\ build[b] = "idle" /\ build' = [build EXCEPT ![b] = "built"]
      /\ price' = [price EXCEPT ![b] = NftFee]
      /\ UNCHANGED <<known, minted, cheap>>
  BY DEF BuildMint
<1>2. NftFee \in Price
  BY DEF NftFee, GetTier, Price
<1>3. Minted' = Minted
  BY <1>1 DEF Minted, QuotaType
<1>4. \A l \in Level : /\ TokensOf(Waiting(l)) \in Nat /\ TokensOf(Waiting(l)') \in Nat
                        /\ TokensOf(Waiting(l)') <= TokensOf(Build) /\ TokensOf(Build) \in Nat
  <2>1. \A l \in Level : Waiting(l) \in SUBSET Build /\ Waiting(l)' \in SUBSET Build
    BY DEF Waiting
  <2> QED BY <2>1, TokensType
<1>5. \A l \in Level : open'[l] = IF TokensOf(Waiting(l)') > open[l]
                                  THEN TokensOf(Waiting(l)') ELSE open[l]
  BY DEF BuildMint, Waiting, BuiltAt
<1>6. open' \in [Level -> Nat]
  <2>1. open' = [l \in Level |-> IF TokensOf(Waiting(l)') > open[l]
                                   THEN TokensOf(Waiting(l)') ELSE open[l]]
    BY DEF BuildMint, Waiting, BuiltAt
  <2> QED BY <1>4, <2>1 DEF QuotaType
<1>7. QuotaType'
  BY <1>1, <1>2, <1>6 DEF QuotaType
<1>8. Counted'
  BY <1>1, <1>3, <1>4, <1>5, <1>6 DEF Counted, QuotaType, TokensOf
<1>9. ASSUME NEW l \in Level
      PROVE  /\ TokensOf(Waiting(l)') <= open'[l]
             /\ cheap[l] + TokensOf(Waiting(l)') <= open'[l] + Allowance(l)
  <2>1. TokensOf(Waiting(l)') <= open'[l] /\ open[l] <= open'[l]
    BY <1>4, <1>5, <1>6 DEF QuotaType
  <2>2. open[l] \in Nat /\ open'[l] \in Nat /\ cheap[l] \in Nat /\ minted \in Nat
    BY <1>6 DEF QuotaType
  <2>3. Allowance(l) \in Nat
    BY Levels DEF Allowance
  <2>4. CASE NftFee \in AtMost[l]
    <3>1. minted <= Allowance(l)
      BY <2>2, <2>4, PriceHasRoom
    <3>2. cheap[l] <= minted
      BY DEF Counted
    <3> QED BY <1>4, <2>1, <2>2, <2>3, <3>1, <3>2
  <2>5. CASE NftFee \notin AtMost[l]
    <3>1. Waiting(l)' = Waiting(l)
      BY <1>1, <2>5 DEF Waiting, BuiltAt, QuotaType
    <3>2. cheap[l] + TokensOf(Waiting(l)) <= open[l] + Allowance(l)
      BY DEF Room
    <3> QED BY <1>4, <2>1, <2>2, <2>3, <3>1, <3>2
  <2> QED BY <2>1, <2>4, <2>5
<1>10. Room'
  BY <1>1, <1>9 DEF Room, TokensOf, Allowance
<1> QED BY <1>7, <1>8, <1>10

(* A mint is counted, and no longer waits.                                  *)
LEMMA ProcessNftKeepsQuota ==
  ASSUME QuotaInv, NEW b \in Build, ProcessNft(b)
  PROVE  QuotaInv'
<1> USE DEF QuotaInv
<1>1. /\ build[b] = "built" /\ build' = [build EXCEPT ![b] = "minted"]
      /\ minted' = minted + Tokens[b]
      /\ cheap' = [l \in Level |-> IF BuiltAt(l, b) THEN cheap[l] + Tokens[b] ELSE cheap[l]]
      /\ UNCHANGED <<known, price, open>>
  BY DEF ProcessNft
<1>2. Tokens[b] \in Nat
  BY TokensAssumption
<1>3. QuotaType'
  BY <1>1, <1>2 DEF QuotaType
<1>4. TokensOf(Minted') = TokensOf(Minted) + Tokens[b] /\ TokensOf(Minted) \in Nat
  <2>1. Minted \in SUBSET Build /\ b \in Build \ Minted /\ Minted' = Minted \cup {b}
    BY <1>1 DEF Minted, QuotaType
  <2> QED BY <2>1, TokensAdd, TokensType
<1>5. Counted'
  <2>1. minted' <= TokensOf(Minted')
    BY <1>1, <1>2, <1>4 DEF Counted, QuotaType
  <2>2. \A l \in Level : cheap'[l] <= minted' /\ open'[l] <= TokensOf(Build)
    BY <1>1, <1>2 DEF Counted, QuotaType
  <2> QED BY <2>1, <2>2 DEF Counted, TokensOf
<1>6. ASSUME NEW l \in Level
      PROVE  /\ TokensOf(Waiting(l)') <= open[l]
             /\ cheap'[l] + TokensOf(Waiting(l)') <= open[l] + Allowance(l)
  <2>1. Waiting(l)' \in SUBSET Build /\ TokensOf(Waiting(l)') \in Nat
    BY TokensType DEF Waiting
  <2>2. cheap[l] \in Nat /\ open[l] \in Nat /\ Allowance(l) \in Nat
    BY Levels DEF QuotaType, Allowance
  <2>3. CASE BuiltAt(l, b)
    <3>1. b \notin Waiting(l)' /\ Waiting(l) = Waiting(l)' \cup {b}
      BY <1>1, <2>3 DEF Waiting, BuiltAt, QuotaType
    <3>2. TokensOf(Waiting(l)) = TokensOf(Waiting(l)') + Tokens[b]
      BY <2>1, <3>1, TokensAdd
    <3>3. cheap'[l] = cheap[l] + Tokens[b]
      BY <1>1, <2>3
    <3> QED BY <1>2, <2>1, <2>2, <3>2, <3>3 DEF Room
  <2>4. CASE ~BuiltAt(l, b)
    <3>1. Waiting(l)' = Waiting(l)
      BY <1>1, <2>4 DEF Waiting, BuiltAt, QuotaType
    <3>2. cheap'[l] = cheap[l]
      BY <1>1, <2>4
    <3> QED BY <3>1, <3>2 DEF Room
  <2> QED BY <2>3, <2>4
<1>7. Room'
  BY <1>1, <1>6 DEF Room, TokensOf, Allowance
<1> QED BY <1>3, <1>5, <1>7

(* Every step keeps what went through at each price within its room.        *)
LEMMA QuotaKept == QuotaInv /\ [AccountNext]_account => QuotaInv'
<1> SUFFICES ASSUME QuotaInv, [AccountNext]_account PROVE QuotaInv'
  OBVIOUS
<1>1. CASE UNCHANGED <<known, quotas>>
  BY <1>1, ClearKeepsQuota DEF quotas, QuotaInv, QuotaType
<1>2. CASE AccountLife
  <2>1. ASSUME NEW cleared \in BOOLEAN, Hset(cleared) PROVE QuotaInv'
    BY <2>1, ClearKeepsQuota DEF Hset
  <2>2. CASE DeleteAccount
    BY <2>2, ClearKeepsQuota DEF DeleteAccount
  <2> QED BY <1>2, <2>1, <2>2 DEF AccountLife, AddAccount
<1>3. ASSUME NEW r \in Resetter, NEW cleared \in BOOLEAN, ResetExec(r, cleared)
      PROVE  QuotaInv'
  BY <1>3, ClearKeepsQuota DEF ResetExec, Hset
<1>4. CASE FailureNext
  <2>1. ASSUME NEW r \in Resetter, ResetKeys(r) PROVE QuotaInv'
    BY <2>1, <1>1 DEF ResetKeys
  <2>2. ASSUME NEW w \in Webhook, NEW failed \in BOOLEAN,
               ProcessWebhook(w, failed) \/ ResetWebhookFails(w)
        PROVE  QuotaInv'
    BY <2>2, <1>1 DEF ProcessWebhook, ResetWebhookFails
  <2> QED BY <1>2, <1>3, <1>4, <2>1, <2>2 DEF FailureNext
<1>5. CASE QuotaNext
  BY <1>2, <1>5, BuildMintKeepsQuota, ProcessNftKeepsQuota DEF QuotaNext
<1>6. CASE UNCHANGED account
  BY <1>1, <1>6 DEF account, quotas
<1> QED BY <1>4, <1>5, <1>6 DEF AccountNext

(* What went through at each price is always within its room.               *)
LEMMA QuotaInvariant == AccountSpec => []QuotaInv
<1> QED BY QuotaInit, QuotaKept, PTL DEF AccountSpec

(* Whatever quota, tiers and sizes of mints: what goes through at a price   *)
(* exceeds its limit by no more than what was built at it at one time       *)
(* (metering.service.ts 35-53, metering.ts 186-202).                        *)
THEOREM QuotaExceededOnlyByOpen == AccountSpec => []QuotaExceededByOpen
<1>1. QuotaInv => QuotaExceededByOpen
  <2> SUFFICES ASSUME QuotaInv, NEW l \in Level
               PROVE  cheap[l] <= open[l] + Allowance(l)
    BY DEF QuotaExceededByOpen, Allowance
  <2>1. TokensOf(Waiting(l)) \in Nat
    BY TokensType DEF Waiting
  <2>2. cheap[l] \in Nat /\ open[l] \in Nat /\ Allowance(l) \in Nat
    BY Levels DEF QuotaInv, QuotaType, Allowance
  <2> QED BY <2>1, <2>2 DEF QuotaInv, Room
<1> QED BY <1>1, QuotaInvariant, PTL

(* The account's variables keep their types; its counters are bounded by    *)
(* what was reported and what was built.                                    *)
THEOREM AccountTypeCorrect == AccountSpec => []AccountTypeOK
<1>1. FailInv /\ QuotaInv => AccountTypeOK
  <2> SUFFICES ASSUME FailInv, QuotaInv PROVE AccountTypeOK
    OBVIOUS
  <2>1. /\ fails \in [Webhook -> 0 .. MaxFailures]
        /\ sinceRead \in [Resetter -> [Webhook -> 0 .. MaxFailures]]
        /\ sinceClear \in [Webhook -> 0 .. MaxFailures]
    BY FailuresAssumption DEF FailInv, Counters
  <2>2. TokensOf(Minted) \in Nat /\ TokensOf(Minted) <= TokensOf(Build) /\ TokensOf(Build) \in Nat
    BY TokensType DEF Minted
  <2>3. minted \in 0 .. TokensOf(Build)
    BY <2>2 DEF QuotaInv, QuotaType, Counted
  <2>4. cheap \in [Level -> 0 .. minted] /\ open \in [Level -> 0 .. TokensOf(Build)]
    BY <2>2 DEF QuotaInv, QuotaType, Counted
  <2> QED BY <2>1, <2>3, <2>4 DEF FailInv, Counters, Resets, QuotaInv, QuotaType, Price,
       AccountTypeOK
<1> QED BY <1>1, FailInvariant, QuotaInvariant, PTL

-----------------------------------------------------------------------------
(* The queue.                                                               *)

(* How many copies of an event the calls under way hold.                    *)
Held(e) == [t \in Taker |-> batch[t][e]]
HeldSum(e) == SumFunctionOnSet(Held(e), Taker)

QueueShape ==
  /\ waiting \in [Event -> Nat]
  /\ taker \in [Taker -> {"idle", "taken", "done", "failed"}]
  /\ batch \in [Taker -> [Event -> Nat]]
  /\ handed \in [Event -> Nat] /\ gone \in [Event -> Nat]
  /\ pushed \in [Event -> 0 .. MaxPushes]
  /\ lost \in BOOLEAN

OnlyTakenHold == \A t \in Taker : taker[t] # "taken" => batch[t] = NoEvents

Balance == \A e \in Event : pushed[e] = waiting[e] + handed[e] + gone[e] + HeldSum(e)

GoneExplained == \A e \in Event : gone[e] > 0 => lost \/ \E b \in Bad : pushed[b] > 0

QueueInv == QueueShape /\ OnlyTakenHold /\ Balance /\ GoneExplained

(* A call holds no more copies than all calls together.                     *)
LEMMA HeldByOne ==
  ASSUME QueueShape, NEW e \in Event
  PROVE  HeldSum(e) \in Nat /\ \A t \in Taker : batch[t][e] <= HeldSum(e)
<1>1. \A t \in Taker : Held(e)[t] = batch[t][e] /\ Held(e)[t] \in Nat
  BY DEF Held, QueueShape
<1>2. HeldSum(e) \in Nat
  BY <1>1, TakerAssumption, SumNat DEF HeldSum
<1>3. ASSUME NEW t \in Taker PROVE batch[t][e] <= HeldSum(e)
  <2>1. HeldSum(e) = Held(e)[t] + SumFunctionOnSet(Held(e), Taker \ {t})
    BY <1>1, TakerAssumption, SumRemove DEF HeldSum
  <2>2. SumFunctionOnSet(Held(e), Taker \ {t}) \in Nat
    BY <1>1, TakerAssumption, SumNat, FS_Subset
  <2> QED BY <1>1, <2>1, <2>2
<1> QED BY <1>2, <1>3

(* Nobody holds anything: the sum is 0.                                     *)
LEMMA HeldNothing ==
  ASSUME NEW e \in Event, \A t \in Taker : batch[t] = NoEvents
  PROVE  HeldSum(e) = 0
<1> DEFINE Zeroes == {S \in SUBSET Taker : SumFunctionOnSet(Held(e), S) = 0}
<1>1. {} \in Zeroes
  BY SumEmpty
<1>2. ASSUME NEW S \in SUBSET Taker, NEW t \in Taker \ S, S \in Zeroes
      PROVE  S \cup {t} \in Zeroes
  <2>1. IsFiniteSet(S)
    BY TakerAssumption, FS_Subset
  <2>2. \A x \in Taker : Held(e)[x] = 0
    BY DEF Held, NoEvents
  <2>3. SumFunctionOnSet(Held(e), S \cup {t}) = Held(e)[t] + SumFunctionOnSet(Held(e), S)
    BY <2>1, <2>2, SumAdd
  <2> QED BY <1>2, <2>2, <2>3
<1>3. Taker \in Zeroes
  <2> HIDE DEF Zeroes
  <2> QED BY <1>1, <1>2, TakerAssumption, SetInduction
<1> QED BY <1>3 DEF HeldSum

(* A call's batch changes and the others' stay.                             *)
LEMMA HeldChanges ==
  ASSUME QueueShape, QueueShape', NEW t \in Taker, NEW f \in [Event -> Nat],
         batch' = [batch EXCEPT ![t] = f], NEW e \in Event
  PROVE  HeldSum(e)' = HeldSum(e) + f[e] - batch[t][e]
<1>1. \A x \in Taker : Held(e)[x] \in Int /\ Held(e)'[x] \in Int
                       /\ (x # t => Held(e)[x] = Held(e)'[x])
  BY DEF Held, QueueShape
<1>2. SumFunctionOnSet(Held(e)', Taker) =
        SumFunctionOnSet(Held(e), Taker) + Held(e)'[t] - Held(e)[t]
  <2> DEFINE g == Held(e)
             h == Held(e)'
  <2> HIDE DEF g, h
  <2> QED BY <1>1, TakerAssumption, SumChange DEF g, h
<1>3. Held(e)[t] = batch[t][e] /\ Held(e)'[t] = f[e]
  BY DEF Held, QueueShape
<1> QED BY <1>2, <1>3 DEF HeldSum

(* The queue starts empty and balanced.                                     *)
LEMMA QueueInitInv == QueueInit => QueueInv
<1> SUFFICES ASSUME QueueInit PROVE QueueInv
  OBVIOUS
<1>1. \A e \in Event : HeldSum(e) = 0
  BY HeldNothing DEF QueueInit
<1>2. QueueShape
  <2>1. NoEvents \in [Event -> Nat] /\ NoEvents \in [Event -> 0 .. MaxPushes]
    BY PushesAssumption DEF NoEvents
  <2>2. /\ taker \in [Taker -> {"idle", "taken", "done", "failed"}]
        /\ batch \in [Taker -> [Event -> Nat]]
    BY <2>1 DEF QueueInit
  <2>3. lost \in BOOLEAN
    BY DEF QueueInit
  <2> QED BY <2>1, <2>2, <2>3 DEF QueueInit, QueueShape
<1>3. OnlyTakenHold /\ GoneExplained
  BY DEF QueueInit, OnlyTakenHold, GoneExplained, NoEvents
<1>4. Balance
  BY <1>1 DEF QueueInit, Balance, NoEvents
<1> QED BY <1>2, <1>3, <1>4 DEF QueueInv

(* Every step moves events without making or losing one unexplained.        *)
LEMMA QueueNextInv == QueueInv /\ [QueueNext]_queue => QueueInv'
<1> SUFFICES ASSUME QueueInv, [QueueNext]_queue PROVE QueueInv'
  OBVIOUS
<1> USE PushesAssumption, BadAssumption DEF QueueInv
<1>h. \A e \in Event : HeldSum(e) \in Nat /\ \A t \in Taker : batch[t][e] <= HeldSum(e)
  BY HeldByOne
<1>1. ASSUME NEW e \in Event, AddConfirmationWebhook(e) PROVE QueueInv'
  <2>1. /\ pushed[e] < MaxPushes
        /\ waiting' = [waiting EXCEPT ![e] = @ + 1]
        /\ pushed' = [pushed EXCEPT ![e] = @ + 1]
        /\ UNCHANGED <<taker, batch, handed, gone, lost>>
    BY <1>1 DEF AddConfirmationWebhook
  <2>2. QueueShape' /\ OnlyTakenHold' /\ GoneExplained'
    BY <2>1 DEF QueueShape, OnlyTakenHold, GoneExplained
  <2>3. Balance'
    BY <1>h, <2>1 DEF Balance, HeldSum, Held, QueueShape
  <2> QED BY <2>2, <2>3
<1>2. ASSUME NEW t \in Taker, LrangeDel(t), gone' = Plus2(gone, batch[t]),
             UNCHANGED <<handed, pushed>>,
             taker' \in [Taker -> {"idle", "taken", "done", "failed"}],
             \A u \in Taker : taker'[u] # "taken" => u # t /\ taker[u] # "taken",
             lost' \in BOOLEAN, lost => lost', lost' \/ batch[t] = NoEvents
      PROVE  QueueInv'
  <2>1. /\ batch' = [batch EXCEPT ![t] = waiting] /\ waiting' = NoEvents
        /\ gone' = [e \in Event |-> gone[e] + batch[t][e]]
    BY <1>2 DEF LrangeDel, Plus2
  <2>2. QueueShape'
    BY <1>2, <2>1 DEF QueueShape, NoEvents
  <2>3. OnlyTakenHold'
    BY <1>2, <2>1 DEF QueueShape, OnlyTakenHold
  <2>4. GoneExplained'
    BY <1>2, <2>1 DEF GoneExplained, NoEvents, QueueShape
  <2>5. ASSUME NEW e \in Event
        PROVE  pushed'[e] = waiting'[e] + handed'[e] + gone'[e] + HeldSum(e)'
    <3>1. HeldSum(e)' = HeldSum(e) + waiting[e] - batch[t][e]
      BY <2>1, <2>2, HeldChanges DEF QueueShape
    <3>2. /\ pushed[e] \in Nat /\ waiting[e] \in Nat /\ handed[e] \in Nat /\ gone[e] \in Nat
          /\ batch[t][e] \in Nat
      BY DEF QueueShape
    <3>3. pushed[e] = waiting[e] + handed[e] + gone[e] + HeldSum(e)
      BY DEF Balance
    <3>4. waiting'[e] = 0 /\ gone'[e] = gone[e] + batch[t][e]
      BY <2>1 DEF NoEvents
    <3>5. pushed'[e] = pushed[e] /\ handed'[e] = handed[e]
      BY <1>2
    <3> QED BY <1>h, <3>1, <3>2, <3>3, <3>4, <3>5
  <2> QED BY <2>2, <2>3, <2>4, <2>5 DEF Balance
<1>3. ASSUME NEW t \in Taker, Take(t) PROVE QueueInv'
  <2>1. batch[t] = NoEvents
    BY <1>3 DEF Take, OnlyTakenHold
  <2>2. gone' = Plus2(gone, batch[t])
    BY <1>3, <2>1 DEF Take, Plus2, NoEvents, QueueShape
  <2> QED BY <1>2, <1>3, <2>1, <2>2 DEF Take, QueueShape
<1>4. ASSUME NEW t \in Taker, NEW s \in {"done", "failed"}, taker[t] = "taken",
             taker' = [taker EXCEPT ![t] = s],
             batch' = [batch EXCEPT ![t] = NoEvents],
             UNCHANGED <<waiting, pushed>>,
             \/ gone' = Plus2(gone, batch[t]) /\ UNCHANGED handed
                /\ (lost' \/ \E b \in Bad : batch[t][b] > 0)
             \/ handed' = Plus2(handed, batch[t]) /\ UNCHANGED gone,
             lost' \in BOOLEAN, lost => lost'
      PROVE  QueueInv'
  <2>1. QueueShape'
    BY <1>4 DEF QueueShape, NoEvents, Plus2
  <2>2. OnlyTakenHold'
    BY <1>4 DEF QueueShape, OnlyTakenHold
  <2>3. \A b \in Bad : batch[t][b] > 0 => pushed[b] > 0
    <3> SUFFICES ASSUME NEW b \in Bad, batch[t][b] > 0 PROVE pushed[b] > 0
      OBVIOUS
    <3>1. batch[t][b] <= HeldSum(b) /\ HeldSum(b) \in Nat /\ b \in Event
      BY <1>h
    <3>2. /\ pushed[b] = waiting[b] + handed[b] + gone[b] + HeldSum(b)
          /\ waiting[b] \in Nat /\ handed[b] \in Nat /\ gone[b] \in Nat /\ batch[t][b] \in Nat
      BY <3>1 DEF Balance, QueueShape
    <3> QED BY <3>1, <3>2
  <2>4. GoneExplained'
    BY <1>4, <2>3 DEF GoneExplained
  <2>5. ASSUME NEW e \in Event
        PROVE  pushed'[e] = waiting'[e] + handed'[e] + gone'[e] + HeldSum(e)'
    <3>1. HeldSum(e)' = HeldSum(e) + 0 - batch[t][e]
      <4>1. NoEvents \in [Event -> Nat] /\ NoEvents[e] = 0
        BY DEF NoEvents
      <4> QED BY <1>4, <2>1, <4>1, HeldChanges
    <3>2. /\ pushed[e] \in Nat /\ waiting[e] \in Nat /\ handed[e] \in Nat /\ gone[e] \in Nat
          /\ batch[t][e] \in Nat
      BY DEF QueueShape
    <3>3. pushed[e] = waiting[e] + handed[e] + gone[e] + HeldSum(e)
      BY DEF Balance
    <3>4. gone'[e] + handed'[e] = gone[e] + handed[e] + batch[t][e]
      BY <1>4, <3>2 DEF Plus2
    <3>5. pushed'[e] = pushed[e] /\ waiting'[e] = waiting[e]
      BY <1>4
    <3>6. gone'[e] \in Nat /\ handed'[e] \in Nat
      BY <2>1 DEF QueueShape
    <3> QED BY <1>h, <3>1, <3>2, <3>3, <3>4, <3>5, <3>6
  <2> QED BY <2>1, <2>2, <2>4, <2>5 DEF Balance
<1>5. ASSUME NEW t \in Taker, TakeAgain(t) PROVE QueueInv'
  <2>1. /\ taker[t] = "taken" /\ gone' = Plus2(gone, batch[t]) /\ lost' = TRUE
        /\ UNCHANGED <<handed, pushed>>
    BY <1>5 DEF TakeAgain
  <2>2. CASE LrangeDel(t) /\ UNCHANGED taker
    <3>1. \A u \in Taker : taker'[u] # "taken" => u # t /\ taker[u] # "taken"
      BY <2>1, <2>2
    <3>2. taker' \in [Taker -> {"idle", "taken", "done", "failed"}]
      BY <2>2 DEF QueueShape
    <3> QED BY <1>2, <2>1, <2>2, <3>1, <3>2
  <2>3. CASE /\ taker' = [taker EXCEPT ![t] = "failed"]
             /\ batch' = [batch EXCEPT ![t] = NoEvents]
             /\ UNCHANGED waiting
    BY <1>4, <2>1, <2>3
  <2> QED BY <1>5, <2>2, <2>3 DEF TakeAgain
<1>6. ASSUME NEW t \in Taker, Parse(t) PROVE QueueInv'
  BY <1>4, <1>6 DEF Parse, QueueShape
<1>7. ASSUME NEW t \in Taker, Return(t) PROVE QueueInv'
  <2>1. QueueShape' /\ OnlyTakenHold' /\ GoneExplained' /\ Balance'
    BY <1>7 DEF Return, QueueShape, OnlyTakenHold, GoneExplained, Balance, HeldSum, Held
  <2> QED BY <2>1
<1>8. CASE UNCHANGED queue
  BY <1>8 DEF queue, QueueShape, OnlyTakenHold, GoneExplained, Balance, HeldSum, Held
<1> QED BY <1>1, <1>3, <1>5, <1>6, <1>7, <1>8 DEF QueueNext

(* Every event is always accounted for.                                     *)
LEMMA QueueInvariant == QueueSpec => []QueueInv
<1> QED BY QueueInitInv, QueueNextInv, PTL DEF QueueSpec

(* However many processes take, every confirmation appended is waiting,     *)
(* held by one call, handed out once, or gone with a reason (metering.ts    *)
(* 297-319).                                                                *)
THEOREM EventsAreAccounted == QueueSpec => []EventsAccounted
<1>1. QueueInv => EventsAccounted
  BY DEF QueueInv, Balance, HeldSum, Held, GoneExplained, EventsAccounted
<1> QED BY <1>1, QueueInvariant, PTL

(* The balance of events bounds each of their counts.                       *)
LEMMA QueueInvType == QueueInv => QueueTypeOK
<1> SUFFICES ASSUME QueueInv PROVE QueueTypeOK
  OBVIOUS
<1> USE PushesAssumption DEF QueueInv
<1>1. ASSUME NEW e \in Event
      PROVE  /\ waiting[e] \in 0 .. MaxPushes /\ handed[e] \in 0 .. MaxPushes
             /\ gone[e] \in 0 .. MaxPushes
             /\ \A t \in Taker : batch[t][e] \in 0 .. MaxPushes
  <2>1. HeldSum(e) \in Nat /\ \A t \in Taker : batch[t][e] <= HeldSum(e)
    BY HeldByOne
  <2>2. pushed[e] = waiting[e] + handed[e] + gone[e] + HeldSum(e)
    BY DEF Balance
  <2>3. /\ pushed[e] \in 0 .. MaxPushes /\ waiting[e] \in Nat
        /\ handed[e] \in Nat /\ gone[e] \in Nat
    BY DEF QueueShape
  <2>4. \A t \in Taker : batch[t][e] \in Nat
    BY DEF QueueShape
  <2>5. HeldSum(e) <= MaxPushes
    BY <2>1, <2>2, <2>3
  <2> QED BY <2>1, <2>2, <2>3, <2>4, <2>5
<1> QED BY <1>1 DEF QueueShape, OnlyTakenHold, QueueTypeOK

-----------------------------------------------------------------------------
(* The parts run side by side as each would alone, so that what is proved   *)
(* of one holds of them together: they share no state (metering.ts 49-360). *)
THEOREM PartsRunApart == MCSpec => ConnectionSafety /\ AccountSpec /\ QueueSpec
<1>1. MCInit => ConnectionInit /\ AccountInit /\ QueueInit
  BY DEF MCInit
<1>2. [MCNext]_mcvars =>
        [ConnectionNext]_connection /\ [AccountNext]_account /\ [QueueNext]_queue
  BY DEF MCNext, mcvars, AccountNext
<1> QED BY <1>1, <1>2, PTL DEF MCSpec, ConnectionSafety, AccountSpec, QueueSpec

(* The parts run side by side keep every variable's type: no count of       *)
(* events, failures or mints leaves its range.                              *)
THEOREM MeteringTypeCorrect == MCSpec => []MeteringTypeOK
<1>1. QueueSpec => []QueueTypeOK
  BY QueueInvariant, QueueInvType, PTL
<1> QED BY <1>1, PartsRunApart, ConnectionTypeCorrect, AccountTypeCorrect, PTL DEF MeteringTypeOK
=============================================================================
