--------------------------- MODULE MeteringAccount ---------------------------
(***************************************************************************)
(* The hash Metering keeps for an account (src/providers/metering/metering.ts)*)
(* and what the service charges for a mint by it (metering.service.ts).     *)
(*                                                                          *)
(* Redis runs a command, and the commands of a MULTI, at one moment; between*)
(* two of them anything may happen.  The callers of most operations, which  *)
(* write quotas, report what webhooks did and count mints, are services     *)
(* outside this repository: they call at any time, in any order.  The data  *)
(* an account is given or reset to is theirs too: here it always has the    *)
(* quota, and the counter of mints or not.                                  *)
(***************************************************************************)
EXTENDS Naturals, FiniteSetsExt

CONSTANTS
  Webhook,    \* the webhooks of the account
  Resetter,   \* calls of resetAccount
  Build,      \* transactions that mint
  Tokens,     \* [Build -> Nat]: how many tokens each mints
  Quota,      \* nft_mints, the mints that are free
  Tier1,      \* TIER_1, the mints at the first fee
  Tier2,      \* TIER_2, those at the second
  MaxFailures \* bound: failures reported

ASSUME TokensAssumption == IsFiniteSet(Build) /\ Tokens \in [Build -> Nat]
ASSUME TierAssumption == Quota \in Nat /\ Tier1 \in Nat /\ Tier2 \in Nat
ASSUME FailuresAssumption == MaxFailures \in Nat

VARIABLES
  known,      \* the hash has the data of an account
  fails,      \* its wh-fails fields; 0 is a field that is not there
  minted,     \* its nft_minted_counter, likewise
  resetter,   \* [Resetter -> where the call is]
  names,      \* [Resetter -> the failure counters it found]
  price,      \* [Build -> the fee it was built with, "no" before that]
  build,      \* [Build -> "idle", "built" or "minted"]
  reported,   \* failures reported
  sinceRead,  \* history: failures since a reset read the names
  sinceClear, \* history: failures since the last reset was executed
  cheap,      \* history: tokens minted at each price or a lower one, since
              \* the counter of mints was last cleared
  open        \* history: the most tokens ever built at it and not yet minted

account == <<known, fails, minted, resetter, names, price, build, reported,
             sinceRead, sinceClear, cheap, open>>
quotas == <<minted, price, build, cheap, open>>
failures == <<fails, resetter, names, reported, sinceRead, sinceClear>>

Zero == [w \in Webhook |-> 0]

(* The prices with the counts of mints below which they, or a lower one, are*)
(* asked: nothing orders the quota and the tiers.  "none" is the fee of an  *)
(* account without data: undefined, and not charged.                        *)
Below == [free |-> Quota, tier1 |-> Max({Quota, Tier1 + 1}),
          tier2 |-> Max({Quota, Tier1 + 1, Tier2 + 1})]
Level == DOMAIN Below
AtMost == [free |-> {"free"}, tier1 |-> {"free", "tier1"}, tier2 |-> {"free", "tier1", "tier2"}]

TokensOf(S) == SumFunctionOnSet(Tokens, S)

(* Every variable has its type; only resets that read hold names.           *)
AccountTypeOK ==
  /\ known \in BOOLEAN
  /\ fails \in [Webhook -> 0 .. MaxFailures]
  /\ minted \in 0 .. TokensOf(Build)
  /\ resetter \in [Resetter -> {"idle", "reading", "done"}]
  /\ names \in [Resetter -> SUBSET Webhook]
  /\ \A r \in Resetter : resetter[r] = "idle" => names[r] = {}
  /\ price \in [Build -> {"no", "none", "free", "tier1", "tier2", "tier3"}]
  /\ build \in [Build -> {"idle", "built", "minted"}]
  /\ reported \in 0 .. MaxFailures
  /\ sinceRead \in [Resetter -> [Webhook -> 0 .. MaxFailures]]
  /\ sinceClear \in [Webhook -> 0 .. MaxFailures]
  /\ cheap \in [Level -> 0 .. minted]
  /\ open \in [Level -> 0 .. TokensOf(Build)]

AccountInit ==
  /\ known = FALSE /\ fails = Zero /\ minted = 0
  /\ resetter = [r \in Resetter |-> "idle"]
  /\ names = [r \in Resetter |-> {}]
  /\ price = [b \in Build |-> "no"]
  /\ build = [b \in Build |-> "idle"]
  /\ reported = 0
  /\ sinceRead = [r \in Resetter |-> Zero] /\ sinceClear = Zero
  /\ cheap = [l \in Level |-> 0] /\ open = [l \in Level |-> 0]

(* HSET of the data: fields it does not have stay as they are.              *)
Hset(cleared) ==
  /\ known' = TRUE
  /\ IF cleared
       THEN minted' = 0 /\ cheap' = [l \in Level |-> 0]
       ELSE UNCHANGED <<minted, cheap>>
  /\ UNCHANGED <<price, build, open>>

AddAccount(cleared) == Hset(cleared) /\ UNCHANGED failures

(* resetAccount, first half: HKEYS, and the failure counters among them.    *)
ResetKeys(r) ==
  /\ resetter[r] = "idle"
  /\ resetter' = [resetter EXCEPT ![r] = "reading"]
  /\ names' = [names EXCEPT ![r] = {w \in Webhook : fails[w] > 0}]
  /\ sinceRead' = [sinceRead EXCEPT ![r] = Zero]
  /\ UNCHANGED <<known, fails, reported, sinceClear, quotas>>

(* Mutant: the data is written, the counters stay.                          *)
WithoutNone(r) == fails

Without(r) == [w \in Webhook |-> IF w \in names[r] THEN 0 ELSE fails[w]]

(* Second half: MULTI HSET HDEL EXEC.  A cluster's client may send it again *)
(* when the connection broke.                                               *)
ResetExec(r, cleared) ==
  /\ resetter[r] \in {"reading", "done"}
  /\ resetter' = [resetter EXCEPT ![r] = "done"]
  /\ fails' = Without(r)
  /\ sinceClear' = Zero
  /\ Hset(cleared)
  /\ UNCHANGED <<names, reported, sinceRead>>

(* The counter of a webhook is gone: it was notified, or it was removed.    *)
ClearFails(w) ==
  /\ fails' = [fails EXCEPT ![w] = 0]
  /\ sinceClear' = [sinceClear EXCEPT ![w] = 0]
  /\ sinceRead' = [r \in Resetter |-> [sinceRead[r] EXCEPT ![w] = 0]]

(* processWebhook, called with the failures of one notification or none.    *)
ProcessWebhook(w, failed) ==
  /\ \/ /\ failed /\ reported < MaxFailures
        /\ reported' = reported + 1
        /\ fails' = [fails EXCEPT ![w] = @ + 1]
        /\ sinceClear' = [sinceClear EXCEPT ![w] = @ + 1]
        /\ sinceRead' = [r \in Resetter |-> [sinceRead[r] EXCEPT ![w] = @ + 1]]
     \/ ~failed /\ ClearFails(w) /\ UNCHANGED reported
  /\ UNCHANGED <<known, resetter, names, quotas>>

ResetWebhookFails(w) ==
  /\ ClearFails(w)
  /\ UNCHANGED <<known, resetter, names, reported, quotas>>

(* DEL: a counter that is incremented later makes a hash without data.      *)
DeleteAccount ==
  /\ known' = FALSE /\ fails' = Zero /\ minted' = 0
  /\ sinceClear' = Zero /\ sinceRead' = [r \in Resetter |-> Zero]
  /\ cheap' = [l \in Level |-> 0]
  /\ UNCHANGED <<resetter, names, reported, price, build, open>>

GetTier(n) == IF n <= Tier1 THEN "tier1" ELSE IF n <= Tier2 THEN "tier2" ELSE "tier3"

(* Mutant: the free quota has one more.                                     *)
NftFeeOneMore == IF known /\ Quota >= minted THEN "free" ELSE GetTier(minted)

(* getNftFee, for an account that is not of the tier "enterprise": its fees *)
(* are part of its data.                                                    *)
NftFee ==
  IF ~known THEN "none" ELSE IF Quota > minted THEN "free" ELSE GetTier(minted)

BuiltAt(l, b) == price[b] \in AtMost[l] /\ build[b] = "built"

(* buildTx asks for the fee and puts it into the transaction.               *)
BuildMint(b) ==
  /\ build[b] = "idle"
  /\ build' = [build EXCEPT ![b] = "built"]
  /\ price' = [price EXCEPT ![b] = NftFee]
  /\ open' = [l \in Level |->
       LET n == TokensOf({c \in Build : price'[c] \in AtMost[l] /\ build'[c] = "built"})
       IN  IF n > open[l] THEN n ELSE open[l]]
  /\ UNCHANGED <<known, minted, cheap, failures>>

(* processNft, when the transaction was submitted and its mints are counted.*)
ProcessNft(b) ==
  /\ build[b] = "built"
  /\ build' = [build EXCEPT ![b] = "minted"]
  /\ minted' = minted + Tokens[b]
  /\ cheap' = [l \in Level |-> IF BuiltAt(l, b) THEN cheap[l] + Tokens[b] ELSE cheap[l]]
  /\ UNCHANGED <<known, price, open, failures>>

AccountLife ==
  \/ \E cleared \in BOOLEAN : AddAccount(cleared)
  \/ DeleteAccount

FailureNext ==
  \/ AccountLife
  \/ \E r \in Resetter : ResetKeys(r) \/ \E cleared \in BOOLEAN : ResetExec(r, cleared)
  \/ \E w \in Webhook : \/ \E failed \in BOOLEAN : ProcessWebhook(w, failed)
                        \/ ResetWebhookFails(w)

QuotaNext ==
  \/ AccountLife
  \/ \E b \in Build : BuildMint(b) \/ ProcessNft(b)

AccountNext == FailureNext \/ QuotaNext

AccountSpec == AccountInit /\ [][AccountNext]_account

-----------------------------------------------------------------------------
(* A counter never has less than the failures since a reset was executed,   *)
(* nor, after a reset is done, more than those since that reset looked for  *)
(* counters: one that appeared in between survives, with what happened in   *)
(* between, and nothing older does (metering.ts 111-162).                   *)
FailuresCounted ==
  \A w \in Webhook :
    /\ sinceClear[w] <= fails[w]
    /\ \A r \in Resetter : resetter[r] = "done" => fails[w] <= sinceRead[r][w]

(* The fee is read when a transaction is built and the mint counted when it *)
(* was submitted: what goes through at a price or a lower one exceeds its   *)
(* limit by no more than what was built at it at one time, in transactions  *)
(* that waited for each other's count (metering.service.ts 35-48,           *)
(* metering.ts 186-202).                                                    *)
QuotaExceededByOpen ==
  \A l \in Level :
    cheap[l] <= open[l] + (IF Below[l] = 0 THEN 0 ELSE Below[l] - 1)
=============================================================================
