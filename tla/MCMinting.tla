------------------------------ MODULE MCMinting ------------------------------
(***************************************************************************)
(* Minting for TLC: scripts of every kind and nesting, with new keys and    *)
(* without, locks given by slot and by date, and, for the plainest script,  *)
(* metadata of every shape and numbers at the edge of the library's.        *)
(***************************************************************************)
EXTENDS Minting

K(who, n) == NewKey(who, <<n>>)
MCOwned == {<<"xprv1", K("client", 1)>>, <<"cbor", K("client", 2)>>}
MCPay == K("client", 1000)
MCStray == <<"cbor", K("stray", 1)>>
MCServerKeys == <<K("server", 1), K("server", 2)>>
MCServerRoot ==
  Tree(GroupRoot("all", 0), [i \in 1 .. 2 |-> Tree(SigRoot(MCServerKeys[i]), <<>>)])

Sig(n) == Tree([Plain("sig") EXCEPT !.keyHash = K("client", n)], <<>>)
NewSig == BuildPolicyJsonScript(FALSE, <<>>)
Group(t, parts) == Tree(Plain(t), parts)
Some(n, parts) == Tree([Plain("atLeast") EXCEPT !.require = n], parts)
Lock(t, s) == Tree([Plain(t) EXCEPT !.slot = s], <<>>)
Dated(t, lock) == Tree([Plain(t) EXCEPT !.lockTime = lock], <<>>)

MCScript ==
  {Sig(1), NewSig, Lock("before", 3), Lock("after", 1), Dated("before", <<0>>),
   Dated("before", <<2>>), Dated("before", <<>>),
   Tree([Plain("before") EXCEPT !.slot = 3], <<NewSig>>),
   Group("all", <<NewSig, Lock("before", 3)>>), BuildPolicyJsonScript(TRUE, <<3>>),
   Group("all", <<Sig(1), Dated("before", <<2>>)>>),
   Group("all", <<Sig(1), Lock("before", 2), Lock("before", 3)>>),
   Group("all", <<NewSig, Group("any", <<NewSig>>)>>),
   Group("all", <<Sig(1), Group("all", <<Sig(2), Lock("before", 2)>>)>>),
   Group("any", <<Sig(1), Lock("after", 2)>>),
   Some(2, <<NewSig, Sig(1), Lock("before", 3)>>), Some(3, <<Sig(1), NewSig>>)}

MCBurn == {<<>>, <<Sig(1)>>, <<Group("all", <<Sig(2), Lock("before", 2)>>)>>}

One(v) == Tree(v, <<>>)
Text1 == One(<<"string", "text">>)
At0(v) == [i \in {"0"} |-> v]
MCValues ==
  {One(<<"number", 7>>), One(<<"number", 8>>), One(<<"number", -8>>), Text1,
   One(<<"string", "long">>), One(<<"boolean", "true">>), One(<<"null", "null">>),
   Tree(<<"list">>, [i \in {"0", "1"} |-> IF i = "0" THEN One(<<"number", 1>>) ELSE Text1]),
   Tree(<<"list">>, [i \in {"0", "1"} |->
                       IF i = "0" THEN Text1 ELSE Tree(<<"list">>, At0(One(<<"number", 9>>)))]),
   Tree(<<"map">>, [k \in {"name"} |-> Text1]),
   Tree(<<"map">>, [k \in {"name", "image"} |-> Tree(<<"list">>, At0(One(<<"null", "null">>)))]),
   Tree(<<"map">>, [k \in {"image"} |-> Tree(<<"list">>, At0(One(<<"null", "null">>)))]),
   Tree(<<"map">>, [k \in {"long"} |-> One(<<"number", 1>>)])}

Empty == One(<<"map">>)
MCMetadata ==
  {Empty} \cup {Tree(<<"map">>, [l \in {l1} |-> v]) : v \in MCValues, l1 \in {"721", "note"}}
MCPlain == [first |-> Empty, second |-> Empty, quantity |-> 1]
MCCargo ==
  {MCPlain} \cup {[first |-> m, second |-> n, quantity |-> 1] : m, n \in MCMetadata}
    \cup {[MCPlain EXCEPT !.quantity = q] : q \in {7, 8, 16}}

VARIABLE focus

MCFocus ==
  [script |-> burn = <<>> /\ ~charged /\ cargo = MCPlain,
   chain |-> cargo = MCPlain,
   calls |-> json = Lock("before", 3) /\ burn = <<>> /\ ~charged /\ cargo = MCPlain,
   cargo |-> json = Sig(1) /\ burn = <<>> /\ ~charged]

MCInit ==
  /\ MintInit
  /\ focus \in DOMAIN MCFocus /\ MCFocus[focus]

(* Addresses and evaluations are asked for where scripts are looked at, and *)
(* submissions are made, two of them only where they are.                   *)
MCNext ==
  /\ MintNext
  /\ UNCHANGED focus
  /\ focus # "script" => UNCHANGED <<address, evaluation>>
  /\ focus \in {"script", "cargo"} => UNCHANGED call
  /\ focus = "chain" => \A c, d \in Call : call'[c] # "idle" /\ call'[d] # "idle" => c = d

MCSpec == MCInit /\ [][MCNext]_<<mintVars, focus>>
=============================================================================
