------------------------------- MODULE Metadata -------------------------------
(***************************************************************************)
(* Transaction metadata: from the JSON of a request to what the transaction *)
(* carries (src/utils/serialization.util.ts 829-974), merged over the       *)
(* tokens of a request (src/transactions/transactions.service.ts 248).      *)
(*                                                                          *)
(* A value is a tree; the steps of a path are keys of maps and positions in *)
(* lists, "0", "1" and on, as in JavaScript.  What is at a path is          *)
(* <<"number", n>>, <<"string", s>>, <<"boolean", s>> or <<"null", s>> with *)
(* s the text it is turned into, <<"list">> or <<"map">>; the metadata of a *)
(* token is a map.  JSON has no undefined values and no buffers.            *)
(***************************************************************************)
EXTENDS Int32, Trees

CONSTANTS
  LongText, \* strings of more than 64 bytes
  Labels    \* the keys of the top level that are integers

Container == {<<"list">>, <<"map">>}
Text == {"string", "boolean", "null"}
Leaf == ({"number"} \X Int) \cup (Text \X STRING)

IsMetadata(x) ==
  /\ IsTree(x, STRING) /\ x[<<>>] = <<"map">>
  /\ \A p \in DOMAIN x : /\ x[p] \in Container \cup Leaf
                         /\ \A q \in Above(p) : x[q] \in Container

(* Both have a list at q, or both a map.                                    *)
Joined(x, y, q) == q \in DOMAIN x \cap DOMAIN y /\ x[q] = y[q] /\ x[q] \in Container

(* q is where the two part, the first path on its way not joined.           *)
Parting(x, y, q) == ~Joined(x, y, q) /\ \A a \in Above(q) : Joined(x, y, a)

(* There the first value counts: nothing is laid over it, or a map over its *)
(* list, which becomes properties of the list that are not written, as long *)
(* as no key is a position.                                                 *)
KeepsFirst(x, y, q) ==
  q \in DOMAIN y => q \in DOMAIN x /\ <<x[q], y[q]>> = <<<<"list">>, <<"map">>>>

(* _.merge: maps are united and lists laid over each other, part by part;   *)
(* where the two part, one value counts with all below it.                  *)
Merge(x, y) ==
  LET first(q) == KeepsFirst(x, y, q)
      kept == {p \in DOMAIN x : \A q \in Way(p) : Parting(x, y, q) => first(q)}
      laid == {p \in DOMAIN y : \A q \in Way(p) : Parting(x, y, q) => ~first(q)}
  IN  [p \in kept \cup laid |-> IF p \in laid THEN y[p] ELSE x[p]]

(* The tagged object of one value; that of a long text is empty.            *)
GetMetadataObject(v) ==
  CASE v[1] = "number" -> <<"int", v[2]>>
    [] v[1] \in Text -> IF v[2] \in LongText THEN <<"nothing">> ELSE <<"string", v[2]>>
    [] v \in Container -> v

(* Only the keys that are integers become labels; the rest is left out.     *)
ConstructMetadata(data) ==
  [p \in {q \in DOMAIN data : q # <<>> /\ q[1] \in Labels} |-> GetMetadataObject(data[p])]

(* The value again, as JSON writes it: of a Number object the number.       *)
ReverseMetadataObject(o) ==
  CASE o[1] = "string" -> o
    [] o[1] = "int" -> <<"number", o[2]>>
    [] o \in Container -> o
    [] o[1] = "nothing" -> <<"list">>

ReverseMetadata(metadata) ==
  [p \in DOMAIN metadata \cup {<<>>} |->
     IF p = <<>> THEN <<"map">> ELSE ReverseMetadataObject(metadata[p])]

(* An empty object, or a key of a map that would be one, becomes undefined, *)
(* and the library throws when it is inserted.                              *)
Throws(metadata) ==
  \E p \in DOMAIN metadata :
    metadata[p] = <<"nothing">> \/ (Len(p) > 1 /\ p[Len(p)] \in LongText)

GetTransactionMetadatum(o) ==
  CASE o[1] = "int" -> <<"int", NewI32(o[2])>>
    [] o[1] = "string" -> <<"text", o[2]>>
    [] o \in Container -> o

BuildTransactionMetadata(metadata) ==
  [p \in DOMAIN metadata |-> GetTransactionMetadatum(metadata[p])]

-----------------------------------------------------------------------------
(* What the definitions above are checked against.                          *)

(* The transaction's d is the request's v, but for a number that does not   *)
(* fit.                                                                     *)
Carries(d, v) ==
  CASE v[1] = "number" -> d[1] = "int" /\ (Fits(v[2]) => d[2] = v[2])
    [] v[1] \in Text -> d = <<"text", v[2]>>
    [] v \in Container -> d = v

(* Two tokens say nothing different of the same thing.                      *)
Agree(x, y) == \A q \in DOMAIN x \cap DOMAIN y : x[q] = y[q]

(* Somewhere x has a list where y has a map.                                *)
Hides(x, y) ==
  \E q \in DOMAIN x \cap DOMAIN y :
    /\ <<x[q], y[q]>> = <<<<"list">>, <<"map">>>>
    /\ \A a \in Above(q) : Joined(x, y, a)
=============================================================================
