----------------------------- MODULE MCWebhooks -----------------------------
(* Columns, values and bodies for requests on one webhook and new ones.      *)
EXTENDS Webhooks

CONSTANTS zero, one

MCVal == {zero, one}
MCOptional == {"name"}

(* Bodies that give a name, the confirmations, or both.                      *)
MCBody == {[f \in Column |-> IF f \in given THEN one ELSE Null] :
             given \in {{"name"}, {"confirmations"}, Column}}
=============================================================================
