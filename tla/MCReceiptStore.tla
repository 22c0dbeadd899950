--------------------------- MODULE MCReceiptStore ---------------------------
EXTENDS ReceiptStore, TLC

MCPlan == ("tp2" :> <<"tp2", "context">>) @@ ("smoke" :> <<"smoke">>)

\* Nothing is committed, or a passing receipt of the first step and a quarantined
\* one of the second.
MCCommitted(status) == [kind |-> "receipt", status |-> status, facts |-> "fine", ts |-> 0]
MCHeads ==
  {NoFiles,
   [NoFiles EXCEPT ![<<"graded", "tp2">>] = MCCommitted("pass"),
                   ![<<"failed", "context">>] = MCCommitted("fail")]}
=============================================================================
