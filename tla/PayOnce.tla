------------------------------ MODULE PayOnce ------------------------------
(***************************************************************************)
(* What the settlement of reserved payments promises, whoever settles them *)
(* and however often: a payment is reserved once, with its amount and      *)
(* payee fixed; it is paid at most once, that amount to that payee; it is  *)
(* acknowledged only when it has been paid; a wallet grows in no other     *)
(* way. Modules JobProtocol and Settlement implement this.                 *)
(***************************************************************************)
EXTENDS Naturals

CONSTANTS
  Keys,         \* business keys of the payments
  Payees        \* the wallets

VARIABLES
  reservation,  \* the fixed amount and payee of each key; amount 0: none
  paid,         \* the keys whose amount has been handed over
  acknowledged, \* the keys reported as succeeded
  wallet        \* what each payee holds

onceVars == <<reservation, paid, acknowledged, wallet>>

Init ==
  /\ \A k \in Keys : reservation[k].amount = 0
  /\ paid = {}
  /\ acknowledged = {}

\* The amount and the payee are whatever is reserved, but for good.
Reserve(k) ==
  /\ reservation[k].amount = 0
  /\ reservation'[k].amount > 0
  /\ reservation' = [reservation EXCEPT ![k] = reservation'[k]]
  /\ UNCHANGED <<paid, acknowledged, wallet>>

Pay(k) ==
  /\ reservation[k].amount > 0
  /\ k \notin paid
  /\ paid' = paid \cup {k}
  /\ wallet' = [wallet EXCEPT ![reservation[k].payee] = @ + reservation[k].amount]
  /\ UNCHANGED <<reservation, acknowledged>>

Acknowledge(k) ==
  /\ k \in paid
  /\ acknowledged' = acknowledged \cup {k}
  /\ UNCHANGED <<reservation, paid, wallet>>

\* The owner of a wallet funds a job.
Spend(p) ==
  /\ wallet'[p] < wallet[p]
  /\ wallet' = [wallet EXCEPT ![p] = wallet'[p]]
  /\ UNCHANGED <<reservation, paid, acknowledged>>

Next ==
  \/ \E k \in Keys : Reserve(k) \/ Pay(k) \/ Acknowledge(k)
  \/ \E p \in Payees : Spend(p)

Spec == Init /\ [][Next]_onceVars

=============================================================================
