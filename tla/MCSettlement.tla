---------------------------- MODULE MCSettlement ----------------------------
(* Instances of Settlement for TLC: a payout, and two refunds that share an
   account, one payee without a wallet. *)
EXTENDS Settlement, TLC

CONSTANTS payout, refund1, refund2, parentPayout, refundAccount, alice, bob

MCAmount  == payout :> 2 @@ refund1 :> 1 @@ refund2 :> 3
MCPayee   == payout :> bob @@ refund1 :> alice @@ refund2 :> alice
MCSourceOf == payout :> parentPayout @@ refund1 :> refundAccount
              @@ refund2 :> refundAccount
MCBackoff == <<1, 2, 4>>

\* For the runs about time: two payments, and a back-off table shorter than the
\* number of failures, whose last step is beyond the cap.
MCBackoff2 == <<1, 3>>
MCAmount2 == payout :> 2 @@ refund1 :> 1
MCPayee2  == payout :> bob @@ refund1 :> alice
MCSourceOf2 == payout :> parentPayout @@ refund1 :> refundAccount

SchedulersAlike == Permutations(Schedulers)
=============================================================================
