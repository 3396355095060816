----------------------------- MODULE MCInflight ------------------------------
(***************************************************************************)
(* Two funders that may overdraw and a shop. The purchase is funded by     *)
(* both, unequally, so that partial confirms leave change and voids are    *)
(* divided; with the gift there are two destinations, hence two holds.     *)
(***************************************************************************)
EXTENDS Inflight

Ann == <<1, 0>>
Ben == <<2, 0>>
Shop == <<3, 0>>

MCAccount == {Ann, Ben, Shop, <<2, 7>>, <<3, 7>>}
MCAsset == {1}
MCExisting == (Ann :> {}) @@ (Ben :> {}) @@ (Shop :> {"DEBIT_MUST_NOT_EXCEED_CREDIT"})

SharedPurchase == <<Movement(Ann, Shop, 1, 2), Movement(Ben, Shop, 1, 1)>>
PurchaseWithGift == Transfer(Append(SharedPurchase, Movement(Ann, Ben, 1, 1)), DEFAULT_BOOK, "gift")

GiftTrade == {PurchaseWithGift}
TwoHolds == (PurchaseWithGift :> 7)

One == Movement(Ann, Shop, 1, 1)
\* A batch whose second movement can find too little left.
BatchConfirms == {<<One>>, <<One, Movement(Ben, Shop, 1, 1)>>}

ClientSymmetry == Permutations(Client)
=============================================================================
