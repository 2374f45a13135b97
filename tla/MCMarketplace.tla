--------------------------- MODULE MCMarketplace ---------------------------
(***************************************************************************)
(* Instances of Marketplace for TLC: the orders clients may post and the   *)
(* cancellations users may make, for one wallet or two.                    *)
(***************************************************************************)
EXTENDS Marketplace, TLC

CONSTANTS alice, bob, c1, c2, eth, usd, p1, p2

Symmetry == Permutations(Procs)

Order(type, user, chain, amount, cur, n) ==
  [type |-> type, participant |-> user, chainId |-> chain, tokenId |-> 0,
   amount |-> amount, currency |-> cur, nonce |-> n]

Cancels(user, sets) == {[user |-> user, chainId |-> c1, nonces |-> s] : s \in sets}

\* Two listings of one wallet, at falling prices, and a bid for it under the
\* nonce of the first, which a purchase of that listing removes with it.
TwoListingsAndABid ==
  {Order("LISTING", alice, c1, 10, eth, 1), Order("LISTING", alice, c1, 9, eth, 2),
   Order("BID", bob, c1, 7, eth, 1)}

LowestCancelled == Cancels(alice, {{2}})

LowestOrAllCancelled == Cancels(alice, {{2}, {0, 1, 2}})

\* The first of her listings cancelled, or all.
AliceCancels == Cancels(alice, {{1}, {0, 1, 2}})

\* Listings at falling prices and bids in two currencies, placed in any order;
\* a bid under nonce 1 too, which a purchase of the listing deletes with it.
ListingsAndBids ==
  {Order("LISTING", alice, c1, 10, eth, 3), Order("LISTING", alice, c1, 9, eth, 2),
   Order("LISTING", alice, c1, 8, eth, 1),
   Order("BID", bob, c1, 7, eth, 1), Order("BID", bob, c1, 8, eth, 2),
   Order("BID", bob, c1, 6, usd, 3)}

\* The seller cancels her lowest listing or the others, the bidder the bid that hides another.
SomeCancels == AliceCancels \cup Cancels(bob, {{2}})

\* A sale somebody posts, of the wallet the orders above are for.
AliceToBob == {[chainId |-> c1, tokenId |-> 0, buyer |-> bob, seller |-> alice]}

\* Listings of the wallets with index 0 on two chains.
ListingsOnTwoChains ==
  {Order("LISTING", alice, c, a, eth, 1) : c \in {c1, c2}, a \in {9, 10}}

\* Bids raised one after the other, and the cancellation of the last.
BidPerNonce == {Order("BID", bob, c1, 10 + n, eth, n) : n \in 1 .. 3}

LastBidCancelled == Cancels(bob, {{3}})
============================================================================
