--------------------------- MODULE NftMarketplace ---------------------------
(***************************************************************************)
(* src/nft_marketplace.rs: fixed-price listings, auctions, bundles and     *)
(* item-for-item trade offers.  Each kind draws ids from a counter of its  *)
(* own; all of them keep the assets they hold under EscrowedAsset(id).     *)
(* Prices and fees are counted, no balance is moved.                       *)
(***************************************************************************)
EXTENDS Naturals, FiniteSets, SequencesExt, Functions, TLC

CONSTANTS Player, Asset,
          Category,        \* the category of each asset
          MaxListings, MaxAuctions, MaxOffers,   \* caps per user
          MaxBundleItems,
          ListingFee, SuccessFee, BpsDenominator,
          Discount,        \* reputation discount of each player, in bps
          MinIncrement,    \* MIN_BID_INCREMENT_BPS
          Window, Extension,     \* AUCTION_EXTENSION_WINDOW, _SECONDS
          WashWindow,      \* WASH_TRADE_WINDOW_SECONDS
          KeptSales,       \* sales remembered for an asset, 10
          AutoBidMultiple, \* MAX_AUTO_BID_MULTIPLIER
          Price, Duration,
          ListingIds, AuctionIds, BundleIds, OfferIds, MaxBids, MaxTime   \* bounds

VARIABLES now,
          listings, sellerListings, listingCounter,
          auctions, auctionBids, sellerAuctions, autoBids,
          bundles, bundleCounter,
          offers, userOffers,
          escrow,    \* EscrowedAsset
          sales,     \* RecentSales
          stats,     \* TotalListings, TotalAuctions, TotalSales, TotalVolume, CollectedFees
          volume     \* CategoryVolume

listingVars == <<listings, sellerListings, listingCounter>>
auctionVars == <<auctions, auctionBids, sellerAuctions, autoBids>>
bundleVars == <<bundles, bundleCounter>>
offerVars == <<offers, userOffers>>
nftVars == <<listingVars, auctionVars, bundleVars, offerVars, escrow, sales, stats, volume>>

Nobody == "nobody"
NoExpiry == MaxTime + 1   \* an expires_at that is not set

NftInit ==
  /\ now = 0
  /\ listings = << >> /\ listingCounter = 0
  /\ auctions = << >> /\ auctionBids = << >> /\ autoBids = {}
  /\ bundles = << >> /\ bundleCounter = 0
  /\ offers = << >>
  /\ sellerListings = [p \in Player |-> << >>]
  /\ sellerAuctions = [p \in Player |-> << >>]
  /\ userOffers = [p \in Player |-> << >>]
  /\ escrow = << >>
  /\ sales = [a \in Asset |-> << >>]
  /\ stats = [listings |-> 0, auctions |-> 0, sales |-> 0, volume |-> 0, fees |-> 0]
  /\ volume = [c \in {Category[a] : a \in Asset} |-> 0]

Without(f, id) == Restrict(f, DOMAIN f \ {id})

\* calculate_fees: the discount may cancel the fee, never more.
CalculateFees(p, price, bps) ==
  (price * (IF bps > Discount[p] THEN bps - Discount[p] ELSE 0)) \div BpsDenominator

\* check_wash_trading
CheckWashTrading(a, buyer) ==
  \A i \in DOMAIN sales[a] : now - sales[a][i].timestamp <= WashWindow => sales[a][i].seller # buyer

\* record_sale, with the trim to the latest sales
RecordSale(a, seller, buyer, price) ==
  LET all == Append(sales[a], [seller |-> seller, buyer |-> buyer, price |-> price, timestamp |-> now])
  IN  sales' = [sales EXCEPT ![a] = SubSeq(all, Max({1, Len(all) - KeptSales + 1}), Len(all))]

\* bump_counter, bump_volume, bump_collected_fees for a sale
Sold(s, price, fee) == [s EXCEPT !.sales = @ + 1, !.volume = @ + price, !.fees = @ + fee]

-----------------------------------------------------------------------------
\* create_listing
CreateListing(p, a, price, expires_at) ==
  LET id == listingCounter + 1
  IN  /\ price > 0
      /\ Len(sellerListings[p]) < MaxListings
      /\ id \in ListingIds
      /\ listingCounter' = id
      /\ escrow' = (id :> {a}) @@ escrow
      /\ listings' = (id :> [seller |-> p, asset |-> a, price |-> price, expires_at |-> expires_at]) @@ listings
      /\ sellerListings' = [sellerListings EXCEPT ![p] = Append(@, id)]
      /\ stats' = [stats EXCEPT !.listings = @ + 1, !.fees = @ + CalculateFees(p, price, ListingFee)]
      /\ UNCHANGED <<now, auctionVars, bundleVars, offerVars, sales, volume>>


\* remove_listing
RemoveListing(p, id) ==
  /\ listings' = Without(listings, id)
  /\ sellerListings' = [sellerListings EXCEPT ![p] = SelectSeq(@, LAMBDA i : i # id)]

\* buy_listing
BuyListing(buyer, id) ==
  LET l == listings[id]
      fee == CalculateFees(l.seller, l.price, SuccessFee)
  IN  /\ id \in DOMAIN listings
      /\ now <= l.expires_at
      /\ l.seller # buyer
      /\ CheckWashTrading(l.asset, buyer)
      /\ escrow' = Without(escrow, id)
      /\ RecordSale(l.asset, l.seller, buyer, l.price)
      /\ stats' = [Sold(stats, l.price, fee) EXCEPT !.listings = IF @ > 0 THEN @ - 1 ELSE 0]
      /\ volume' = [volume EXCEPT ![Category[l.asset]] = @ + l.price]
      /\ RemoveListing(l.seller, id)
      /\ UNCHANGED <<now, listingCounter, auctionVars, bundleVars, offerVars>>

\* cancel_listing
CancelListing(p, id) ==
  /\ id \in DOMAIN listings
  /\ listings[id].seller = p
  /\ escrow' = Without(escrow, id)
  /\ RemoveListing(p, id)
  /\ stats' = [stats EXCEPT !.listings = IF @ > 0 THEN @ - 1 ELSE 0]
  /\ UNCHANGED <<now, listingCounter, auctionVars, bundleVars, offerVars, sales, volume>>

\* create_auction
CreateAuction(p, a, price, duration) ==
  LET id == Len(auctions) + 1
  IN  /\ price > 0
      /\ Len(sellerAuctions[p]) < MaxAuctions
      /\ id \in AuctionIds
      /\ escrow' = (id :> {a}) @@ escrow
      /\ auctions' = Append(auctions, [seller |-> p, asset |-> a, starting_price |-> price,
                                       current_bid |-> price, highest_bidder |-> Nobody,
                                       ends_at |-> now + duration, finalized |-> FALSE])
      /\ auctionBids' = Append(auctionBids, << >>)
      /\ sellerAuctions' = [sellerAuctions EXCEPT ![p] = Append(@, id)]
      /\ stats' = [stats EXCEPT !.auctions = @ + 1]
      /\ UNCHANGED <<now, listingVars, autoBids, bundleVars, offerVars, sales, volume>>

\* place_bid: even the first bid must exceed the starting price by the
\* increment, which is zero at small prices; process_auto_bids, called last,
\* does nothing.
PlaceBid(bidder, id, amount) ==
  LET a == auctions[id]
  IN  /\ now <= a.ends_at
      /\ a.seller # bidder
      /\ Len(auctionBids[id]) < MaxBids
      /\ amount >= a.current_bid + (a.current_bid * MinIncrement) \div BpsDenominator
      /\ auctions' = [auctions EXCEPT
           ![id] = [a EXCEPT !.current_bid = amount, !.highest_bidder = bidder,
                             !.ends_at = IF @ - now <= Window THEN @ + Extension ELSE @]]
      /\ auctionBids' = [auctionBids EXCEPT ![id] = Append(@, [bidder |-> bidder, amount |-> amount])]
      /\ UNCHANGED <<now, sellerAuctions, autoBids, listingVars, bundleVars, offerVars, escrow, sales,
                     stats, volume>>

\* set_auto_bid: recorded, and read by nothing.
SetAutoBid(bidder, id, max) ==
  /\ max > auctions[id].current_bid
  /\ max <= auctions[id].starting_price * AutoBidMultiple
  /\ autoBids' = {b \in autoBids : b.auction # id \/ b.bidder # bidder}
                 \cup {[auction |-> id, bidder |-> bidder, max_price |-> max]}
  /\ UNCHANGED <<now, auctions, auctionBids, sellerAuctions, listingVars, bundleVars, offerVars,
                 escrow, sales, stats, volume>>

\* finalize_auction: an auction won by a recent seller of the asset fails the
\* wash-trading check, which undoes the finalization.
FinalizeAuction(id) ==
  LET a == auctions[id]
      fee == CalculateFees(a.seller, a.current_bid, SuccessFee)
      over == [stats EXCEPT !.auctions = IF @ > 0 THEN @ - 1 ELSE 0]
  IN  /\ now > a.ends_at
      /\ ~a.finalized
      /\ auctions' = [auctions EXCEPT ![id].finalized = TRUE]
      /\ escrow' = Without(escrow, id)
      /\ \/ /\ a.highest_bidder # Nobody
            /\ CheckWashTrading(a.asset, a.highest_bidder)
            /\ RecordSale(a.asset, a.seller, a.highest_bidder, a.current_bid)
            /\ stats' = Sold(over, a.current_bid, fee)
            /\ volume' = [volume EXCEPT ![Category[a.asset]] = @ + a.current_bid]
         \/ /\ a.highest_bidder = Nobody
            /\ stats' = over
            /\ UNCHANGED <<sales, volume>>
      /\ sellerAuctions' = [sellerAuctions EXCEPT ![a.seller] = SelectSeq(@, LAMBDA i : i # id)]
      /\ UNCHANGED <<now, auctionBids, autoBids, listingVars, bundleVars, offerVars>>
-----------------------------------------------------------------------------
\* create_bundle
CreateBundle(p, assets, price, expires_at) ==
  LET id == bundleCounter + 1
  IN  /\ assets # {} /\ Cardinality(assets) <= MaxBundleItems
      /\ price > 0
      /\ id \in BundleIds
      /\ bundleCounter' = id
      /\ bundles' = (id :> [seller |-> p, assets |-> assets, price |-> price, expires_at |-> expires_at]) @@ bundles
      /\ escrow' = (id :> assets) @@ escrow
      /\ stats' = [stats EXCEPT !.fees = @ + CalculateFees(p, price, ListingFee)]
      /\ UNCHANGED <<now, listingVars, auctionVars, offerVars, sales, volume>>

\* buy_bundle: no wash-trading check, no sale record, no category volume
BuyBundle(buyer, id) ==
  LET b == bundles[id]
  IN  /\ id \in DOMAIN bundles
      /\ now <= b.expires_at
      /\ b.seller # buyer
      /\ escrow' = Without(escrow, id)
      /\ stats' = Sold(stats, b.price, CalculateFees(b.seller, b.price, SuccessFee))
      /\ bundles' = Without(bundles, id)
      /\ UNCHANGED <<now, bundleCounter, listingVars, auctionVars, offerVars, sales, volume>>

\* create_trade_offer
CreateTradeOffer(p, target, offered, requested, duration) ==
  LET id == Len(offers) + 1
  IN  /\ offered # {} /\ requested # {}
      /\ Len(userOffers[p]) < MaxOffers
      /\ id \in OfferIds
      /\ offers' = Append(offers, [offerer |-> p, target |-> target, offered |-> offered,
                                   expires_at |-> now + duration, status |-> "Pending"])
      /\ escrow' = (id :> offered) @@ escrow
      /\ userOffers' = [userOffers EXCEPT ![p] = Append(@, id)]
      /\ UNCHANGED <<now, listingVars, auctionVars, bundleVars, sales, stats, volume>>

\* What accept_trade_offer and cancel_trade_offer do to a pending offer, with
\* remove_trade_offer.
CloseTradeOffer(id, status) ==
  /\ offers[id].status = "Pending"
  /\ offers' = [offers EXCEPT ![id].status = status]
  /\ escrow' = Without(escrow, id)
  /\ userOffers' = [userOffers EXCEPT ![offers[id].offerer] = SelectSeq(@, LAMBDA i : i # id)]
  /\ UNCHANGED <<now, listingVars, auctionVars, bundleVars, sales, stats, volume>>

\* accept_trade_offer
AcceptTradeOffer(target, id) ==
  /\ offers[id].target = target
  /\ now <= offers[id].expires_at
  /\ CloseTradeOffer(id, "Accepted")

\* cancel_trade_offer: by the offerer, or by the target as a rejection
CancelTradeOffer(caller, id) ==
  \/ caller = offers[id].offerer /\ CloseTradeOffer(id, "Cancelled")
  \/ caller # offers[id].offerer /\ caller = offers[id].target /\ CloseTradeOffer(id, "Rejected")

NftTick == now < MaxTime /\ now' = now + 1 /\ UNCHANGED nftVars

NftNext ==
  \/ \E p \in Player, a \in Asset, price \in Price :
       \/ \E e \in Duration : CreateListing(p, a, price, now + e) \/ CreateAuction(p, a, price, e)
       \/ CreateListing(p, a, price, NoExpiry)
  \/ \E p \in Player, id \in ListingIds : BuyListing(p, id) \/ CancelListing(p, id)
  \/ \E p \in Player, id \in DOMAIN auctions, n \in Price : PlaceBid(p, id, n) \/ SetAutoBid(p, id, n)
  \/ \E id \in DOMAIN auctions : FinalizeAuction(id)
  \/ \E p \in Player, assets \in SUBSET Asset, price \in Price, e \in Duration :
       CreateBundle(p, assets, price, now + e)
  \/ \E p \in Player, id \in BundleIds : BuyBundle(p, id)
  \/ \E p, q \in Player, offered, requested \in SUBSET Asset, e \in Duration :
       CreateTradeOffer(p, q, offered, requested, e)
  \/ \E p \in Player, id \in DOMAIN offers : AcceptTradeOffer(p, id) \/ CancelTradeOffer(p, id)
  \/ NftTick

NftSpec == NftInit /\ [][NftNext]_<<now, nftVars>>
-----------------------------------------------------------------------------
\* Type invariant.
NftTypeOK ==
  /\ now \in 0 .. MaxTime
  /\ DOMAIN listings \subseteq 1 .. listingCounter
  /\ DOMAIN bundles \subseteq 1 .. bundleCounter
  /\ DOMAIN escrow \subseteq ListingIds \cup AuctionIds \cup BundleIds \cup OfferIds
  /\ \A p \in Player : /\ Len(sellerListings[p]) <= MaxListings
                       /\ Len(sellerAuctions[p]) <= MaxAuctions
                       /\ Len(userOffers[p]) <= MaxOffers


\* place_bid, finalize_auction: bids rise, the auction shows the last of them,
\* and no bid is later than the end of a finalized auction.
BidsRise ==
  \A id \in DOMAIN auctions :
    LET b == auctionBids[id]
    IN  /\ \A i, j \in DOMAIN b : i < j => b[i].amount <= b[j].amount
        /\ b # << >> => /\ auctions[id].current_bid = Last(b).amount
                        /\ auctions[id].highest_bidder = Last(b).bidder
        /\ b = << >> => auctions[id].highest_bidder = Nobody
        /\ auctions[id].finalized => now > auctions[id].ends_at

\* The comments at the writes and removals say "Escrow the asset", "Release
\* escrow": what is open has its assets in escrow.
OpenAssetsEscrowed ==
  LET held(id, assets) == id \in DOMAIN escrow /\ escrow[id] = assets
  IN  /\ \A id \in DOMAIN listings : held(id, {listings[id].asset})
      /\ \A id \in DOMAIN auctions : ~auctions[id].finalized => held(id, {auctions[id].asset})
      /\ \A id \in DOMAIN bundles : held(id, bundles[id].assets)
      /\ \A id \in DOMAIN offers : offers[id].status = "Pending" => held(id, offers[id].offered)
=============================================================================
