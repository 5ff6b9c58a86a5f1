----------------------- MODULE NounsAuctionHouseProofs -----------------------
(***************************************************************************)
(* What holds of NounsAuctionHouse for all accounts, prices, times and     *)
(* bounds: its invariants, and that it implements NounSale: every call of  *)
(* the contract is a step of a fair sale, or changes nothing such a sale   *)
(* knows of.                                                               *)
(***************************************************************************)
EXTENDS NounsAuctionHouse, TLAPS

\* Each part leans on the others: TypeOK on Escrow for balances not to go below
\* zero, Escrow on Consistent for bids to come only while an auction is live.
IInv == TypeOK /\ Escrow /\ Custody /\ UnpausedMeansLive /\ Consistent

-----------------------------------------------------------------------------
(* Lemmas about the operators of the model.                                *)

\* Paying no more than the escrow holds keeps balances natural and takes
\* exactly the amount out of the house.
LEMMA PayType ==
    ASSUME NEW balances \in [Anyone -> Nat], weth \in [Anyone -> Nat],
           NEW to \in Accounts \cup {Zero}, NEW amount \in Nat,
           amount <= balances[House], NEW accepted \in BOOLEAN,
           Pay(balances, to, amount, accepted)
    PROVE  /\ eth' \in [Anyone -> Nat]
           /\ weth' \in [Anyone -> Nat]
           /\ eth'[House] = balances[House] - amount
           /\ weth'[House] = weth[House]
  BY AddressAssumption DEF Pay, Anyone, Holders

\* Minting touches only ids that had no owner, and the returned noun goes to the
\* minter.
LEMMA MintType ==
    ASSUME NEW owners \in [NounIds -> Anyone], TokenTypeOK, RoomToMint,
           minter = House
    PROVE  /\ nextId \in NounIds /\ MintedId \in NounIds
           /\ nextId <= MintedId
           /\ WithMinted(owners) \in [NounIds -> Anyone]
           /\ WithMinted(owners)[MintedId] = House
           /\ \A n \in NounIds : n # nextId /\ n # MintedId =>
                  WithMinted(owners)[n] = owners[n]
  BY MintAssumption, AddressAssumption
  DEF TokenTypeOK, RoomToMint, MintedId, WithMinted, NounIds, Anyone, Holders

\* _createAuction, called when no auction is live, either opens one with nothing
\* in it or leaves the house paused.
LEMMA CreateAuctionKeeps ==
    ASSUME TokenTypeOK, now \in Nat, now >= 1, now' = now,
           NEW owners \in [NounIds -> Anyone],
           \A n \in NounIds : n >= nextId => owners[n] = Zero,
           NEW previous \in Auctions,
           previous = NoAuction \/
               (previous.settled /\ previous.startTime # 0
                /\ previous.nounId < nextId /\ previous.endTime <= now
                /\ (previous.bidder = Zero => previous.amount = 0)),
           CreateAuction(owners, previous)
    PROVE  /\ nounOwner' \in [NounIds -> Anyone]
           /\ nextId' \in Nat
           /\ auction' \in Auctions
           /\ paused' \in BOOLEAN
           /\ Custody' /\ UnpausedMeansLive' /\ Consistent'
           /\ Live' => auction'.amount = 0
  <1> DEFINE new == [nounId |-> MintedId, amount |-> 0, startTime |-> now,
                     endTime |-> now + Duration, bidder |-> Zero, settled |-> FALSE]
  <1>0. NoAuction \in Auctions
    BY MintAssumption DEF NoAuction, Auctions, NounIds
  <1>1. CASE /\ MintOutcome(House) = "ok"
             /\ RoomToMint
             /\ nounOwner' = WithMinted(owners)
             /\ nextId' = MintedId + 1
             /\ auction' = new
             /\ paused' = FALSE
    <2>1. minter = House
      BY <1>1 DEF MintOutcome
    <2>2. /\ nextId \in NounIds /\ MintedId \in NounIds
          /\ nextId <= MintedId
          /\ nounOwner' \in [NounIds -> Anyone]
          /\ nounOwner'[MintedId] = House
          /\ \A n \in NounIds : n # nextId /\ n # MintedId =>
                 nounOwner'[n] = owners[n]
      BY <1>1, <2>1, MintType
    <2>3. new \in Auctions
      BY <2>2, HouseAssumption DEF Auctions
    <2>4. Consistent'
      <3>1. \A n \in NounIds : n >= nextId' => nounOwner'[n] = Zero
        BY <1>1, <2>2, MintAssumption DEF NounIds
      <3> QED
        BY <1>1, <2>2, <2>3, <3>1 DEF Consistent, NounIds
    <2>5. nextId' \in Nat
      BY <1>1, <2>2, MintAssumption DEF NounIds
    <2>6. Live' /\ Custody' /\ auction'.amount = 0
      BY <1>1, <2>2 DEF Custody, Live
    <2> QED
      BY <1>1, <2>2, <2>3, <2>4, <2>5, <2>6 DEF UnpausedMeansLive
  <1>2. CASE /\ MintOutcome(House) = "error"
             /\ nounOwner' = owners
             /\ auction' = previous
             /\ paused' = TRUE
             /\ UNCHANGED nextId
    <2>1. ~Live'
      BY <1>2 DEF Live, NoAuction
    <2>2. Consistent'
      BY <1>2 DEF Consistent, NoAuction, Auctions
    <2> QED
      BY <1>2, <2>1, <2>2 DEF Custody, UnpausedMeansLive, TokenTypeOK
  <1> QED
    BY <1>1, <1>2 DEF CreateAuction

-----------------------------------------------------------------------------
(* Each action preserves IInv.                                             *)

\* initialize leaves a paused house with no auction, where IInv holds.
THEOREM InitIInv == Init => IInv
  <1> SUFFICES ASSUME Init PROVE IInv
    OBVIOUS
  <1>1. NounIds # {} /\ 0 \in NounIds
    BY MintAssumption DEF NounIds
  <1>2. TokenTypeOK
    BY MintAssumption, AddressAssumption
    DEF Init, TokenInit, TokenTypeOK, Anyone, Holders
  <1>3. TypeOK
    BY <1>1, <1>2, HouseAssumption, AddressAssumption
    DEF Init, TypeOK, NoAuction, Auctions, Anyone, Holders
  <1> QED
    BY <1>2, <1>3, AddressAssumption
    DEF Init, TokenInit, IInv, Escrow, Custody, UnpausedMeansLive, Consistent, Live,
        NoAuction, Anyone, Holders

\* A bid is taken only while an auction is live, and the refund it triggers is
\* the amount in escrow.
LEMMA CreateBidKeeps ==
    ASSUME IInv, NEW nounId \in NounIds, NEW bidder \in Accounts, NEW value \in Nat,
           CreateBid(nounId, bidder, value)
    PROVE  IInv' /\ Live /\ Live'
  <1> USE DEF IInv
  <1>1. auction \in Auctions /\ params \in Params /\ now \in Nat /\ now >= 1
    BY DEF TypeOK, Consistent
  <1>2. Live
    BY <1>1 DEF CreateBid, Consistent, Live, NoAuction, Auctions
  <1>3. /\ auction' \in Auctions
        /\ auction'.amount = value /\ auction'.bidder = bidder
        /\ auction'.nounId = auction.nounId
        /\ auction'.startTime = auction.startTime
        /\ auction'.settled = auction.settled
    <2>1. params.timeBuffer \in Nat
      BY <1>1, HouseAssumption DEF Params
    <2>2. EndAfterBid \in Nat
      BY <1>1, <2>1 DEF EndAfterBid, Auctions
    <2> QED
      BY <1>1, <2>2 DEF CreateBid, WithBid, Auctions
  <1>4. Live'
    BY <1>2, <1>3 DEF Live
  <1>5. /\ eth' \in [Anyone -> Nat]
        /\ weth' \in [Anyone -> Nat]
        /\ eth'[House] = value
        /\ weth'[House] = 0
    <2> DEFINE received == [eth EXCEPT ![bidder] = @ - value, ![House] = @ + value]
    <2>1. /\ eth \in [Anyone -> Nat] /\ weth \in [Anyone -> Nat]
          /\ eth[House] = auction.amount /\ weth[House] = 0
          /\ value <= eth[bidder]
      BY <1>2 DEF TypeOK, Escrow, CreateBid
    <2>2. received \in [Anyone -> Nat] /\ received[House] = auction.amount + value
      BY <1>1, <2>1, AddressAssumption DEF Anyone, Holders, Auctions
    <2>3. CASE auction.bidder = Zero
      BY <1>1, <2>1, <2>2, <2>3 DEF CreateBid, Consistent, Auctions
    <2>4. CASE auction.bidder # Zero
      <3>1. PICK accepted \in BOOLEAN :
                Pay(received, auction.bidder, auction.amount, accepted)
        BY <2>4 DEF CreateBid, Accepts
      <3>2. auction.amount \in Nat /\ auction.bidder \in Accounts \cup {Zero}
        BY <1>1 DEF Auctions
      <3> HIDE DEF received
      <3> QED
        BY <2>1, <2>2, <3>1, <3>2, PayType
    <2> QED
      BY <2>3, <2>4
  <1>6. TypeOK'
    BY <1>3, <1>5 DEF CreateBid, TypeOK, TokenTypeOK, tokenVars
  <1>7. Escrow' /\ Custody' /\ UnpausedMeansLive'
    BY <1>2, <1>3, <1>4, <1>5 DEF Escrow, Custody, UnpausedMeansLive, CreateBid, tokenVars
  <1>8. Consistent'
    BY <1>1, <1>2, <1>3, AddressAssumption
    DEF Consistent, Live, CreateBid, tokenVars, NoAuction
  <1> QED
    BY <1>2, <1>4, <1>6, <1>7, <1>8

\* Settling empties the escrow: what remains is the owner's, in ETH or in WETH.
LEMMA SettleEffect ==
    ASSUME IInv, CanSettle, PaySeller
    PROVE  /\ eth' \in [Anyone -> Nat]
           /\ weth' \in [Anyone -> Nat]
           /\ eth'[House] = 0
           /\ weth'[House] = 0
           /\ OwnersAfterSettle \in [NounIds -> Anyone]
           /\ \A n \in NounIds : n >= nextId => OwnersAfterSettle[n] = Zero
           /\ Settled \in Auctions
           /\ Settled.settled /\ Settled.startTime # 0
           /\ Settled.nounId < nextId /\ Settled.endTime <= now
           /\ (Settled.bidder = Zero => Settled.amount = 0)
  <1> USE DEF IInv
  <1>1. /\ auction \in Auctions /\ Live /\ now >= auction.endTime
        /\ eth \in [Anyone -> Nat] /\ weth \in [Anyone -> Nat]
        /\ eth[House] = auction.amount /\ weth[House] = 0
        /\ nounOwner \in [NounIds -> Anyone]
        /\ owner \in Accounts \cup {Zero}
    BY HouseAssumption DEF CanSettle, TypeOK, TokenTypeOK, Escrow
  <1>2. auction.amount \in Nat
    BY <1>1 DEF Auctions
  <1>3. /\ eth' \in [Anyone -> Nat] /\ weth' \in [Anyone -> Nat]
        /\ eth'[House] = 0 /\ weth'[House] = 0
    <2>1. CASE auction.amount > 0
      <3>1. PICK accepted \in BOOLEAN : Pay(eth, owner, auction.amount, accepted)
        BY <2>1 DEF PaySeller, Accepts
      <3>2. auction.amount <= eth[House]
        BY <1>1, <1>2
      <3>3. /\ eth' \in [Anyone -> Nat] /\ weth' \in [Anyone -> Nat]
            /\ eth'[House] = eth[House] - auction.amount
            /\ weth'[House] = weth[House]
        BY <1>1, <1>2, <3>1, <3>2, PayType
      <3> QED
        BY <1>1, <1>2, <3>3
    <2>2. CASE auction.amount = 0
      BY <1>1, <2>2 DEF PaySeller, moneyVars
    <2> QED
      BY <1>2, <2>1, <2>2
  <1>4. auction.nounId \in NounIds /\ auction.bidder \in Accounts \cup {Zero}
        /\ auction.startTime # 0 /\ auction.nounId < nextId
    BY <1>1 DEF Auctions, Live, Consistent
  <1>5. OwnersAfterSettle \in [NounIds -> Anyone]
    BY <1>1, <1>4 DEF OwnersAfterSettle, Anyone, Holders
  <1>6. \A n \in NounIds : n >= nextId => OwnersAfterSettle[n] = Zero
    <2>1. nextId \in Nat
      BY DEF TypeOK, TokenTypeOK
    <2> QED
      BY <1>1, <1>4, <2>1, MintAssumption DEF OwnersAfterSettle, Consistent, NounIds
  <1>7. /\ Settled \in Auctions
        /\ Settled.settled /\ Settled.startTime = auction.startTime
        /\ Settled.nounId = auction.nounId /\ Settled.endTime = auction.endTime
        /\ Settled.bidder = auction.bidder /\ Settled.amount = auction.amount
    BY <1>1 DEF Settled, Auctions
  <1>8. auction.bidder = Zero => auction.amount = 0
    BY DEF Consistent
  <1> QED
    BY <1>1, <1>3, <1>4, <1>5, <1>6, <1>7, <1>8

\* settleCurrentAndCreateNewAuction: the escrow is paid out before the next auction
\* opens with nothing in it, or before the house is paused.
LEMMA SettleAndCreateKeeps ==
    ASSUME IInv, SettleCurrentAndCreateNewAuction
    PROVE  IInv'
  <1>1. CanSettle /\ PaySeller /\ CreateAuction(OwnersAfterSettle, Settled)
    BY DEF SettleCurrentAndCreateNewAuction
  <1>2. TokenTypeOK /\ now \in Nat /\ now >= 1 /\ now' = now
    BY DEF IInv, TypeOK, Consistent, SettleCurrentAndCreateNewAuction
  <1>3. /\ nounOwner' \in [NounIds -> Anyone]
        /\ nextId' \in Nat
        /\ auction' \in Auctions
        /\ paused' \in BOOLEAN
        /\ Custody' /\ UnpausedMeansLive' /\ Consistent'
        /\ Live' => auction'.amount = 0
    BY <1>1, <1>2, SettleEffect, CreateAuctionKeeps
  <1>4. eth' \in [Anyone -> Nat] /\ weth' \in [Anyone -> Nat]
        /\ eth'[House] = 0 /\ weth'[House] = 0
    BY <1>1, SettleEffect
  <1>5. TypeOK' /\ Escrow'
    BY <1>3, <1>4
    DEF IInv, TypeOK, TokenTypeOK, Escrow, SettleCurrentAndCreateNewAuction
  <1> QED
    BY <1>3, <1>5 DEF IInv

\* settleAuction, called while paused, leaves a settled auction and no escrow.
LEMMA SettleKeeps ==
    ASSUME IInv, SettleAuction
    PROVE  IInv' /\ ~Live'
  <1>1. /\ CanSettle /\ PaySeller /\ paused /\ paused' = paused
        /\ auction' = Settled /\ nounOwner' = OwnersAfterSettle
        /\ UNCHANGED <<nextId, minter, noundersDAO, seeder, locked, owner, params, now>>
    BY DEF SettleAuction
  <1>2. /\ eth' \in [Anyone -> Nat] /\ weth' \in [Anyone -> Nat]
        /\ eth'[House] = 0 /\ weth'[House] = 0
        /\ nounOwner' \in [NounIds -> Anyone]
        /\ \A n \in NounIds : n >= nextId => nounOwner'[n] = Zero
        /\ auction' \in Auctions
        /\ auction'.settled /\ auction'.startTime # 0
        /\ auction'.nounId < nextId /\ auction'.endTime <= now
        /\ (auction'.bidder = Zero => auction'.amount = 0)
    BY <1>1, SettleEffect
  <1>3. ~Live'
    BY <1>2 DEF Live
  <1>4. TypeOK'
    BY <1>1, <1>2 DEF IInv, TypeOK, TokenTypeOK
  <1>5. Consistent'
    BY <1>1, <1>2 DEF IInv, Consistent
  <1> QED
    BY <1>1, <1>2, <1>3, <1>4, <1>5
    DEF IInv, Escrow, Custody, UnpausedMeansLive

\* unpause resumes a live auction, opens one, or leaves the house paused.
LEMMA UnpauseKeeps ==
    ASSUME IInv, Unpause
    PROVE  IInv'
  <1> USE DEF IInv
  <1>1. CASE Live
    BY <1>1
    DEF Unpause, TypeOK, TokenTypeOK, Escrow, Custody, UnpausedMeansLive, Consistent,
        Live, moneyVars, NoAuction
  <1>2. CASE ~Live
    <2>1. CreateAuction(nounOwner, auction)
      BY <1>2 DEF Unpause
    <2>2. /\ TokenTypeOK /\ now \in Nat /\ now >= 1 /\ now' = now
          /\ nounOwner \in [NounIds -> Anyone]
          /\ \A n \in NounIds : n >= nextId => nounOwner[n] = Zero
          /\ auction \in Auctions
      BY DEF TypeOK, TokenTypeOK, Consistent, Unpause
    <2>3. auction = NoAuction \/
             (auction.settled /\ auction.startTime # 0
              /\ auction.nounId < nextId /\ auction.endTime <= now
              /\ (auction.bidder = Zero => auction.amount = 0))
      BY <1>2 DEF Live, Consistent
    <2>4. /\ nounOwner' \in [NounIds -> Anyone]
          /\ nextId' \in Nat
          /\ auction' \in Auctions
          /\ paused' \in BOOLEAN
          /\ Custody' /\ UnpausedMeansLive' /\ Consistent'
          /\ Live' => auction'.amount = 0
      BY <2>1, <2>2, <2>3, CreateAuctionKeeps
    <2>5. TypeOK' /\ Escrow'
      BY <1>2, <2>4 DEF TypeOK, TokenTypeOK, Escrow, Unpause, moneyVars
    <2> QED
      BY <2>4, <2>5
  <1> QED
    BY <1>1, <1>2

\* A token call that does not come from the house leaves its noun alone, unless
\* another minter burns it.
LEMMA TokenStepKeeps ==
    ASSUME IInv, TokenStep
    PROVE  /\ IInv' /\ Live' = Live
           /\ Live => nounOwner'[auction.nounId] \in {nounOwner[auction.nounId], Zero}
  <1> USE DEF IInv
  <1>1. UNCHANGED <<auction, paused, owner, params, eth, weth, now>>
    BY DEF TokenStep, houseVars, moneyVars
  <1>2. /\ nounOwner \in [NounIds -> Anyone] /\ nextId \in Nat
        /\ \A n \in NounIds : n >= nextId => nounOwner[n] = Zero
        /\ auction \in Auctions
        /\ auction.startTime # 0 => auction.nounId < nextId
        /\ TokenTypeOK
    BY DEF TypeOK, TokenTypeOK, Consistent
  <1>3. /\ TokenTypeOK' /\ nextId' >= nextId
        /\ \A n \in NounIds : n >= nextId' => nounOwner'[n] = Zero
        /\ \A n \in NounIds : n < nextId =>
              (nounOwner[n] \in {House, Zero} => nounOwner'[n] \in {nounOwner[n], Zero})
    <2>1. CASE MintByOther
      <3>1. /\ nextId \in NounIds /\ MintedId \in Nat /\ nextId <= MintedId
            /\ MintedId \in NounIds
        BY <1>2, <2>1, MintAssumption DEF MintByOther, RoomToMint, MintedId, NounIds
      <3>2. noundersDAO \in Anyone /\ minter \in Anyone
        BY <1>2, MintAssumption DEF TokenTypeOK, Anyone, Holders
      <3>3. nextId' = MintedId + 1 /\ nounOwner' = WithMinted(nounOwner)
        BY <2>1 DEF MintByOther
      <3>4. nounOwner' \in [NounIds -> Anyone]
        BY <1>2, <3>1, <3>2, <3>3 DEF WithMinted
      <3>5. \A n \in NounIds : n # nextId /\ n # MintedId =>
               nounOwner'[n] = nounOwner[n]
        BY <1>2, <3>1, <3>3 DEF WithMinted
      <3>6. TokenTypeOK'
        BY <1>2, <2>1, <3>1, <3>3, <3>4 DEF TokenTypeOK, MintByOther
      <3> QED
        BY <1>2, <3>1, <3>3, <3>5, <3>6, MintAssumption DEF NounIds
    <2>2. CASE \E n \in NounIds : BurnByOther(n)
      BY <1>2, <2>2 DEF BurnByOther, TokenTypeOK, Anyone
    <2>3. CASE \E n \in NounIds, to \in Recipients : TransferNoun(n, to)
      <3>1. PICK n \in NounIds, to \in Recipients : TransferNoun(n, to)
        BY <2>3
      <3>2. to \in Anyone /\ nounOwner[n] # House /\ nounOwner[n] # Zero /\ n < nextId
        BY <1>2, <3>1, MintAssumption, AddressAssumption
        DEF TransferNoun, Anyone, Holders, NounIds
      <3> QED
        BY <1>2, <3>1, <3>2 DEF TransferNoun, TokenTypeOK
    <2>4. CASE \E m \in Minters : SetMinter(m)
      BY <1>2, <2>4, MintAssumption DEF SetMinter, TokenTypeOK, Anyone, Holders
    <2>5. CASE \E d \in RewardTakers : SetNoundersDAO(d)
      BY <1>2, <2>5 DEF SetNoundersDAO, TokenTypeOK
    <2>6. CASE \E part \in {"descriptor", "seeder"}, s \in Seeders : SetSeeding(part, s)
      BY <1>2, <2>6 DEF SetSeeding, TokenTypeOK
    <2>7. CASE \E part \in Locks : Lock(part)
      BY <1>2, <2>7 DEF Lock, TokenTypeOK
    <2> QED
      BY <2>1, <2>2, <2>3, <2>4, <2>5, <2>6, <2>7 DEF TokenStep, TokenNext
  <1>4. Live' = Live
    BY <1>1 DEF Live
  <1>5. Live => nounOwner'[auction.nounId] \in {nounOwner[auction.nounId], Zero}
    BY <1>2, <1>3 DEF Custody, Live, Auctions
  <1>7. Custody'
    BY <1>1, <1>4, <1>5 DEF Custody
  <1>6. Consistent'
    <2>1. nextId' \in Nat
      BY <1>3 DEF TokenTypeOK
    <2>2. auction.startTime # 0 => auction.nounId < nextId'
      BY <1>2, <1>3, <2>1, MintAssumption DEF Auctions, NounIds
    <2> QED
      BY <1>1, <1>3, <2>2 DEF Consistent, NoAuction
  <1> QED
    BY <1>1, <1>3, <1>4, <1>5, <1>6, <1>7 DEF TypeOK, Escrow, UnpausedMeansLive

\* Every external function, and every call made to the token, preserves IInv.
THEOREM NextIInv == IInv /\ [Next]_vars => IInv'
  <1> SUFFICES ASSUME IInv, [Next]_vars PROVE IInv'
    OBVIOUS
  <1>1. CASE \E nounId \in NounIds, bidder \in Accounts, value \in 0..Endowment :
                 CreateBid(nounId, bidder, value)
    BY <1>1, HouseAssumption, CreateBidKeeps
  <1>2. CASE SettleCurrentAndCreateNewAuction
    BY <1>2, SettleAndCreateKeeps
  <1>3. CASE SettleAuction
    BY <1>3, SettleKeeps
  <1>4. CASE Pause
    BY <1>4
    DEF Pause, IInv, TypeOK, TokenTypeOK, Escrow, Custody, UnpausedMeansLive,
        Consistent, Live, tokenVars, moneyVars, NoAuction
  <1>5. CASE Unpause
    BY <1>5, UnpauseKeeps
  <1>6. CASE \E new \in Params : SetParams(new)
    <2>1. PICK new \in Params : SetParams(new)
      BY <1>6
    <2>2. params' \in Params
      BY <2>1 DEF SetParams, IInv, TypeOK, Params
    <2> QED
      BY <2>1, <2>2
      DEF SetParams, IInv, TypeOK, TokenTypeOK, Escrow, Custody, UnpausedMeansLive,
          Consistent, Live, tokenVars, moneyVars, NoAuction
  <1>7. CASE \E new \in Owners : TransferOwnership(new)
    BY <1>7
    DEF TransferOwnership, IInv, TypeOK, TokenTypeOK, Escrow, Custody,
        UnpausedMeansLive, Consistent, Live, tokenVars, moneyVars, NoAuction
  <1>8. CASE Tick
    <2>1. now' = now + 1 /\ now \in Nat /\ auction \in Auctions
      BY <1>8 DEF Tick, IInv, TypeOK
    <2>2. auction.endTime <= now => auction.endTime <= now'
      BY <2>1 DEF Auctions
    <2> QED
      BY <1>8, <2>1, <2>2
      DEF Tick, IInv, TypeOK, TokenTypeOK, Escrow, Custody, UnpausedMeansLive,
          Consistent, Live, tokenVars, houseVars, moneyVars, NoAuction
  <1>9. CASE TokenStep
    BY <1>9, TokenStepKeeps
  <1>10. CASE UNCHANGED vars
    BY <1>10
    DEF vars, IInv, TypeOK, TokenTypeOK, Escrow, Custody, UnpausedMeansLive,
        Consistent, Live, tokenVars, houseVars, moneyVars, NoAuction
  <1> QED
    BY <1>1, <1>2, <1>3, <1>4, <1>5, <1>6, <1>7, <1>8, <1>9, <1>10 DEF Next

\* IInv holds in every reachable state.
THEOREM Invariance == Spec => []IInv
  BY InitIInv, NextIInv, PTL DEF Spec

\* Every variable keeps its type, so no balance is ever negative.
THEOREM TypeCorrect == Spec => []TypeOK
  <1>1. IInv => TypeOK
    BY DEF IInv
  <1> QED
    BY <1>1, Invariance, PTL

\* The house holds exactly the standing bid: createBid can always refund it and
\* _settleAuction can always pay it out, in ETH or in WETH.
THEOREM EscrowExact == Spec => []Escrow
  <1>1. IInv => Escrow
    BY DEF IInv
  <1> QED
    BY <1>1, Invariance, PTL

\* The noun on auction is the house's, or was burned by a minter that replaced
\* the house; nobody else ever holds it.
THEOREM NounInCustody == Spec => []Custody
  <1>1. IInv => Custody
    BY DEF IInv
  <1> QED
    BY <1>1, Invariance, PTL

\* An unpaused house always runs an auction, so a failed mint cannot strand it.
THEOREM NeverIdleUnpaused == Spec => []UnpausedMeansLive
  <1>1. IInv => UnpausedMeansLive
    BY DEF IInv
  <1> QED
    BY <1>1, Invariance, PTL

\* A settled auction takes no more bids, and ids not yet minted have no owner.
THEOREM StateConsistent == Spec => []Consistent
  <1>1. IInv => Consistent
    BY DEF IInv
  <1> QED
    BY <1>1, Invariance, PTL

-----------------------------------------------------------------------------
(* What a step may do to a running auction.                                *)

\* A new auction is for an id that was never given out before.
LEMMA NewAuctionIsNew ==
    ASSUME IInv, NEW owners, NEW previous, CreateAuction(owners, previous),
           auction.startTime # 0
    PROVE  auction' = previous \/ auction'.nounId > auction.nounId
  <1>1. CASE RoomToMint /\ auction'.nounId = MintedId
    <2>1. auction.nounId < nextId /\ nextId \in Nat /\ auction.nounId \in Nat
      BY MintAssumption DEF IInv, Consistent, TypeOK, TokenTypeOK, Auctions, NounIds
    <2>2. MintedId \in Nat /\ nextId <= MintedId
      BY <2>1 DEF MintedId
    <2> QED
      BY <1>1, <2>1, <2>2
  <1> QED
    BY <1>1 DEF CreateAuction

\* A running auction's end never moves forward in time, and a bid leaves at
\* least timeBuffer to answer it.
THEOREM TimeToAnswer == Spec => BidsLeaveTimeToAnswer
  <1> DEFINE A == (Live /\ auction' # auction /\ auction'.nounId = auction.nounId
                        /\ ~auction'.settled)
                  => /\ auction'.endTime >= auction.endTime
                     /\ auction'.endTime - now >= params.timeBuffer
  <1>1. IInv /\ [Next]_vars => [A]_vars
    <2> SUFFICES ASSUME IInv, Next, Live, auction' # auction,
                        auction'.nounId = auction.nounId, ~auction'.settled
                 PROVE  /\ auction'.endTime >= auction.endTime
                        /\ auction'.endTime - now >= params.timeBuffer
      OBVIOUS
    <2>0. /\ auction \in Auctions /\ now \in Nat /\ params.timeBuffer \in Nat
          /\ auction.startTime # 0 /\ auction.nounId \in Nat
      <3>1. auction \in Auctions /\ now \in Nat /\ params \in Params
        BY DEF IInv, TypeOK
      <3>2. params.timeBuffer \in Nat
        BY <3>1, HouseAssumption DEF Params
      <3>3. auction.startTime # 0 /\ auction.nounId \in Nat
        BY <3>1, MintAssumption DEF Auctions, Live, NounIds
      <3> QED
        BY <3>1, <3>2, <3>3
    <2>1. CASE \E nounId \in NounIds, bidder \in Accounts, value \in 0..Endowment :
                   CreateBid(nounId, bidder, value)
      <3>1. auction'.endTime = EndAfterBid /\ now < auction.endTime
        BY <2>0, <2>1 DEF CreateBid, WithBid, Auctions
      <3> QED
        BY <2>0, <3>1 DEF EndAfterBid, Auctions
    <2>2. CASE SettleCurrentAndCreateNewAuction
      <3>1. Settled.settled
        BY <2>0 DEF Settled, Auctions
      <3>2. CreateAuction(OwnersAfterSettle, Settled)
        BY <2>2 DEF SettleCurrentAndCreateNewAuction
      <3> QED
        BY <2>0, <3>1, <3>2, NewAuctionIsNew
    <2>3. CASE SettleAuction
      <3>1. Settled.settled
        BY <2>0 DEF Settled, Auctions
      <3> QED
        BY <2>3, <3>1 DEF SettleAuction
    <2> QED
      BY <2>1, <2>2, <2>3
      DEF Next, Pause, Unpause, SetParams, TransferOwnership, Tick, TokenStep, houseVars
  <1> QED
    BY <1>1, Invariance, PTL DEF Spec, BidsLeaveTimeToAnswer

\* Only settling the auction, or a minter that took the house's place, takes the noun on
\* auction out of the house's hands: nobody else can transfer what the house holds.
THEOREM LotStays == Spec => LotNotLost
  <1> DEFINE A == (Live /\ nounOwner[auction.nounId] = House)
                  => \/ nounOwner'[auction.nounId] = House
                     \/ auction'.settled \/ auction'.nounId # auction.nounId
                     \/ minter \in Accounts
  <1>1. IInv /\ [Next]_vars => [A]_vars
    <2> SUFFICES ASSUME IInv, Next, Live, nounOwner[auction.nounId] = House
                 PROVE  \/ nounOwner'[auction.nounId] = House
                        \/ auction'.settled \/ auction'.nounId # auction.nounId
                        \/ minter \in Accounts
      OBVIOUS
    <2>0. /\ auction \in Auctions /\ auction.nounId \in NounIds
          /\ nounOwner \in [NounIds -> Anyone]
      BY DEF IInv, TypeOK, TokenTypeOK, Auctions
    <2>1. Settled.settled
      BY <2>0 DEF Settled, Auctions
    <2>2. CASE UNCHANGED nounOwner
      BY <2>2
    <2>3. CASE SettleCurrentAndCreateNewAuction
      <3>1. CreateAuction(OwnersAfterSettle, Settled)
        BY <2>3 DEF SettleCurrentAndCreateNewAuction
      <3>2. auction' = Settled \/ auction'.nounId > auction.nounId
        BY <3>1, NewAuctionIsNew DEF Live
      <3>3. auction.nounId \in Nat
        BY <2>0, MintAssumption DEF NounIds
      <3> QED
        BY <2>1, <3>2, <3>3
    <2>4. CASE SettleAuction
      BY <2>1, <2>4 DEF SettleAuction
    <2>5. CASE TokenStep
      <3>1. ASSUME NEW n \in NounIds, NEW to, TransferNoun(n, to)
            PROVE  nounOwner'[auction.nounId] = House
        <4>1. n # auction.nounId
          BY <3>1, AddressAssumption DEF TransferNoun
        <4> QED
          BY <2>0, <3>1, <4>1 DEF TransferNoun
      <3> QED
        BY <2>2, <2>5, <3>1
        DEF TokenStep, TokenNext, MintByOther, BurnByOther, SetMinter, SetNoundersDAO,
            SetSeeding, Lock
    <2> QED
      BY <2>2, <2>3, <2>4, <2>5
      DEF Next, CreateBid, Pause, Unpause, SetParams, TransferOwnership, Tick, tokenVars
  <1> QED
    BY <1>1, Invariance, PTL DEF Spec, LotNotLost

-----------------------------------------------------------------------------
(* What is auctioned.                                                      *)

\* The id that mint() returns is not that of a reward: the one after a multiple of
\* RewardPeriod is none.
LEMMA MintedIsNoReward ==
    ASSUME nextId \in Nat
    PROVE  ~(MintedId <= LastReward /\ MintedId % RewardPeriod = 0)
  <1>1. ASSUME NEW n \in Nat, NEW k \in Nat, k > 1, n % k = 0 PROVE (n + 1) % k # 0
    BY <1>1
  <1>2. RewardPeriod \in Nat /\ RewardPeriod > 1
    BY MintAssumption
  <1>3. CASE RewardDue
    BY <1>1, <1>2, <1>3 DEF RewardDue, MintedId
  <1>4. CASE ~RewardDue
    BY <1>4 DEF RewardDue, MintedId
  <1> QED
    BY <1>3, <1>4

\* _createAuction: the nouns minted as rewards for the nounders never come up for sale.
THEOREM RewardsNotSold == Spec => []NeverSellsReward
  <1>1. Init => NeverSellsReward
    BY DEF Init, NeverSellsReward, Live, NoAuction
  <1>2. IInv /\ NeverSellsReward /\ [Next]_vars => NeverSellsReward'
    <2> SUFFICES ASSUME IInv, NeverSellsReward, [Next]_vars PROVE NeverSellsReward'
      OBVIOUS
    <2>0. nextId \in Nat /\ auction \in Auctions
      BY DEF IInv, TypeOK, TokenTypeOK
    <2>1. ASSUME ~Live' \/ (Live /\ auction'.nounId = auction.nounId)
          PROVE  NeverSellsReward'
      BY <2>1 DEF NeverSellsReward
    <2>2. ASSUME NEW owners, NEW previous, CreateAuction(owners, previous),
                 previous = auction \/ previous.settled
          PROVE  NeverSellsReward'
      <3>1. auction' = previous \/ auction'.nounId = MintedId
        BY <2>2 DEF CreateAuction
      <3>2. CASE auction' = previous
        BY <2>1, <2>2, <3>2 DEF Live
      <3>3. CASE auction'.nounId = MintedId
        BY <2>0, <3>3, MintedIsNoReward DEF NeverSellsReward
      <3> QED
        BY <3>1, <3>2, <3>3
    <2>3. Settled.settled
      BY <2>0 DEF Settled, Auctions
    <2>4. CASE \E nounId \in NounIds, bidder \in Accounts, value \in 0..Endowment :
                   CreateBid(nounId, bidder, value)
      <3>1. PICK bidder, value : auction' = WithBid(bidder, value)
        BY <2>4 DEF CreateBid
      <3>2. /\ auction'.nounId = auction.nounId
            /\ auction'.startTime = auction.startTime
            /\ auction'.settled = auction.settled
        BY <2>0, <3>1 DEF WithBid, Auctions
      <3> QED
        BY <2>1, <3>2 DEF Live
    <2>5. CASE SettleCurrentAndCreateNewAuction
      BY <2>2, <2>3, <2>5 DEF SettleCurrentAndCreateNewAuction
    <2>6. CASE SettleAuction
      <3>1. ~Live'
        BY <2>3, <2>6 DEF SettleAuction, Live
      <3> QED
        BY <2>1, <3>1
    <2>7. CASE Unpause
      <3>1. CASE Live
        BY <2>1, <2>7, <3>1 DEF Unpause
      <3>2. CASE ~Live
        BY <2>2, <2>7, <3>2 DEF Unpause
      <3> QED
        BY <3>1, <3>2
    <2>8. CASE UNCHANGED auction
      BY <2>1, <2>8 DEF Live
    <2> QED
      BY <2>4, <2>5, <2>6, <2>7, <2>8
      DEF Next, Pause, SetParams, TransferOwnership, Tick, TokenStep, houseVars, vars
  <1> QED
    BY <1>1, <1>2, Invariance, PTL DEF Spec

-----------------------------------------------------------------------------
(* What the auction house implements.                                      *)

Buyers == Accounts \cup {Zero}

\* The abstract state, as SellsFairly maps it.
lotBar    == IF auction.startTime = 0 THEN -1 ELSE auction.nounId
priceBar  == IF Live THEN auction.amount ELSE 0
leaderBar == IF Live THEN auction.bidder ELSE Zero
wealthBar ==
    [a \in Accounts \cup {Zero} |->
        eth[a] + weth[a] + IF Live /\ auction.bidder = a THEN auction.amount ELSE 0]

\* A payment out of the escrow makes its recipient richer by the amount, in ETH
\* or in WETH, and nobody else.
LEMMA PayWealth ==
    ASSUME NEW balances \in [Anyone -> Nat], weth \in [Anyone -> Nat],
           NEW to \in Buyers, NEW amount \in Nat, amount <= balances[House],
           NEW accepted \in BOOLEAN, Pay(balances, to, amount, accepted)
    PROVE  \A a \in Buyers :
               eth'[a] + weth'[a] = balances[a] + weth[a]
                                    + IF a = to THEN amount ELSE 0
  <1> SUFFICES ASSUME NEW a \in Buyers
               PROVE  eth'[a] + weth'[a] = balances[a] + weth[a]
                                           + IF a = to THEN amount ELSE 0
    OBVIOUS
  <1>1. a \in Anyone /\ to \in Anyone /\ a # House /\ to # House /\ House \in Anyone
    BY AddressAssumption DEF Buyers, Anyone, Holders
  <1>2. balances[a] \in Nat /\ weth[a] \in Nat
    BY <1>1
  <1>3. CASE accepted
    BY <1>1, <1>2, <1>3 DEF Pay
  <1>4. CASE ~accepted
    BY <1>1, <1>2, <1>4 DEF Pay
  <1> QED
    BY <1>3, <1>4

\* A bid makes nobody richer or poorer: the bidder's money moves into the escrow
\* and the last bidder's comes back.
LEMMA BidIsRaise ==
    ASSUME IInv, NEW nounId \in NounIds, NEW bidder \in Accounts, NEW value \in Nat,
           CreateBid(nounId, bidder, value)
    PROVE  Sale!Raise
  <1>1. Live /\ Live' /\ IInv'
    BY CreateBidKeeps
  <1>2. /\ auction \in Auctions /\ eth \in [Anyone -> Nat] /\ weth \in [Anyone -> Nat]
        /\ eth[House] = auction.amount /\ value <= eth[bidder]
        /\ auction.bidder = Zero => auction.amount = 0
    BY <1>1 DEF IInv, TypeOK, Escrow, Consistent, CreateBid
  <1>3. /\ auction.amount \in Nat /\ auction.bidder \in Buyers
        /\ bidder \in Buyers /\ bidder # Zero
    BY <1>2, AddressAssumption DEF Auctions, Buyers
  <1>4. /\ auction'.amount = value /\ auction'.bidder = bidder
        /\ auction'.nounId = auction.nounId /\ auction'.startTime = auction.startTime
    BY <1>2 DEF CreateBid, WithBid, Auctions
  <1> DEFINE received == [eth EXCEPT ![bidder] = @ - value, ![House] = @ + value]
  <1>5. /\ received \in [Anyone -> Nat] /\ received[House] = auction.amount + value
        /\ \A a \in Buyers : received[a] = eth[a] - IF a = bidder THEN value ELSE 0
    BY <1>2, <1>3, AddressAssumption DEF Anyone, Holders, Buyers
  <1>6. \A a \in Buyers :
            eth'[a] + weth'[a] = received[a] + weth[a]
                                 + IF a = auction.bidder THEN auction.amount ELSE 0
    <2>1. CASE auction.bidder = Zero
      <3>1. eth' = received /\ weth' = weth /\ auction.amount = 0
        BY <1>2, <2>1 DEF CreateBid
      <3>2. \A a \in Buyers : received[a] \in Nat /\ weth[a] \in Nat
        BY <1>2, <1>5 DEF Buyers, Anyone, Holders
      <3> HIDE DEF received
      <3> QED
        BY <3>1, <3>2
    <2>2. CASE auction.bidder # Zero
      <3>1. PICK accepted \in BOOLEAN :
                Pay(received, auction.bidder, auction.amount, accepted)
        BY <2>2 DEF CreateBid, Accepts
      <3> HIDE DEF received
      <3>2. auction.amount <= received[House]
        BY <1>3, <1>5
      <3> QED
        BY <1>2, <1>3, <1>5, <3>1, <3>2, PayWealth
    <2> QED
      BY <2>1, <2>2
  <1>7. wealthBar' = wealthBar
    <2> SUFFICES ASSUME NEW a \in Buyers PROVE wealthBar'[a] = wealthBar[a]
      BY DEF wealthBar, Buyers
    <2>1. eth[a] \in Nat /\ weth[a] \in Nat
      BY <1>2 DEF Buyers, Anyone, Holders
    <2>2. eth'[a] + weth'[a] = eth[a] - (IF a = bidder THEN value ELSE 0) + weth[a]
                               + IF a = auction.bidder THEN auction.amount ELSE 0
      BY <1>5, <1>6
    <2>3. /\ wealthBar[a] = eth[a] + weth[a]
                            + IF auction.bidder = a THEN auction.amount ELSE 0
          /\ wealthBar'[a] = eth'[a] + weth'[a] + IF bidder = a THEN value ELSE 0
      BY <1>1, <1>4 DEF wealthBar, Buyers
    <2> HIDE DEF received
    <2> QED
      BY <1>3, <2>1, <2>2, <2>3
  <1>8. value <= wealthBar'[bidder]
    <2>1. eth'[bidder] \in Nat /\ weth'[bidder] \in Nat
      BY <1>1 DEF IInv, TypeOK, Anyone, Holders
    <2> QED
      BY <1>1, <1>3, <1>4, <2>1 DEF wealthBar, Buyers
  <1>9. value >= auction.amount
    <2>1. params.minBidIncrementPercentage \in Nat
      <3>1. params \in Params
        BY DEF IInv, TypeOK
      <3>2. params.minBidIncrementPercentage \in 0..255
        BY <3>1, HouseAssumption DEF Params
      <3> QED
        BY <3>2
    <2>2. auction.amount * params.minBidIncrementPercentage \in Nat
      BY <1>3, <2>1
    <2> DEFINE product == auction.amount * params.minBidIncrementPercentage
    <2> HIDE DEF product
    <2>3. value >= auction.amount + product \div 100
      BY DEF CreateBid, MinimumBid, product
    <2>4. product \in Nat
      BY <2>2 DEF product
    <2>5. product \div 100 >= 0 /\ product \div 100 \in Int
      BY <2>4
    <2> QED
      BY <1>3, <2>3, <2>5
  <1> QED
    BY <1>1, <1>3, <1>4, <1>7, <1>8, <1>9
    DEF Sale!Raise, wealthBar, CreateBid, tokenVars

\* Paying the owner on settlement turns the standing bid into a payment, and it
\* does so for whatever becomes of the auction afterwards with nothing bid on it.
LEMMA SettlePays ==
    ASSUME IInv, CanSettle, PaySeller, Live' => auction'.amount = 0,
           auction' \in Auctions
    PROVE  wealthBar' =
               [t \in DOMAIN wealthBar |->
                   wealthBar[t] - (IF t = leaderBar THEN priceBar ELSE 0)
                                + (IF t = owner THEN priceBar ELSE 0)]
  <1>1. /\ Live /\ auction \in Auctions
        /\ eth \in [Anyone -> Nat] /\ weth \in [Anyone -> Nat]
        /\ eth[House] = auction.amount
        /\ owner \in Buyers
    BY HouseAssumption DEF CanSettle, IInv, TypeOK, Escrow, Buyers
  <1>2. auction.amount \in Nat /\ auction.bidder \in Buyers
    BY <1>1 DEF Auctions, Buyers
  <1>3. \A a \in Buyers :
            eth'[a] + weth'[a] = eth[a] + weth[a]
                                 + IF a = owner THEN auction.amount ELSE 0
    <2>1. CASE auction.amount > 0
      <3>1. PICK accepted \in BOOLEAN : Pay(eth, owner, auction.amount, accepted)
        BY <2>1 DEF PaySeller, Accepts
      <3>2. auction.amount <= eth[House]
        BY <1>1, <1>2
      <3> QED
        BY <1>1, <1>2, <3>1, <3>2, PayWealth
    <2>2. CASE auction.amount = 0
      <3>1. eth' = eth /\ weth' = weth
        BY <2>2 DEF PaySeller, moneyVars
      <3>2. \A a \in Buyers : eth[a] \in Nat /\ weth[a] \in Nat
        BY <1>1 DEF Buyers, Anyone, Holders
      <3> QED
        BY <2>2, <3>1, <3>2
    <2> QED
      BY <1>2, <2>1, <2>2
  <1>4. leaderBar = auction.bidder /\ priceBar = auction.amount
    BY <1>1 DEF leaderBar, priceBar
  <1>5. ASSUME NEW t \in Buyers
        PROVE  wealthBar'[t] = wealthBar[t] - (IF t = leaderBar THEN priceBar ELSE 0)
                                            + (IF t = owner THEN priceBar ELSE 0)
    <2>1. eth[t] \in Nat /\ weth[t] \in Nat
      BY <1>1 DEF Buyers, Anyone, Holders
    <2>2. wealthBar[t] = eth[t] + weth[t]
                         + IF auction.bidder = t THEN auction.amount ELSE 0
      BY <1>1 DEF wealthBar, Buyers
    <2>3. wealthBar'[t] = eth'[t] + weth'[t]
      <3>1. eth'[t] + weth'[t] \in Int
        BY <1>2, <1>3, <2>1
      <3>2. wealthBar'[t] = eth'[t] + weth'[t]
                + IF Live' /\ auction'.bidder = t THEN auction'.amount ELSE 0
        BY DEF wealthBar, Buyers
      <3> QED
        BY <3>1, <3>2
    <2>4. eth'[t] + weth'[t] = eth[t] + weth[t]
                               + IF t = owner THEN auction.amount ELSE 0
      BY <1>3
    <2> QED
      BY <1>2, <1>4, <2>1, <2>2, <2>3, <2>4
  <1>6. /\ DOMAIN wealthBar = Buyers
        /\ wealthBar' = [t \in Buyers |-> wealthBar'[t]]
    BY DEF wealthBar, Buyers
  <1> QED
    BY <1>5, <1>6

\* Opening an auction puts up a lot never sold before, which the house holds,
\* and gives away no noun that had an owner.
LEMMA CreateIsPutUp ==
    ASSUME IInv, NEW owners \in [NounIds -> Anyone], NEW previous \in Auctions,
           \A n \in NounIds : n >= nextId => owners[n] = Zero,
           previous.settled \/ previous.startTime = 0,
           CreateAuction(owners, previous)
    PROVE  \/ Sale!PutUp(owners)
           \/ ~Live' /\ auction' = previous /\ nounOwner' = owners
  <1>1. TokenTypeOK /\ nextId \in Nat /\ now \in Nat /\ now >= 1
        /\ (auction.startTime # 0 => auction.nounId < nextId)
        /\ auction \in Auctions
    BY DEF IInv, TypeOK, TokenTypeOK, Consistent
  <1>2. CASE /\ MintOutcome(House) = "ok"
             /\ RoomToMint
             /\ nounOwner' = WithMinted(owners)
             /\ auction' = [nounId |-> MintedId, amount |-> 0, startTime |-> now,
                            endTime |-> now + Duration, bidder |-> Zero,
                            settled |-> FALSE]
    <2>1. minter = House
      BY <1>2 DEF MintOutcome
    <2>2. /\ nextId \in NounIds /\ MintedId \in NounIds
          /\ nextId <= MintedId
          /\ nounOwner'[MintedId] = House
          /\ \A n \in NounIds : n # nextId /\ n # MintedId =>
                 nounOwner'[n] = owners[n]
      BY <1>1, <1>2, <2>1, MintType
    <2>3. MintedId \in Nat /\ MintedId >= nextId
      BY <1>1, <2>2 DEF MintedId
    <2>4. /\ Live' /\ priceBar' = 0 /\ leaderBar' = Zero /\ lotBar' = MintedId
      BY <1>1, <1>2 DEF Live, priceBar, leaderBar, lotBar
    <2>5. lotBar < nextId /\ lotBar \in Int
      BY <1>1, MintAssumption DEF lotBar, Auctions, NounIds
    <2>6. lotBar' > lotBar /\ owners[MintedId] = Zero /\ owners[nextId] = Zero
      BY <1>1, <2>2, <2>3, <2>4, <2>5
    <2> QED
      BY <2>2, <2>4, <2>5, <2>6
      DEF Sale!PutUp, priceBar, leaderBar, lotBar
  <1>3. CASE auction' = previous /\ nounOwner' = owners
    BY <1>3 DEF Live
  <1> QED
    BY <1>2, <1>3 DEF CreateAuction

\* Settling delivers the noun against its price.
LEMMA SettleIsClose ==
    ASSUME IInv, CanSettle, PaySeller, UNCHANGED owner, auction' \in Auctions,
           Live' => auction'.amount = 0
    PROVE  /\ Live
           /\ wealthBar' = Sale!WealthAfterSale
           /\ OwnersAfterSettle = Sale!HolderAfterSale
           /\ (~Live' /\ auction' = Settled /\ nounOwner' = OwnersAfterSettle
               => Sale!Close)
           /\ (Sale!PutUp(OwnersAfterSettle) => Sale!CloseAndOpen)
  <1>1. Live
    BY DEF CanSettle
  <1>2. wealthBar' = Sale!WealthAfterSale
    BY SettlePays DEF Sale!WealthAfterSale, wealthBar, leaderBar, priceBar
  <1>3. OwnersAfterSettle = Sale!HolderAfterSale
    BY <1>1 DEF OwnersAfterSettle, Sale!HolderAfterSale, Live
  <1>4. ASSUME ~Live', auction' = Settled, nounOwner' = OwnersAfterSettle
        PROVE  Sale!Close
    <2>1. auction'.startTime = auction.startTime /\ auction'.nounId = auction.nounId
      <3>1. auction \in Auctions
        BY DEF IInv, TypeOK
      <3> QED
        BY <1>4, <3>1 DEF Settled, Auctions
    <2> QED
      BY <1>1, <1>2, <1>3, <1>4, <2>1 DEF Sale!Close, wealthBar
  <1>5. ASSUME Sale!PutUp(OwnersAfterSettle)
        PROVE  Sale!CloseAndOpen
    BY <1>1, <1>2, <1>3, <1>5 DEF Sale!CloseAndOpen, wealthBar
  <1> QED
    BY <1>1, <1>2, <1>3, <1>4, <1>5

\* A house that has just been deployed has nothing on sale.
LEMMA InitRefines == Init => Sale!SaleInit
  BY HouseAssumption, MintAssumption
  DEF Init, TokenInit, NoAuction, Live, Sale!SaleInit

\* Every call is a step of the sale, or one the sale does not see: a bid raises,
\* settling closes, creating opens, and the token's own transfers are trades.
LEMMA StepRefines ==
    ASSUME IInv, IInv', Next
    PROVE  Sale!SaleNext \/ UNCHANGED Sale!saleVars
  <1> USE DEF Sale!SaleNext
  <1>0. auction \in Auctions /\ auction' \in Auctions
        /\ nounOwner \in [NounIds -> Anyone]
    BY DEF IInv, TypeOK, TokenTypeOK
  <1>1. CASE \E nounId \in NounIds, bidder \in Accounts, value \in 0..Endowment :
                 CreateBid(nounId, bidder, value)
    BY <1>1, HouseAssumption, BidIsRaise
  <1>2. CASE SettleCurrentAndCreateNewAuction
    <2>1. CanSettle /\ PaySeller /\ UNCHANGED owner
          /\ CreateAuction(OwnersAfterSettle, Settled)
      BY <1>2 DEF SettleCurrentAndCreateNewAuction
    <2>2. Live' => auction'.amount = 0
      <3>1. TokenTypeOK /\ now \in Nat /\ now >= 1 /\ now' = now
        BY <1>2 DEF IInv, TypeOK, Consistent, SettleCurrentAndCreateNewAuction
      <3> QED
        BY <2>1, <3>1, SettleEffect, CreateAuctionKeeps
    <2>3. \/ Sale!PutUp(OwnersAfterSettle)
          \/ ~Live' /\ auction' = Settled /\ nounOwner' = OwnersAfterSettle
      BY <2>1, SettleEffect, CreateIsPutUp
    <2> QED
      BY <1>0, <2>1, <2>2, <2>3, SettleIsClose
  <1>3. CASE SettleAuction
    <2>1. /\ CanSettle /\ PaySeller /\ UNCHANGED owner /\ ~Live'
          /\ auction' = Settled /\ nounOwner' = OwnersAfterSettle
      BY <1>3, SettleKeeps DEF SettleAuction
    <2> QED
      BY <1>0, <2>1, SettleIsClose
  <1>4. CASE Pause
    BY <1>4 DEF Pause, Sale!saleVars, Live, tokenVars, moneyVars
  <1>5. CASE Unpause
    <2>1. CASE Live
      BY <1>5, <2>1 DEF Unpause, Sale!saleVars, Live, moneyVars
    <2>2. CASE ~Live
      <3>1. /\ CreateAuction(nounOwner, auction)
            /\ UNCHANGED <<eth, weth, owner>>
        BY <1>5, <2>2 DEF Unpause, moneyVars
      <3>2. \A n \in NounIds : n >= nextId => nounOwner[n] = Zero
        BY DEF IInv, Consistent
      <3>3. auction.settled \/ auction.startTime = 0
        BY <1>0, <2>2 DEF Live, Auctions
      <3>4. \/ Sale!PutUp(nounOwner)
            \/ ~Live' /\ auction' = auction /\ nounOwner' = nounOwner
        BY <1>0, <3>1, <3>2, <3>3, CreateIsPutUp
      <3>5. wealthBar' = wealthBar
        <4>1. Live' => auction'.amount = 0
          <5>1. eth'[House] = IF Live' THEN auction'.amount ELSE 0
            BY DEF IInv, Escrow
          <5>2. eth[House] = 0
            BY <2>2 DEF IInv, Escrow
          <5> QED
            BY <3>1, <5>1, <5>2
        <4> QED
          BY <2>2, <3>1, <4>1 DEF wealthBar
      <3> QED
        BY <2>2, <3>1, <3>4, <3>5 DEF Sale!Open, Sale!saleVars, wealthBar, Live
    <2> QED
      BY <2>1, <2>2
  <1>6. CASE \E new \in Params : SetParams(new)
    BY <1>6 DEF SetParams, Sale!saleVars, Live, tokenVars, moneyVars
  <1>7. CASE \E new \in Owners : TransferOwnership(new)
    BY <1>7, HouseAssumption
    DEF TransferOwnership, Sale!NewSeller, Live, tokenVars, moneyVars
  <1>8. CASE Tick
    BY <1>8 DEF Tick, Sale!saleVars, Live, tokenVars, houseVars, moneyVars
  <1>9. CASE TokenStep
    BY <1>9, TokenStepKeeps DEF TokenStep, Sale!Trade, Live, houseVars, moneyVars
  <1> QED
    BY <1>1, <1>2, <1>3, <1>4, <1>5, <1>6, <1>7, <1>8, <1>9 DEF Next

\* Every behaviour of the auction house is a fair sale: lots are sold one at a
\* time to the highest bidder against the price, and nobody else pays.
THEOREM Refinement == Spec => SellsFairly
  <1>1. IInv /\ IInv' /\ [Next]_vars => [Sale!SaleNext]_(Sale!saleVars)
    <2>1. UNCHANGED vars => UNCHANGED Sale!saleVars
      BY DEF vars, tokenVars, houseVars, moneyVars, Sale!saleVars, Live
    <2> QED
      BY <2>1, StepRefines
  <1> QED
    BY <1>1, InitRefines, Invariance, PTL DEF Spec, SellsFairly, Sale!SaleSpec
=============================================================================
