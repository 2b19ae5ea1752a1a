---------------------------- MODULE OrdersProofs ----------------------------
(***************************************************************************)
(* The theorems about the token exchange of Orders, for every finite set   *)
(* of addresses and every set of ticks, any number of orders and any       *)
(* amounts: the rows obey the laws, FillsAreFair follows from the          *)
(* invariant of the book, TokensAreAccounted from the one of the ledger,   *)
(* and NothingDangles from both.                                           *)
(***************************************************************************)
EXTENDS OrdersRows, OrdersBook, OrdersLedger

-----------------------------------------------------------------------------
(* The laws hold.                                                           *)

\* Sums over finite sets obey the laws.
THEOREM SumsObeyLaws == SumLaws
<1>1. SumEmptyLaw
  BY ZenonT(60), SumEmpty DEF SumEmptyLaw
<1>2. SumTypeLaw
  BY ZenonT(60), SumType DEF SumTypeLaw
<1>3. SumAddLaw
  BY ZenonT(60), SumAdd DEF SumAddLaw
<1>4. SumAgreeLaw
  BY SMTT(60), SumAgree DEF SumAgreeLaw
<1>5. SumUpdateLaw
  BY SMTT(60), SumUpdate DEF SumUpdateLaw
<1>6. SumPlusLaw
  BY SMTT(60), SumPlus DEF SumPlusLaw
<1>7. SumOfPartLaw
  BY SMTT(60), SumOfPart DEF SumOfPartLaw
<1>8. SumFunctionIsSumLaw
  BY ZenonT(60), SumFunctionIsSum DEF SumFunctionIsSumLaw
<1>9. IntervalIsFiniteLaw
  BY ZenonT(60), IntervalIsFinite DEF IntervalIsFiniteLaw
<1>10. PartIsFiniteLaw
  BY ZenonT(60), PartIsFinite DEF PartIsFiniteLaw
<1> QED BY ZenonT(60), <1>1, <1>2, <1>3, <1>4, <1>5, <1>6, <1>7, <1>8, <1>9, <1>10 DEF SumLaws

\* The rows of the exchange obey the laws: what every handler does to orders and matches.
THEOREM RowsObeyLaws == RowLaws
<1>1. MatchRowFieldsLaw
  BY ZenonT(60), MatchRowFields DEF MatchRowFieldsLaw
<1>2. MatchAmountsLaw
  BY ZenonT(60), MatchAmounts DEF MatchAmountsLaw
<1>3. GivenTypeLaw
  BY ZenonT(60), GivenType DEF GivenTypeLaw
<1>4. GivenIsKeptLaw
  BY ZenonT(60), GivenIsKept DEF GivenIsKeptLaw
<1>5. OrderRowFieldsLaw
  BY ZenonT(60), OrderRowFields DEF OrderRowFieldsLaw
<1>6. SameOfferReflLaw
  BY ZenonT(60), SameOfferRefl DEF SameOfferReflLaw
<1>7. RowsStayLaw
  BY ZenonT(60), RowsStay DEF RowsStayLaw
<1>8. MatchesStayLaw
  BY ZenonT(60), MatchesStay DEF MatchesStayLaw
<1>9. DomainsLaw
  BY ZenonT(60), Domains DEF DomainsLaw
<1>10. CancelEffectLaw
  BY ZenonT(60), CancelEffect DEF CancelEffectLaw
<1>11. EditEffectLaw
  BY ZenonT(60), EditEffect DEF EditEffectLaw
<1>12. SweepEffectLaw
  BY ZenonT(60), SweepEffect DEF SweepEffectLaw
<1>13. SellerAndBuyerLaw
  BY ZenonT(60), SellerAndBuyer DEF SellerAndBuyerLaw
<1>14. CoinpayEffectLaw
  BY ZenonT(60), CoinpayEffect DEF CoinpayEffectLaw
<1>15. CoinpayExpireEffectLaw
  BY ZenonT(60), CoinpayExpireEffect DEF CoinpayExpireEffectLaw
<1>16. RemainsIsGivesLaw
  BY ZenonT(60), RemainsIsGives DEF RemainsIsGivesLaw
<1>17. FillableIsTradesLaw
  BY ZenonT(60), FillableIsTrades DEF FillableIsTradesLaw
<1>18. RemainderTypesLaw
  BY ZenonT(60), RemainderTypes DEF RemainderTypesLaw
<1>19. TradedBeforeLaw
  BY SMTT(60), TradedBefore DEF TradedBeforeLaw
<1>20. RemaindersAfterMatchLaw
  BY ZenonT(60), RemaindersAfterMatch DEF RemaindersAfterMatchLaw
<1>21. FairFillLaw
  BY ZenonT(60), FairFill DEF FairFillLaw
<1>22. RemaindersAreIntegersLaw
  BY ZenonT(60), RemaindersAreIntegers DEF RemaindersAreIntegersLaw
<1>23. PhasesDifferLaw
  BY ZenonT(60), PhasesDiffer DEF PhasesDifferLaw
<1>24. PassFactsLaw
  BY ZenonT(60), PassFacts DEF PassFactsLaw
<1>25. MatchOfPassLaw
  BY ZenonT(60), MatchOfPass DEF MatchOfPassLaw
<1>26. InstantEffectLaw
  BY ZenonT(60), InstantEffect DEF InstantEffectLaw
<1>27. OfferIsRealLaw
  BY ZenonT(60), OfferIsReal DEF OfferIsRealLaw
<1>28. CreateEffectLaw
  BY ZenonT(60), CreateEffect DEF CreateEffectLaw
<1>29. LiveOrFinalLaw
  BY ZenonT(60), LiveOrFinal DEF LiveOrFinalLaw
<1> QED BY ZenonT(60), <1>1, <1>2, <1>3, <1>4, <1>5, <1>6, <1>7, <1>8, <1>9, <1>10, <1>11, <1>12, <1>13,
           <1>14, <1>15, <1>16, <1>17, <1>18, <1>19, <1>20, <1>21, <1>22, <1>23, <1>24, <1>25, <1>26, <1>27,
           <1>28, <1>29 DEF RowLaws

-----------------------------------------------------------------------------
(* The theorems.                                                            *)

\* The inductive invariant of the book: rows, joins and remainders make sense, a pass has an
\* open taker, and two orders that could trade are the taker of the pass and a maker it has
\* still to try.  Every operation of ORDER, SWEEP, COINPAY and their expiries keeps it.
THEOREM BookInvariant == Spec => []BookInv
<1>1. Init => BookInv
  BY SMTT(60), BookStarts
<1>2. BookInv /\ [Next]_vars => BookInv'
  BY ZenonT(60), BookStep, RowsObeyLaws
<1> QED BY <1>1, <1>2, PTL DEF Spec

\* Fills are fair: whatever the amounts, the rounding and the number of makers in one pass, no
\* order gives or gets more than it offered or asked for, every match respects both limit prices
\* up to the rounding of a unit, and no two open orders that could trade are left behind.
THEOREM FillsAreAlwaysFair == Spec => []FillsAreFair
<1>1. BookInv => FillsAreFair
  <2>1. SUFFICES ASSUME BookInv PROVE FillsAreFair
    OBVIOUS
  <2>2. Book /\ CrossedOnlyInPass
    BY ZenonT(60), <2>1 DEF BookInv
  <2>3. FillWithinLimits
    BY ZenonT(60), <2>2 DEF FillWithinLimits, Book, WithinOffer, PricesKept, PriceKept
  <2>4. BookIsUncrossed
    BY ZenonT(60), <2>2 DEF BookIsUncrossed, CrossedOnlyInPass
  <2> QED BY ZenonT(60), <2>3, <2>4 DEF FillsAreFair
<1> QED BY <1>1, BookInvariant, PTL

\* The inductive invariant of the ledger: no operation mints or burns a token, and the escrow of
\* a tick always holds what the live orders have left to give and what the buyers of pending
\* coin payments are to receive.
THEOREM LedgerInvariant == Spec => []LedgerInv
<1>1. Init /\ BookInv => LedgerInv
  BY ZenonT(60), LedgerStarts, SumsObeyLaws, RowsObeyLaws
<1>2. LedgerInv /\ BookInv' /\ [Next]_vars => LedgerInv'
  BY ZenonT(60), LedgerStep, SumsObeyLaws, RowsObeyLaws
<1> QED BY <1>1, <1>2, BookInvariant, PTL DEF Spec

\* Tokens are accounted for: through every order, cancellation, edit, expiry, sweep, match, coin
\* payment and lapsed payment the supply of a tick is what the balances and its escrow hold, and
\* the escrow covers all that the exchange owes.  No refund or settlement can fail for want of
\* escrow or pay out twice.
THEOREM TokensAreAlwaysAccounted == Spec => []TokensAreAccounted
<1>1. LedgerInv => TokensAreAccounted
  BY ZenonT(60) DEF LedgerInv, TokensAreAccounted
<1> QED BY <1>1, LedgerInvariant, PTL

\* Nothing dangles: an escrow gate of a tick always names a live offer of its ownership by its
\* owner, and a seller left 'cancelling' or 'expiring' has a payment to wait for: the handler that
\* settles or lapses the last one closes the order in the same step.
THEOREM NothingEverDangles == Spec => []NothingDangles
<1>1. Init => SellersWait /\ GatesName
  BY ZenonT(60), DangleStarts
<1>2. LedgerInv /\ SellersWait /\ GatesName /\ [Next]_vars => SellersWait' /\ GatesName'
  BY ZenonT(60), DangleStep, RowsObeyLaws DEF DangleInv, DangleGoal, LedgerInv
<1>3. LedgerInv /\ SellersWait /\ GatesName => NothingDangles
  BY ZenonT(60) DEF NothingDangles, SellersAreFinalized, GateNamesLiveOffer, SellersWait, GatesName,
     SellerWaits, GateNames, Waiting
<1> QED BY <1>1, <1>2, <1>3, LedgerInvariant, PTL DEF Spec
=============================================================================
