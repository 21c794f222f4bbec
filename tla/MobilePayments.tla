--------------------------- MODULE MobilePayments ---------------------------
(***************************************************************************)
(* The screens of the mobile app that show and move money, run side by     *)
(* side.  They share no state but what the server keeps: every screen has  *)
(* its own hooks.  A behaviour follows one of them, `part', while the      *)
(* others rest, so that what each one promises is checked for itself.      *)
(***************************************************************************)
EXTENDS MobileTransfer, MobileHome, MobileHistory, MobileScan, MobileFunding,
        MobileBatch, MobileMerchant

VARIABLE part   \* the screen that is used

Parts == {"transfer", "yield", "card", "feed", "history", "speed", "receipt", "scan",
          "receive", "tap", "fund", "claim", "batch", "detail", "merchant", "tabs"}

OfHome == <<yieldHomeVars, cardVars, feedHomeVars>>
OfHistory == <<historyVars, speedVars, receiptVars>>
OfScan == <<scanVars, receiveVars, tapStep>>
OfFunds == <<fundVars, claimVars>>
OfBatch == <<batchVars, detailVars>>
OfMerchant == <<merchantVars, tabVars>>
vars == <<part, transferVars, OfHome, OfHistory, OfScan, OfFunds, OfBatch, OfMerchant>>

\* A part at rest starts in one of its initial states; which one is no matter.
Resting ==
    /\ part = "transfer" \/ walletSource = "none"
    /\ part = "feed" \/ feedCache = "none"
    /\ part = "scan" \/ camera = "granted"

Init ==
    /\ part \in Parts
    /\ TransferInit /\ YieldHomeInit /\ CardInit /\ FeedHomeInit /\ HistoryInit /\ SpeedInit /\ ReceiptInit
    /\ ScanInit /\ ReceiveInit /\ TapInit /\ FundInit /\ ClaimInit /\ BatchInit /\ DetailInit
    /\ MerchantInit /\ TabInit /\ Resting

Except(p, others) == part = p /\ UNCHANGED <<part, others>>
NotHome == <<transferVars, OfHistory, OfScan, OfFunds, OfBatch, OfMerchant>>
NotHistory == <<transferVars, OfHome, OfScan, OfFunds, OfBatch, OfMerchant>>
NotScan == <<transferVars, OfHome, OfHistory, OfFunds, OfBatch, OfMerchant>>
NotFunds == <<transferVars, OfHome, OfHistory, OfScan, OfBatch, OfMerchant>>
NotBatch == <<transferVars, OfHome, OfHistory, OfScan, OfFunds, OfMerchant>>
NotMerchant == <<transferVars, OfHome, OfHistory, OfScan, OfFunds, OfBatch>>

Next ==
    \/ Except("transfer", <<OfHome, OfHistory, OfScan, OfFunds, OfBatch, OfMerchant>>) /\ TransferNext
    \/ Except("yield", <<cardVars, feedHomeVars, NotHome>>) /\ YieldHomeNext
    \/ Except("card", <<yieldHomeVars, feedHomeVars, NotHome>>) /\ CardNext
    \/ Except("feed", <<yieldHomeVars, cardVars, NotHome>>) /\ FeedHomeNext
    \/ Except("history", <<speedVars, receiptVars, NotHistory>>) /\ HistoryNext
    \/ Except("speed", <<historyVars, receiptVars, NotHistory>>) /\ SpeedNext
    \/ Except("receipt", <<historyVars, speedVars, NotHistory>>) /\ ReceiptNext
    \/ Except("scan", <<receiveVars, tapStep, NotScan>>) /\ ScanNext
    \/ Except("receive", <<scanVars, tapStep, NotScan>>) /\ ReceiveNext
    \/ Except("tap", <<scanVars, receiveVars, NotScan>>) /\ TapNext
    \/ Except("fund", <<claimVars, NotFunds>>) /\ FundNext
    \/ Except("claim", <<fundVars, NotFunds>>) /\ ClaimNext
    \/ Except("batch", <<detailVars, NotBatch>>) /\ BatchNext
    \/ Except("detail", <<batchVars, NotBatch>>) /\ DetailNext
    \/ Except("merchant", <<tabVars, NotMerchant>>) /\ MerchantNext
    \/ Except("tabs", <<merchantVars, NotMerchant>>) /\ TabNext

-----------------------------------------------------------------------------
(* Fairness: the phone ends every request it has sent, with an answer or   *)
(* an error, timers fire, and the bridge goes on.                          *)

FairMoney ==
    /\ WF_transferVars(part = "transfer" /\ PaymentMoves)
    /\ WF_fundVars(part = "fund" /\ FundMoves) /\ WF_fundVars(part = "fund" /\ BridgeMoves)
    /\ WF_batchVars(part = "batch" /\ UploadEnds) /\ WF_detailVars(part = "detail" /\ ExportEnds)
FairHome ==
    /\ WF_yieldHomeVars(part = "yield" /\ \E c \in yieldCalls : YieldTimesOut(c))
    /\ WF_yieldHomeVars(part = "yield" /\ PulledFeedRead)
    /\ WF_yieldHomeVars(part = "yield" /\ \E c \in autoCalls : AutoEarnSaved(c))
FairHistory ==
    /\ WF_historyVars(part = "history" /\ \E l \in loads : LoadAnswered(l) \/ LoadFails(l))
    /\ WF_speedVars(part = "speed" /\ \E b \in bumps : SpeedUpStep(b) \/ SpeedUpEnds(b))
    /\ WF_receiptVars(part = "receipt" /\ (ReceiptRead \/ ShareEnds))

Spec == Init /\ [][Next]_vars /\ FairMoney /\ FairHome /\ FairHistory

-----------------------------------------------------------------------------
\* Types of every screen.
TypeOK ==
    /\ part \in Parts
    /\ TransferTypeOK /\ HomeTypeOK /\ HistoryTypeOK /\ ScanTypeOK /\ FundingTypeOK /\ BatchTypeOK /\ MerchantTypeOK

\* Money moves to whom and as the user meant: each payment was authenticated
\* for itself, under the name and the fee of the recipient in the form, and
\* what a code, a file or a till hands on can be paid; a transfer over the
\* bridge is started no oftener than its request is repeated.  A list of a file
\* is submitted once the file has been read (SlowReads = FALSE); batch.tsx does
\* not wait, and with SlowReads = TRUE PostedIsPayable is violated.
PaysWhatWasMeant ==
    /\ AuthorisedEach /\ CardNamesRecipient /\ FeeIsCurrent
    /\ ConfirmedIsPayable /\ PostedIsPayable /\ CollectsWhatWasEntered /\ TransfersPerPress

\* A screen shows what was asked for last, whichever answer, timeout, timer or
\* frame of the camera comes late or twice: the yield of the earnings sheet, the
\* drawer of comments, the list of transactions, the answer about a claim, the
\* scanner, the till.  The list is that of a user who waits for a reading to
\* end (OverlapLoads = FALSE); useTransactions.ts:35 appends a page of older
\* filters otherwise, and ListIsPrefix is violated.
ScreensFollow ==
    /\ TypeOK
    /\ YieldIsLatest /\ DrawerIsOfItem /\ ListIsPrefix /\ ResultIsOfToken
    /\ ScannerListens /\ TimersAreMounted

\* Whatever shows a spinner or disables its button: a payment, the yield, the
\* switch for automatic deposits, a page of the history, a bumped fee, a
\* receipt, a bridge transfer, a distribution list.
Working ==
    \/ submitting \/ BatchWorking \/ Funding \/ autoSyncing \/ refreshing # "none" \/ speedingUp # 0 \/ sharing
    \/ part = "yield" /\ yieldStatus = "loading"
    \/ part = "history" /\ (loading \/ loadingMore)
    \/ part = "receipt" /\ receipt = "loading"

\* No screen is left waiting: whatever is answered, refused, lost or timed out,
\* the spinner ends and the button works again (transfer.tsx:726-732, home.tsx's
\* withTimeout, fund.tsx:118-130).  Of a bridge transfer it says so only when a
\* poll is answered before the next leaves (OverlapPolls = FALSE): the interval
\* of fund.tsx:149 does not wait, a poll that is overtaken by the last one sets
\* the view back for ever, and with OverlapPolls = TRUE WorkEnds is violated.
WorkEnds == Working ~> ~Working
=============================================================================
