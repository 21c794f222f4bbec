--------------------------- MODULE DashboardPages ---------------------------
(***************************************************************************)
(* The pages and controls of the dashboard, run side by side.  They share  *)
(* no state: every page keeps its own hooks.  A behaviour follows one of   *)
(* them, `part', while the others rest, so that what each one promises is  *)
(* checked for itself and the cost is the sum of the parts.                *)
(***************************************************************************)
EXTENDS DashboardPayouts, DashboardVault, DashboardAudit, DashboardBrowse,
        DashboardAdmin, DashboardPolling, DashboardShell

VARIABLE part   \* the part of the dashboard that is used

Parts == {"payouts", "vault", "audit", "browse", "wallet", "blacklist", "fee", "pause",
          "polls", "bell", "frame", "copy", "qr"}

vars == <<part, payoutsVars, vaultFormVars, auditVars, browseVars, adminVars, pollVars, bellVars,
          frameVars, copyVars, qrVars>>

\* A part at rest starts in one of its initial states; which one is no matter.
Resting ==
    /\ part = "vault" \/ superadmin
    /\ part = "browse" \/ feedPageSize = CHOOSE n \in FeedPageSizes : TRUE
    /\ part = "pause" \/ ~vaultPaused
    /\ part = "polls" \/ searchInput = CHOOSE q \in Queries : TRUE

Init ==
    /\ part \in Parts
    /\ PayoutsInit /\ VaultFormInit /\ AuditInit /\ BrowseInit /\ AdminInit /\ PollingInit /\ ShellInit
    /\ Resting

Except(p, others) == part = p /\ UNCHANGED <<part, others>>
OfAdmin == <<payoutsVars, vaultFormVars, auditVars, browseVars, pollVars, bellVars, frameVars, copyVars, qrVars>>
OfPages == <<adminVars, pollVars, bellVars, frameVars, copyVars, qrVars>>
OfPolling == <<payoutsVars, vaultFormVars, auditVars, browseVars, adminVars, frameVars, copyVars, qrVars>>
OfShell == <<payoutsVars, vaultFormVars, auditVars, browseVars, adminVars, pollVars, bellVars>>

Next ==
    \/ Except("payouts", <<vaultFormVars, auditVars, browseVars, OfPages>>) /\ PayoutsNext
    \/ Except("vault", <<payoutsVars, auditVars, browseVars, OfPages>>) /\ VaultFormNext
    \/ Except("audit", <<payoutsVars, vaultFormVars, browseVars, OfPages>>) /\ AuditNext
    \/ Except("browse", <<payoutsVars, vaultFormVars, auditVars, OfPages>>) /\ BrowseNext
    \/ Except("wallet", <<blacklistVars, feeVars, pauseVars, OfAdmin>>) /\ WalletNext
    \/ Except("blacklist", <<walletVars, feeVars, pauseVars, OfAdmin>>) /\ BlacklistNext
    \/ Except("fee", <<walletVars, blacklistVars, pauseVars, OfAdmin>>) /\ FeeNext
    \/ Except("pause", <<walletVars, blacklistVars, feeVars, OfAdmin>>) /\ PauseNext
    \/ Except("polls", <<bellVars, OfPolling>>) /\ PollsNext
    \/ Except("bell", <<pollVars, OfPolling>>) /\ BellNext
    \/ Except("frame", <<copyVars, qrVars, OfShell>>) /\ FrameNext
    \/ Except("copy", <<frameVars, qrVars, OfShell>>) /\ CopyNext
    \/ Except("qr", <<frameVars, copyVars, OfShell>>) /\ QrNext

-----------------------------------------------------------------------------
(* Fairness: the browser ends every parse, request and navigation, the     *)
(* extension answers, and timers fire.  Polling is repeated for ever, so a *)
(* request that is always there again is also answered again and again.    *)

FairPages ==
    /\ WF_payoutsVars(part = "payouts" /\ (UploadAccepted \/ UploadDone \/ UploadFails))
    /\ WF_payoutsVars(part = "payouts" /\ \E f \in Files : Parsed(f))
    /\ WF_vaultFormVars(part = "vault" /\ (Signed \/ SignFailed))
    /\ WF_auditVars(part = "audit" /\ \E v \in apyReads : ApyEnds(v))
    /\ WF_browseVars(part = "browse" /\ Arrive)
FairAdmin ==
    /\ WF_walletVars(part = "wallet" /\ (Restore \/ ConnectEnds))
    /\ WF_blacklistVars(part = "blacklist" /\ (BlacklistSigned \/ BlacklistFails))
    /\ WF_feeVars(part = "fee" /\ FeeEnds)
    /\ WF_pauseVars(part = "pause" /\ PauseEnds)
FairPolls ==
    /\ WF_pollVars(part = "polls" /\ Poll(committedQuery))
    /\ SF_pollVars(part = "polls" /\ \E p \in polls : p.of = committedQuery /\ Serve(p))
    /\ SF_pollVars(part = "polls" /\ \E p \in polls : p.of = committedQuery /\ PollAnswered(p))
    /\ WF_pollVars(part = "polls" /\ \E p \in polls : p.of # committedQuery /\ (Serve(p) \/ PollAnswered(p)))

Spec == Init /\ [][Next]_vars /\ FairPages /\ FairAdmin /\ FairPolls

-----------------------------------------------------------------------------
TypeOK ==
    /\ part \in Parts
    /\ PayoutsTypeOK /\ VaultFormTypeOK /\ AuditTypeOK /\ BrowseTypeOK /\ AdminTypeOK
    /\ PollingTypeOK /\ ShellTypeOK

\* What is paid, signed, paused, blacklisted or connected from the dashboard
\* is what its user was shown, checked and confirmed, also when he edits or
\* opens another drawer while a signature or a timer is out.  The uploads are
\* those of a user who waits for a file to be parsed before he drops the next
\* (OverlapDrops = FALSE); payouts/page.tsx:132 does not make him wait, and
\* with OverlapDrops = TRUE SentRowsArePayable is violated.
ActsAsReviewed ==
    /\ SentRowsArePayable /\ SignedIsSound /\ ConfirmedEach
    /\ WalletWasGranted /\ BlacklistWasReviewed /\ PauseAsTyped

\* What is shown belongs to what was asked last: late answers of earlier
\* visits, users and polls change nothing, and timers and effects that overlap
\* undo what they did.  Of the searches it says so only when each is answered
\* before the next starts (OverlapSearch = FALSE): the code shows whichever
\* answer comes last, and with OverlapSearch = TRUE SuggestionsMatch is
\* violated (SearchBar.tsx:76-95).
ShownIsCurrent ==
    /\ TypeOK
    /\ SignedChangesListed /\ ApyIsCurrent /\ DialogShowsItsUser /\ SuggestionsMatch
    /\ ReadStaysRead /\ ScrollRestored /\ CopiedIsTimed

\* "Returns latest data", said of the part that polls.
PollsConverge == part = "polls" => PollConverges

\* Overlapping requests settle on the right answer: polls end with what the
\* server has now and never lose what they had.
AnswersConverge == PollsConverge /\ DataStays

\* Whatever shows a spinner or disables its button: an upload, a signature of
\* the vault's parameters, the rate history that is open, a chosen suggestion,
\* the wallet, and what an administrator signs or toggles.
Working ==
    \/ Busy \/ signing \/ Opening
    \/ auditTab = "apy-history" /\ apyLoading
    \/ part = "wallet" /\ (restoring \/ connecting)
    \/ blacklisting # {} \/ feeStatus = "submitting" \/ pauseCalls # {}

\* No page is left waiting: every answer, refusal, lost request, change of tab
\* and reload frees the button and ends the spinner in the end.
WorkEnds == Working ~> ~Working
=============================================================================
