--------------------------- MODULE MobileMerchant ---------------------------
(***************************************************************************)
(* The merchant's screens (app/merchant): collecting a payment by tap or   *)
(* by code, withdrawing to a bank and the tabs.  Nothing here talks to a   *)
(* server: a collection moves from screen to screen on timers, and what    *)
(* can go wrong is a timer that outlives its screen.                       *)
(*                                                                         *)
(* router.push puts a new screen on the stack and leaves the ones below    *)
(* mounted, with their timers; going back unmounts the top one.            *)
(***************************************************************************)
EXTENDS Naturals, Sequences, SequencesExt

CONSTANTS
    Sales, NoSale,      \* amounts a merchant enters, and none
    MaxScreens          \* bound: screens ever pushed
ASSUME MerchantConstants == MaxScreens \in Nat

VARIABLES
    stack,      \* screens, the one shown last
    pushed,     \* screens pushed so far; their ids
    timers,     \* ids of screens whose setTimeout is pending
    fades,      \* screens whose closing animation runs, with what it pushes
    entered     \* history: amounts entered for collection
merchantVars == <<stack, pushed, timers, fades, entered>>

VARIABLES
    merchantTab,            \* the merchant's tab
    salesFilter,    \* the filter of its history
    biometricsOn    \* the switch of its settings, kept nowhere
tabVars == <<merchantTab, salesFilter, biometricsOn>>

-----------------------------------------------------------------------------
Screen(name, sale) == [name |-> name, id |-> pushed + 1, sale |-> sale, choice |-> "none"]
Top == Last(stack)
Shows(name) == Top.name = name

\* Waiting and contact screens set their timer when they mount.
Push(name, sale) ==
    /\ pushed < MaxScreens /\ pushed' = pushed + 1
    /\ stack' = Append(stack, Screen(name, sale))
    /\ timers' = IF name \in {"waiting", "contact"} THEN timers \cup {pushed + 1} ELSE timers

MerchantInit ==
    /\ stack = <<[name |-> "tabs", id |-> 0, sale |-> NoSale, choice |-> "none"]>>
    /\ pushed = 0 /\ timers = {} /\ fades = {} /\ entered = {}

\* The mutant: the cleanup of the effect forgets the timer.
TimerLeft(id) == timers
TimerCleared(id) == timers \ {id}

\* The header's arrow or the system's back.  A closing animation goes on.
Back ==
    /\ Len(stack) > 1 /\ stack' = Front(stack) /\ timers' = TimerCleared(Top.id)
    /\ UNCHANGED <<pushed, fades, entered>>

Choose(values) ==
    /\ \E v \in values \ {Top.choice} : stack' = [stack EXCEPT ![Len(stack)].choice = v]
    /\ UNCHANGED <<pushed, timers, fades, entered>>

\* The home tab's buttons, and the bank account of the settings tab.
OpenFromTabs ==
    /\ Shows("tabs") /\ \E name \in {"options", "withdraw", "bank"} : Push(name, NoSale)
    /\ UNCHANGED <<fades, entered>>

-----------------------------------------------------------------------------
(* Collecting. *)

SelectMethod == Shows("options") /\ Choose({"tap", "qr"})

HandleContinue ==
    /\ Shows("options") /\ Top.choice # "none"
    /\ Push(IF Top.choice = "tap" THEN "accept" ELSE "qr", NoSale)
    /\ UNCHANGED <<fades, entered>>

HandleAmountSelect ==
    /\ Shows("accept")
    /\ \E a \in (Sales \cup {NoSale}) \ {Top.sale} :
          stack' = [stack EXCEPT ![Len(stack)].sale = a] /\ entered' = entered \cup ({a} \cap Sales)
    /\ UNCHANGED <<pushed, timers, fades>>

\* The mutant: the button is not disabled without an amount.
AnyEntry(sale) == TRUE
CanGenerate(sale) == sale # NoSale

HandleGenerateQR ==
    /\ Shows("accept") /\ CanGenerate(Top.sale)
    /\ Push("waiting", Top.sale) /\ UNCHANGED <<fades, entered>>

AfterTimer(name) == IF name = "waiting" THEN "contact" ELSE "received"

\* The timeout, wherever its screen is in the stack: the animation starts.
TimeoutFires ==
    \E i \in 1..Len(stack) :
       /\ stack[i].id \in timers
       /\ timers' = timers \ {stack[i].id}
       /\ fades' = fades \cup {[id |-> stack[i].id, to |-> AfterTimer(stack[i].name), sale |-> stack[i].sale]}
       /\ UNCHANGED <<stack, pushed, entered>>

\* The animation is over and pushes its screen on whatever is shown by then.
FadeEnds(f) ==
    /\ f \in fades /\ fades' = fades \ {f}
    /\ Push(f.to, f.sale) /\ UNCHANGED entered

\* The screen and its timer stay below.
HandleScanInstead ==
    /\ Shows("contact") /\ Push("accept", NoSale) /\ UNCHANGED <<fades, entered>>

\* Done goes to a new home screen; the collection stays below it.
HandleDone ==
    /\ Shows("received") /\ fades' = fades \cup {[id |-> Top.id, to |-> "tabs", sale |-> NoSale]}
    /\ UNCHANGED <<stack, pushed, timers, entered>>

\* The code screen is opened without an amount, so its code never carries one;
\* sharing changes nothing and Continue does not start its animation.
QrAmount(screen) == screen.sale
LeaveQr == Shows("qr") /\ Back

\* What the three screens of a collection show as its amount.
WaitingAmount(screen) == screen.sale
ReceivedAmount(screen) == screen.sale

\* The form for a bank account takes a name and a number; "Linked" is inert.
EditBankAccount == Shows("bank") /\ Choose({"typed"})

-----------------------------------------------------------------------------
(* Withdrawing.  The amount entered is not handed on. *)

WithdrawTabs == Shows("withdraw") /\ Choose({"withdraw", "history"})
HandleMaxPress ==
    /\ Shows("withdraw") /\ Top.choice # "history"
    /\ \E a \in (Sales \cup {NoSale}) \ {Top.sale} : stack' = [stack EXCEPT ![Len(stack)].sale = a]
    /\ UNCHANGED <<pushed, timers, fades, entered>>
HandleWithdraw ==
    /\ Shows("withdraw") /\ Top.choice # "history"
    /\ Push("summary", NoSale) /\ UNCHANGED <<fades, entered>>

HandleConfirm ==
    /\ Shows("summary") /\ fades' = fades \cup {[id |-> Top.id, to |-> "success", sale |-> NoSale]}
    /\ UNCHANGED <<stack, pushed, timers, entered>>

\* The splash screen is pushed on top of it all.
SuccessDone == Shows("success") /\ Push("splash", NoSale) /\ UNCHANGED <<fades, entered>>

MerchantNext ==
    \/ (~Shows("qr") /\ Back) \/ LeaveQr \/ EditBankAccount \/ OpenFromTabs \/ SelectMethod \/ HandleContinue \/ HandleAmountSelect \/ HandleGenerateQR
    \/ TimeoutFires \/ (\E f \in fades : FadeEnds(f)) \/ HandleScanInstead \/ HandleDone
    \/ WithdrawTabs \/ HandleMaxPress \/ HandleWithdraw \/ HandleConfirm \/ SuccessDone

-----------------------------------------------------------------------------
(* The tabs. *)

\* The history's rows: the second and third are transfers.
SaleKind(i) == IF i \in {2, 3} THEN "Transfer" ELSE "Received"
SalesShown == {i \in 1..5 : salesFilter = "All" \/ SaleKind(i) = salesFilter}

TabInit == merchantTab = "home" /\ salesFilter = "All" /\ biometricsOn = TRUE
SelectTab == \E t \in {"home", "history", "settings"} \ {merchantTab} : merchantTab' = t /\ UNCHANGED <<salesFilter, biometricsOn>>
SetActiveFilter ==
    /\ merchantTab = "history" /\ \E f \in {"All", "Transfer", "Received"} \ {salesFilter} : salesFilter' = f
    /\ UNCHANGED <<merchantTab, biometricsOn>>
SetBiometrics == merchantTab = "settings" /\ biometricsOn' = ~biometricsOn /\ UNCHANGED <<merchantTab, salesFilter>>
TabNext == SelectTab \/ SetActiveFilter \/ SetBiometrics

-----------------------------------------------------------------------------
ScreenNames == {"tabs", "options", "accept", "qr", "waiting", "contact", "received", "withdraw", "summary", "success",
                "bank", "splash"}
MerchantTypeOK ==
    /\ pushed \in 0..MaxScreens /\ Len(stack) \in 1..(MaxScreens + 1) /\ timers \subseteq 1..MaxScreens
    /\ \A i \in 1..Len(stack) : stack[i] \in [name : ScreenNames, id : 0..MaxScreens, sale : Sales \cup {NoSale},
                                             choice : {"none", "tap", "qr", "withdraw", "history", "typed"}]
    /\ \A f \in fades : f.id \in 1..MaxScreens /\ f.to \in ScreenNames /\ f.sale \in Sales \cup {NoSale}
    /\ entered \subseteq Sales
    /\ merchantTab \in {"home", "history", "settings"} /\ salesFilter \in {"All", "Transfer", "Received"}
    /\ biometricsOn \in BOOLEAN /\ SalesShown \subseteq 1..5

\* A collection that was left does not report a payment later: every pending
\* timer is one of a screen still on the stack (waiting-payment.tsx:60-64,
\* contact-made.tsx:59-60: "Cleanup timer if component unmounts").
TimersAreMounted == \A id \in timers : \E i \in 1..Len(stack) : stack[i].id = id

\* A screen that says a payment is awaited, being processed or received names
\* an amount the merchant entered, however the stack came about, and the code
\* screen none (accept-payment.tsx:23-28, waiting-payment.tsx:56,
\* contact-made.tsx:55).
CollectsWhatWasEntered ==
    \A i \in 1..Len(stack) :
       /\ stack[i].name = "waiting" => WaitingAmount(stack[i]) \in entered
       /\ stack[i].name = "received" => ReceivedAmount(stack[i]) \in entered
       /\ stack[i].name = "qr" => QrAmount(stack[i]) = NoSale

=============================================================================
