------------------------------- MODULE WalletHook -------------------------------
(***************************************************************************)
(* useWallet: every component that calls it keeps a state of its own.      *)
(* Connecting shows the wallet picker, then asks the injected wallets one  *)
(* after the other; each may answer, refuse, or hang until its timeout.    *)
(* The connect library keeps the address it got in the browser's storage,  *)
(* which all components share.                                             *)
(***************************************************************************)
EXTENDS Naturals

CONSTANTS
    Views,      \* components that call useWallet
    Providers,  \* how many wallets are injected
    Clicks      \* bound: calls of connect of one view that overlap

ASSUME WalletAssumption == Providers \in Nat

VARIABLES
    wallet,    \* view -> its WalletState
    connects,  \* view -> call -> 0, or the wallet it waits for: 1 is the picker
    stored,    \* the library's storage holds an address
    hung       \* a request that was given up may still be answered

walletVars == <<wallet, connects, stored, hung>>

WalletState == [isConnected : BOOLEAN, isConnecting : BOOLEAN, error : BOOLEAN]

Connected == [isConnected |-> TRUE, isConnecting |-> FALSE, error |-> FALSE]

Disconnected == [isConnected |-> FALSE, isConnecting |-> FALSE, error |-> FALSE]

\* A component mounts: the effect takes an address that is stored.
Mounted == IF stored THEN Connected ELSE Disconnected

WalletInit ==
    /\ stored \in BOOLEAN
    /\ wallet = [v \in Views |-> Mounted]
    /\ connects = [v \in Views |-> [c \in Clicks |-> 0]]
    /\ hung = FALSE

\* A component is shown anew; calls of the old one have no effect any more.
Remounts(v) ==
    /\ wallet' = [wallet EXCEPT ![v] = Mounted]
    /\ connects' = [connects EXCEPT ![v] = [c \in Clicks |-> 0]]
    /\ UNCHANGED <<stored, hung>>

\* connect takes a stored address at once.
Connect(v, c) ==
    /\ connects[v][c] = 0
    /\ IF stored
       THEN /\ wallet' = [wallet EXCEPT ![v] = Connected]
            /\ UNCHANGED connects
       ELSE /\ wallet' = [wallet EXCEPT ![v].isConnecting = TRUE, ![v].error = FALSE]
            /\ connects' = [connects EXCEPT ![v][c] = 1]
    /\ UNCHANGED <<stored, hung>>

CallEnds(v, c, state) ==
    /\ wallet' = [wallet EXCEPT ![v] = state]
    /\ connects' = [connects EXCEPT ![v][c] = 0]

\* A wallet answers in time with an address; the library may store it.
WalletAnswers(v, c) ==
    /\ connects[v][c] # 0
    /\ CallEnds(v, c, Connected)
    /\ stored' \in {TRUE, stored}
    /\ UNCHANGED hung

\* The next wallet is asked, or there is none left; a form keeps waiting then.
StillConnecting(state) == [state EXCEPT !.error = TRUE]

Failed(state) == [state EXCEPT !.isConnecting = FALSE, !.error = TRUE]

AskNextWallet(v, c) ==
    IF connects[v][c] <= Providers
    THEN /\ connects' = [connects EXCEPT ![v][c] = @ + 1]
         /\ UNCHANGED wallet
    ELSE CallEnds(v, c, Failed(wallet[v]))

\* A wallet refuses, or answers without an address: then a stored one is taken.
WalletRefuses(v, c) ==
    /\ connects[v][c] # 0
    /\ AskNextWallet(v, c)
    /\ UNCHANGED <<stored, hung>>

AnswerLacksAddress(v, c) ==
    /\ connects[v][c] # 0
    /\ IF stored THEN CallEnds(v, c, Connected) ELSE AskNextWallet(v, c)
    /\ UNCHANGED <<stored, hung>>

\* withTimeout gives a wallet up.
WalletTimesOut(v, c) ==
    /\ connects[v][c] # 0
    /\ AskNextWallet(v, c)
    /\ hung' = TRUE
    /\ UNCHANGED stored

\* What was given up is answered after all: the call has gone on, but it is stored.
LateAnswer ==
    /\ hung
    /\ hung' \in BOOLEAN
    /\ stored' = TRUE
    /\ UNCHANGED <<wallet, connects>>

Disconnect(v) ==
    /\ stored' = FALSE
    /\ wallet' = [wallet EXCEPT ![v] = Disconnected]
    /\ UNCHANGED <<connects, hung>>

ClearError(v) ==
    /\ wallet' = [wallet EXCEPT ![v].error = FALSE]
    /\ UNCHANGED <<connects, stored, hung>>

WalletNext ==
    \/ LateAnswer
    \/ \E v \in Views :
           \/ Remounts(v) \/ Disconnect(v) \/ ClearError(v)
           \/ \E c \in Clicks :
                  \/ Connect(v, c) \/ WalletAnswers(v, c) \/ WalletRefuses(v, c)
                  \/ AnswerLacksAddress(v, c) \/ WalletTimesOut(v, c)

WalletSpec == WalletInit /\ [][WalletNext]_walletVars

\* The button of a view, disabled while it is connecting, comes back again and again: each
\* wallet has a timeout of its own, whichever hang, and no end of one call, disconnect or
\* remount leaves a view connecting with no call under way.
ButtonComesBack == \A v \in Views : []<>(~wallet[v].isConnecting)

WalletFairness ==
    \A v \in Views, c \in Clicks : WF_walletVars(WalletTimesOut(v, c))

FairWalletSpec == WalletSpec /\ WalletFairness
=============================================================================
