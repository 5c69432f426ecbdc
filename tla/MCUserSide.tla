------------------------------ MODULE MCUserSide ------------------------------
(***************************************************************************)
(* A small instance of the programs at the user's side: the scanner in     *)
(* chainhook mode, the wallet hook, the dashboard, the SDK's transactions, *)
(* its relayers, its advice and its Merkle tree.  They share no state and  *)
(* no step of one depends on another, so each run has one of them move,    *)
(* chosen at the start, while the others stay as they begin.               *)
(***************************************************************************)
EXTENDS ChainhookScanner, WalletHook, Dashboard, AccountTransactions, PrivacyAdvice, Relayers,
        SdkMerkleTree

VARIABLE moving

userSideVars == <<moving, chainhookVars, walletVars, dashboardVars, accountVars, adviceVars,
                  relayerVars, treeClientVars>>

\* Of the programs that stay, one state each is enough.
UserSideInit ==
    /\ moving \in {"chainhook", "wallet", "dashboard", "account", "advice", "relayers",
                  "tree"}
    /\ ChainhookInit /\ WalletInit /\ DashboardInit /\ AccountInit /\ AdviceInit
    /\ RelayersInit /\ TreeClientInit
    /\ moving # "wallet" => ~stored
    /\ moving # "dashboard" => ~relayerUp

UserSideNext ==
    /\ UNCHANGED moving
    /\ \/ moving = "chainhook" /\ ChainhookNext
       \/ moving = "wallet" /\ WalletNext
       \/ moving = "dashboard" /\ DashboardNext
       \/ moving = "account" /\ AccountNext
       \/ moving = "advice" /\ AdviceNext
       \/ moving = "relayers" /\ RelayersNext
       \/ moving = "tree" /\ TreeClientNext
    /\ moving # "chainhook" => UNCHANGED chainhookVars
    /\ moving # "wallet" => UNCHANGED walletVars
    /\ moving # "dashboard" => UNCHANGED dashboardVars
    /\ moving # "account" => UNCHANGED accountVars
    /\ moving # "advice" => UNCHANGED adviceVars
    /\ moving # "relayers" => UNCHANGED relayerVars
    /\ moving # "tree" => UNCHANGED treeClientVars

\* The fairness of each program, while it is the one that moves.
UserSideFairness ==
    /\ WF_chainhookVars(moving = "chainhook" /\ StartAgain)
    /\ WF_chainhookVars(moving = "chainhook" /\ StopEnds)
    /\ \A r \in Requests :
           /\ WF_chainhookVars(moving = "chainhook" /\ PaymentHandled(r))
           /\ WF_chainhookVars(moving = "chainhook" /\ Posted(r))
           /\ WF_chainhookVars(moving = "chainhook" /\ PayloadAnswered(r))
    /\ \A v \in Views, c \in Clicks :
           WF_walletVars(moving = "wallet" /\ WalletTimesOut(v, c))
    /\ WF_dashboardVars(moving = "dashboard" /\ DepositEnds)
    /\ WF_dashboardVars(moving = "dashboard" /\ CheckStatus)
    /\ WF_dashboardVars(moving = "dashboard" /\ (CheckAnswered \/ CheckFails))
    /\ WF_accountVars(moving = "account" /\ Mined)
    /\ WF_adviceVars(moving = "advice" /\ BlocksPass)
    /\ \A c \in Callers :
           /\ WF_relayerVars(moving = "relayers" /\ (ProbesSettle(c) \/ RefreshSettles(c)))
           /\ WF_relayerVars(moving = "relayers" /\ (RelayerTakes(c) \/ RelayerFails(c)))
           /\ \A u \in Urls :
                  WF_relayerVars(moving = "relayers" /\ ProbeAnswered(c, u))

UserSideSpec == UserSideInit /\ [][UserSideNext]_userSideVars /\ UserSideFairness
=============================================================================
