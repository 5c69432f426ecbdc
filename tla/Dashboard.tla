------------------------------- MODULE Dashboard -------------------------------
(***************************************************************************)
(* The app's dashboard: its tabs, the deposit and the withdrawal form, and *)
(* the poll of the relayer's status.  A form exists while its tab is open, *)
(* and each has a useSatsu of its own: the notes of a hook, and the        *)
(* secrets in its ref, end with the form.  Withdrawing and the other tabs  *)
(* find only what their own hook holds.  NotesList and BackupModal are     *)
(* shown by no page.                                                       *)
(***************************************************************************)
EXTENDS Naturals, FiniteSets

CONSTANT MaxDeposits  \* bound: notes created over the run

ASSUME DashboardAssumption == MaxDeposits \in Nat

VARIABLES
    tab,            \* the open tab
    formNotes,      \* notes of the deposit form's hook -> their status
    internalNotes,  \* notes whose secrets its ref holds -> status of their first display
    depositing,     \* what the form's button waits for: a note, or 0
    withdrawStatus, \* of the withdrawal form
    drawn,          \* notes created: 1 .. drawn
    relayerUp,      \* the relayer answers
    checking,       \* a status poll is under way
    isOnline        \* useRelayer's status

dashboardVars == <<tab, formNotes, internalNotes, depositing, withdrawStatus, drawn,
                   relayerUp, checking, isOnline>>

hookVars == <<tab, formNotes, internalNotes, depositing, withdrawStatus, drawn>>

pollVars == <<relayerUp, checking, isOnline>>

Tabs == {"deposit", "withdraw", "activity"}

With(f, x, y) == [z \in DOMAIN f \cup {x} |-> IF z = x THEN y ELSE f[z]]

DashboardInit ==
    /\ tab = "deposit" /\ formNotes = <<>> /\ internalNotes = <<>> /\ depositing = 0
    /\ withdrawStatus = "idle" /\ drawn = 0
    /\ relayerUp \in BOOLEAN /\ checking = TRUE /\ isOnline = FALSE

\* setActiveTab: the form of the old tab unmounts, with its hook, and that of the new one
\* mounts.
SwitchTab ==
    /\ tab' \in Tabs \ {tab}
    /\ formNotes' = <<>> /\ internalNotes' = <<>> /\ depositing' = 0
    /\ withdrawStatus' = "idle"
    /\ UNCHANGED <<drawn, pollVars>>

\* handleDeposit and deposit up to its request: the note is stored at once, as pending.
Deposit ==
    /\ tab = "deposit" /\ depositing = 0 /\ drawn < MaxDeposits
    /\ drawn' = drawn + 1
    /\ formNotes' = With(formNotes, drawn', "pending")
    /\ internalNotes' = With(internalNotes, drawn', "pending")
    /\ depositing' = drawn'
    /\ UNCHANGED <<tab, withdrawStatus, pollVars>>

\* The relayer's status arrives, or the request fails: either way the note counts as
\* unspent, in the list, and the form says "Note saved locally".
DepositEnds ==
    /\ depositing # 0
    /\ formNotes' = [formNotes EXCEPT ![depositing] = "unspent"]
    /\ depositing' = 0
    /\ UNCHANGED <<tab, internalNotes, withdrawStatus, drawn, pollVars>>

\* handleWithdraw: withdraw looks in the hook of the withdrawal form, which nothing has
\* put a note into, and throws.
Withdraw ==
    /\ tab = "withdraw"
    /\ withdrawStatus' =
           IF \E note \in DOMAIN internalNotes : internalNotes[note] = "unspent"
           THEN "submitting" ELSE "error"
    /\ UNCHANGED <<tab, formNotes, internalNotes, depositing, drawn, pollVars>>

\* useRelayer: checkStatus every 30 seconds, with a timeout of 5.  A form of a failed
\* check leaves the status as it was.
CheckStatus ==
    /\ ~checking /\ checking' = TRUE
    /\ UNCHANGED <<hookVars, relayerUp, isOnline>>

CheckAnswered ==
    /\ checking /\ relayerUp
    /\ checking' = FALSE /\ isOnline' = TRUE
    /\ UNCHANGED <<hookVars, relayerUp>>

StatusKept == isOnline

StatusOffline == FALSE

CheckFails ==
    /\ checking
    /\ checking' = FALSE /\ isOnline' = StatusOffline
    /\ UNCHANGED <<hookVars, relayerUp>>

RelayerChanges ==
    /\ relayerUp' = ~relayerUp
    /\ UNCHANGED <<hookVars, checking, isOnline>>

DashboardNext ==
    \/ SwitchTab \/ Deposit \/ DepositEnds \/ Withdraw
    \/ CheckStatus \/ CheckAnswered \/ CheckFails \/ RelayerChanges

DashboardSpec == DashboardInit /\ [][DashboardNext]_dashboardVars

\* "When the relayer is unreachable the status reflects offline", useRelayer.ts:26: once it
\* stays away, the dashboard stops showing it online, for good, also with a poll under way,
\* and no note stays pending in the open form.
OfflineHandled ==
    <>[](~relayerUp) =>
        /\ <>[](~isOnline)
        /\ []<>(\A note \in DOMAIN formNotes : formNotes[note] # "pending")

DashboardFairness ==
    /\ WF_dashboardVars(DepositEnds)
    /\ WF_dashboardVars(CheckStatus)
    /\ WF_dashboardVars(CheckAnswered \/ CheckFails)

FairDashboardSpec == DashboardSpec /\ DashboardFairness
=============================================================================
