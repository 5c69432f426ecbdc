------------------------------ MODULE MCDaemons ------------------------------
(***************************************************************************)
(* A small instance of the two daemons: the relay and the scanner in       *)
(* polling mode.  They share no state and no step of one depends on the    *)
(* other, so each run has one of them move, chosen at the start, while the *)
(* other stays as it begins.                                               *)
(***************************************************************************)
EXTENDS RelayDaemon, Scanner

VARIABLE moving

allVars == <<moving, vars, scannerVars>>

DaemonsInit == moving \in {"relay", "scanner"} /\ Init /\ ScannerInit

DaemonsNext ==
    /\ UNCHANGED moving
    /\ \/ moving = "relay" /\ Next
       \/ moving = "scanner" /\ ScannerNext
    /\ moving # "relay" => UNCHANGED vars
    /\ moving # "scanner" => UNCHANGED scannerVars

\* The fairness of each daemon, while it is the one that moves.
DaemonsFairness ==
    /\ WF_vars(moving = "relay" /\ Start)
    /\ WF_vars(moving = "relay" /\ Tick)
    /\ WF_vars(moving = "relay" /\ Clock)
    /\ WF_vars(moving = "relay" /\ Exit)
    /\ WF_vars(moving = "relay" /\ (Submitted \/ SubmissionFails))
    /\ \A p \in Polls :
           /\ WF_scannerVars(moving = "scanner" /\ StartPoll(p))
           /\ SF_scannerVars(moving = "scanner" /\ Answered(p))
           /\ WF_scannerVars(moving = "scanner" /\ (WebhookRetried(p) \/ HandlersDone(p)))

DaemonsSpec == DaemonsInit /\ [][DaemonsNext]_allVars /\ DaemonsFairness
=============================================================================
