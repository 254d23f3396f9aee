------------------------- MODULE MCTerminalSessions -------------------------
(* Instances of TerminalSessions for TLC.                                    *)
EXTENDS TerminalSessions, TLC

CONSTANTS p1, p2, k1, k2

\* One controller on each process.
TwoHomes == k1 :> p1 @@ k2 :> p2
=============================================================================
