------------------------- MODULE MCPlaybackOwnership -------------------------
(***************************************************************************)
(* An instance of PlaybackOwnership for TLC.  The specification treats the *)
(* tabs alike, so that what holds of t1 and t2 holds of any two: the       *)
(* liveness properties are checked for them alone.                         *)
(***************************************************************************)
EXTENDS PlaybackOwnership

CONSTANTS t1, t2, t3

MCTabs == {t1, t2, t3}

\* PlayerIsSeen for one player and one other tab.
PlayerIsSeenByOther == SeenBy(t1, t2)

\* SilentOwnerForgotten for one tab.
SilentOwnerForgottenByTab == ForgottenBy(t2)
=============================================================================
