---------------------------- MODULE MCPlayHistory ----------------------------
(***************************************************************************)
(* Instances of PlayHistory for TLC: one or two songs, two playbacks and   *)
(* two events, at most two troubles, and not all of these at once.         *)
(***************************************************************************)
EXTENDS PlayHistory

CONSTANTS a, b

OneSong == {a}
TwoSongs == {a, b}

\* Plays, troubles and a second song add up to three.
SecondSong == b \in {player.song, offer.song, tracker.previous.song, history.active.song}
FewAtOnce ==
    player.sequence + spent.starts + spent.hides + spent.clears + (IF SecondSong THEN 1 ELSE 0) <= 3

\* The first play of a page has all the others after it.
CountedPlaysReachTheLog == CountedPlayReachesTheLog(1)
=============================================================================
