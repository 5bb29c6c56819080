--------------------------- MODULE MCPlayerStore ---------------------------
(***************************************************************************)
(* Instances of PlayerStore for TLC: songs a and b play, u has no playable *)
(* video.                                                                  *)
(***************************************************************************)
EXTENDS PlayerStore

CONSTANTS a, b, u

MCSongs == {a, b, u}
MCPlayable == {a, b}

\* The songs queued one by one.
OnlyA == {a}
OnlyB == {b}

\* A list with an unplayable head.
ShortLists == {<<u, a>>}
\* Another tab closes its player, or leaves its own queue.
OtherTabs ==
    {NoStored,
     [songIds |-> <<b>>, sources |-> <<"manual">>, index |-> 1, current |-> NoSong]}

QueueGestures == {"jump", "select", "add", "remove", "hide", "close", "refill"}
SessionGestures ==
    {"play", "video", "jump", "select", "add", "close", "shuffle", "dedupe", "loop"}
=============================================================================
