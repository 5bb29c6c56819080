--------------------------- MODULE AtomicLibrary ---------------------------
(***************************************************************************)
(* What the playlist library promises its tabs: there is one library;      *)
(* every request is carried out on it at one instant, in the order its tab *)
(* made it, and answered with what it did, or it is answered "failed" and  *)
(* has done nothing.  PlaylistLibrary implements this over a database, a   *)
(* lock some browsers do not have, and copies of the library in each tab.  *)
(***************************************************************************)
EXTENDS Sequences

CONSTANTS Tabs, Playlist,
          Outcome(_, _),          \* what a request does to the library it finds
          Nothing, Done, Failed   \* answers

VARIABLES lib,      \* the library
          pending,  \* the requests of each tab that have not been carried out
          outcome   \* what its last request did

vars == <<lib, pending, outcome>>

Init ==
    /\ lib \in Seq(Playlist)
    /\ pending = [t \in Tabs |-> <<>>]
    /\ outcome = [t \in Tabs |-> Nothing]

Submit(t) ==
    /\ pending'[t] # <<>>
    /\ pending' = [pending EXCEPT ![t] = Append(@, pending'[t][Len(pending'[t])])]
    /\ UNCHANGED <<lib, outcome>>

Take(t, answer) ==
    /\ pending' = [pending EXCEPT ![t] = Tail(@)]
    /\ outcome' = [outcome EXCEPT ![t] = answer]

Perform(t) ==
    /\ pending[t] # <<>>
    /\ LET result == Outcome(lib, Head(pending[t]))
       IN  /\ result.effect # "throws"
           /\ lib' = result.lib
           /\ Take(t, result.answer)

\* A request that fails, and a reload that finds nothing new.
PassOver(t) ==
    /\ pending[t] # <<>>
    /\ \/ Take(t, Failed)
       \/ Head(pending[t]).op = "load" /\ Take(t, Done)
    /\ UNCHANGED lib

Close(t) ==
    /\ pending' = [pending EXCEPT ![t] = <<>>]
    /\ outcome' = [outcome EXCEPT ![t] = Nothing]
    /\ UNCHANGED lib

Next == \E t \in Tabs : Submit(t) \/ Perform(t) \/ PassOver(t) \/ Close(t)

Spec == Init /\ [][Next]_vars
=============================================================================
