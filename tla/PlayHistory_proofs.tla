-------------------------- MODULE PlayHistory_proofs --------------------------
(***************************************************************************)
(* How plays are counted, for any songs and any number of plays: at most   *)
(* once, at the end, and never while an undo may still go on with them     *)
(* (unless a removed row was brought back between).                        *)
(*                                                                         *)
(* The argument follows the sequences: the play last finalized is not      *)
(* after the one the tracker watches, which is not after the player's, and *)
(* nothing after the play last finalized has been counted.  That a receipt *)
(* stays until its event is finalized follows the appends: an event has a  *)
(* receipt only after its one append was answered, and so never becomes    *)
(* active again behind the back of a recovery.                             *)
(***************************************************************************)
EXTENDS PlayHistory, SequenceFacts

-----------------------------------------------------------------------------
(* What the effects read and leave                                          *)

PlayType == [song : Songs \cup {NoSong}, sequence : Playbacks \cup {None}, position : Positions]

PlayerType == [song : Songs \cup {NoSong}, sequence : Playbacks, undoable : Playbacks \cup {None},
               position : Positions, seek : Positions, hydrated : BOOLEAN]

OfferType == [song : Songs \cup {NoSong}, sequence : Playbacks \cup {None}, position : Positions,
              counted : Nat, returned : BOOLEAN]

TrackerType == [previous : PlayType, finalized : Playbacks \cup {None}, counted : [Playbacks -> Nat]]

\* The order of the sequences in a tracker beside a player at playback n.
Ordered(t, n) ==
    /\ t.previous # NoPlay =>
          t.previous.song \in Songs /\ t.previous.sequence \in Playbacks /\ t.previous.sequence <= n
    /\ t.finalized # None =>
          /\ t.finalized <= n
          /\ t.previous # NoPlay => t.finalized <= t.previous.sequence
    /\ \A s \in Playbacks :
          /\ t.counted[s] <= 1
          /\ t.counted[s] > 0 => t.finalized # None /\ s <= t.finalized

\* What an effect is given and returns.
Legal(s, n) ==
    /\ s = [tracker |-> s.tracker, history |-> s.history]
    /\ s.tracker \in TrackerType
    /\ Ordered(s.tracker, n)

\* EndedPlaysCounted of a tracker beside a player ...
Ended(t, p) ==
    t.previous # NoPlay /\ p.song = NoSong /\ p.undoable # t.previous.sequence
    => t.finalized = t.previous.sequence

\* ... and what a step from one tracker to another may not count: a closed play
\* whose undo it leaves on offer.
NotResumed(t, u, p) ==
    \A s \in Playbacks : u.counted[s] > t.counted[s] /\ p.song = NoSong => p.undoable # s

LEMMA BoundsType == /\ 0 \in Positions /\ 0 \in Playbacks /\ None \notin Playbacks
                    /\ Playbacks \subseteq Nat /\ Positions \subseteq Nat
BY SongsAssumption, BoundsAssumption DEF Positions, Playbacks

\* finalizePreviousPlayback counts the watched play, unless it is the one
\* counted last.
LEMMA FinalizeKeeps ==
    ASSUME NEW s, NEW n \in Playbacks, Legal(s, n)
    PROVE  LET f == FinalizePreviousPlayback(s)
           IN  /\ Legal(f, n)
               /\ f.tracker.previous = s.tracker.previous
               /\ s.tracker.previous # NoPlay => f.tracker.finalized = s.tracker.previous.sequence
               /\ \A k \in Playbacks : f.tracker.counted[k] > s.tracker.counted[k]
                                       => k = s.tracker.previous.sequence
<1> DEFINE play == s.tracker.previous
           f == FinalizePreviousPlayback(s)
<1>1. CASE play = NoPlay \/ s.tracker.finalized = play.sequence
  <2>1. f = s
    BY <1>1 DEF FinalizePreviousPlayback
  <2>2. s.tracker.counted \in [Playbacks -> Nat]
    BY DEF Legal, TrackerType
  <2> QED
    BY <1>1, <2>1, <2>2
<1>2. CASE play # NoPlay /\ s.tracker.finalized # play.sequence
  <2> DEFINE t == [s.tracker EXCEPT !.finalized = play.sequence, !.counted[play.sequence] = @ + 1]
  <2>1. f = [tracker |-> t, history |-> FinalizeHistoryEntry(s.history, play)]
    BY <1>2 DEF FinalizePreviousPlayback
  <2>2. s.tracker \in TrackerType /\ play.sequence \in Playbacks /\ play.sequence <= n
    BY <1>2 DEF Legal, Ordered
  <2>3. /\ t \in TrackerType /\ t.previous = play /\ t.finalized = play.sequence
        /\ t.counted = [s.tracker.counted EXCEPT ![play.sequence] = @ + 1]
    <3>1. t = [s.tracker EXCEPT !.finalized = play.sequence,
                  !.counted = [s.tracker.counted EXCEPT ![play.sequence] = @ + 1]]
      BY <2>2 DEF TrackerType
    <3>2. [s.tracker.counted EXCEPT ![play.sequence] = @ + 1] \in [Playbacks -> Nat]
      BY <2>2 DEF TrackerType
    <3> HIDE DEF t
    <3> QED
      BY <2>2, <3>1, <3>2 DEF TrackerType
  <2>4. s.tracker.counted[play.sequence] = 0
    <3>1. s.tracker.finalized # None =>
             s.tracker.finalized \in Nat /\ s.tracker.finalized < play.sequence
      BY <1>2, <2>2, BoundsType DEF Legal, Ordered, TrackerType
    <3>2. s.tracker.counted[play.sequence] \in Nat
      BY <2>2 DEF TrackerType
    <3>3. ~(s.tracker.counted[play.sequence] > 0)
      BY <2>2, <3>1, BoundsType DEF Legal, Ordered
    <3> QED
      BY <3>2, <3>3
  <2>5. \A k \in Playbacks : /\ k # play.sequence => t.counted[k] = s.tracker.counted[k]
                             /\ k = play.sequence => t.counted[k] = 1
                             /\ s.tracker.counted[k] \in Nat
    BY <2>2, <2>3, <2>4 DEF TrackerType
  <2>6. \A k \in Playbacks : t.counted[k] <= 1 /\ (t.counted[k] > 0 => k <= play.sequence)
    <3> SUFFICES ASSUME NEW k \in Playbacks
                 PROVE  t.counted[k] <= 1 /\ (t.counted[k] > 0 => k <= play.sequence)
      OBVIOUS
    <3>1. CASE k = play.sequence
      BY <2>2, <2>5, <3>1, BoundsType
    <3>2. CASE k # play.sequence
      BY <1>2, <2>2, <2>5, <3>2, BoundsType DEF Legal, Ordered, TrackerType
    <3> QED
      BY <3>1, <3>2
  <2>7. Ordered(t, n)
    BY <1>2, <2>2, <2>3, <2>6, BoundsType, SMTT(20) DEF Ordered, Legal
  <2> HIDE DEF t
  <2>8. Legal(f, n)
    BY <2>1, <2>3, <2>7 DEF Legal
  <2>9. f.tracker = t
    BY <2>1
  <2>10. \A k \in Playbacks : f.tracker.counted[k] > s.tracker.counted[k] => k = play.sequence
    BY <2>5, <2>9
  <2> QED
    BY <2>3, <2>8, <2>9, <2>10
<1> QED
  BY <1>1, <1>2

\* Growth of two steps is growth of one of them.
LEMMA NotResumedTwice ==
    ASSUME NEW t \in TrackerType, NEW u \in TrackerType, NEW v \in TrackerType, NEW p,
           NotResumed(t, u, p), NotResumed(u, v, p)
    PROVE  NotResumed(t, v, p)
<1> SUFFICES ASSUME NEW s \in Playbacks, v.counted[s] > t.counted[s], p.song = NoSong
             PROVE  p.undoable # s
  BY DEF NotResumed
<1>1. t.counted[s] \in Nat /\ u.counted[s] \in Nat /\ v.counted[s] \in Nat
  BY DEF TrackerType
<1>2. u.counted[s] > t.counted[s] \/ v.counted[s] > u.counted[s]
  BY <1>1
<1> QED
  BY <1>2 DEF NotResumed

LEMMA NotResumedSame ==
    ASSUME NEW t \in TrackerType, NEW u \in TrackerType, NEW p, t.counted = u.counted
    PROVE  NotResumed(t, u, p)
<1>1. \A s \in Playbacks : t.counted[s] \in Nat /\ u.counted[s] = t.counted[s]
  BY DEF TrackerType
<1> QED
  BY <1>1 DEF NotResumed

\* A later playback leaves the order as it is.
LEMMA LegalLater ==
    ASSUME NEW s, NEW n \in Playbacks, NEW m \in Playbacks, n <= m, Legal(s, n)
    PROVE  Legal(s, m)
BY BoundsType DEF Legal, Ordered, TrackerType, PlayType

\* Watching the song that plays: its sequence is not before the watched one.
LEMMA WatchKeeps ==
    ASSUME NEW t \in TrackerType, NEW p \in PlayerType, p.song # NoSong, Ordered(t, p.sequence)
    PROVE  LET play == [song |-> p.song, sequence |-> p.sequence, position |-> p.position]
               u == [t EXCEPT !.previous = play]
           IN  u \in TrackerType /\ u.counted = t.counted /\ Ordered(u, p.sequence)
<1> DEFINE play == [song |-> p.song, sequence |-> p.sequence, position |-> p.position]
           u == [t EXCEPT !.previous = play]
<1>1. play \in PlayType /\ play.song \in Songs /\ play.sequence = p.sequence /\ p.sequence \in Playbacks
  BY DEF PlayType, PlayerType
<1>2. u \in TrackerType /\ u.previous = play /\ u.counted = t.counted /\ u.finalized = t.finalized
  BY <1>1 DEF TrackerType
<1> HIDE DEF u, play
<1>3. Ordered(u, p.sequence)
  <2>1. u.previous.song \in Songs /\ u.previous.sequence \in Playbacks
        /\ u.previous.sequence <= p.sequence
    <3>1. p.sequence \in Nat
      BY BoundsType DEF PlayerType
    <3>2. p.sequence <= p.sequence
      BY <3>1
    <3> QED
      BY <1>1, <1>2, <3>2
  <2>2. u.finalized # None => u.finalized <= p.sequence /\ u.finalized <= u.previous.sequence
    BY <1>1, <1>2 DEF Ordered
  <2>3. \A s \in Playbacks : u.counted[s] <= 1
                            /\ (u.counted[s] > 0 => u.finalized # None /\ s <= u.finalized)
    BY <1>2 DEF Ordered
  <2> QED
    BY <2>1, <2>2, <2>3 DEF Ordered
<1> QED
  BY <1>2, <1>3 DEF u, play

\* The effect of the song.
LEMMA SongEffectKeeps ==
    ASSUME NEW s, NEW p \in PlayerType, Legal(s, p.sequence)
    PROVE  LET e == SongEffect(p, s)
           IN  /\ Legal(e, p.sequence)
               /\ p.song = NoSong => Ended(e.tracker, p)
               /\ NotResumed(s.tracker, e.tracker, p)
<1> DEFINE e == SongEffect(p, s)
           f == FinalizePreviousPlayback(s)
<1>1. p.sequence \in Playbacks /\ s.tracker \in TrackerType
  BY DEF PlayerType, Legal
<1>2. /\ Legal(f, p.sequence) /\ f.tracker \in TrackerType
      /\ f.tracker.previous = s.tracker.previous
      /\ s.tracker.previous # NoPlay => f.tracker.finalized = s.tracker.previous.sequence
      /\ \A k \in Playbacks : f.tracker.counted[k] > s.tracker.counted[k]
                              => k = s.tracker.previous.sequence
  BY <1>1, FinalizeKeeps DEF Legal
<1> HIDE DEF f
<1>3. CASE p.song = NoSong /\ s.tracker.previous.sequence = p.undoable
  <2>1. e = s
    BY <1>3 DEF SongEffect
  <2>2. Ended(s.tracker, p)
    BY <1>3 DEF Ended
  <2> QED
    BY <1>1, <2>1, <2>2, NotResumedSame
<1>4. CASE p.song = NoSong /\ s.tracker.previous.sequence # p.undoable
  <2>1. e = f
    BY <1>4 DEF SongEffect, f
  <2>2. Ended(f.tracker, p) /\ NotResumed(s.tracker, f.tracker, p)
    BY <1>2, <1>4 DEF Ended, NotResumed
  <2> QED
    BY <1>2, <2>1, <2>2
<1>5. CASE p.song # NoSong /\ ~p.hydrated
  <2>1. e = s
    BY <1>5 DEF SongEffect
  <2> QED
    BY <1>1, <1>5, <2>1, NotResumedSame
<1>6. CASE p.song # NoSong /\ p.hydrated
  <2> DEFINE ended == IF SamePlay(s.tracker.previous, p) THEN s ELSE f
             play == [song |-> p.song, sequence |-> p.sequence, position |-> p.position]
             u == [ended.tracker EXCEPT !.previous = play]
  <2>1. /\ Legal(ended, p.sequence) /\ ended.tracker \in TrackerType
        /\ Ordered(ended.tracker, p.sequence)
    BY <1>2 DEF Legal
  <2>2. u \in TrackerType /\ Ordered(u, p.sequence)
    BY <1>6, <2>1, WatchKeeps
  <2>3. e = [tracker |-> u, history |-> IF p.sequence > 0
                                        THEN AddToHistory(ended.history, p.song, p.sequence)
                                        ELSE ended.history]
    BY <1>6 DEF SongEffect, f
  <2> HIDE DEF u
  <2>4. Legal(e, p.sequence)
    BY <2>2, <2>3 DEF Legal
  <2>5. NotResumed(s.tracker, e.tracker, p)
    BY <1>6 DEF NotResumed
  <2> QED
    BY <1>6, <2>4, <2>5
<1> QED
  BY <1>3, <1>4, <1>5, <1>6

\* The effect of the undo offer.
LEMMA UndoEffectKeeps ==
    ASSUME NEW s, NEW p \in PlayerType, Legal(s, p.sequence),
           Ended(s.tracker, p) \/ p.undoable = None
    PROVE  LET e == UndoEffect(p, s)
           IN  Legal(e, p.sequence) /\ Ended(e.tracker, p) /\ NotResumed(s.tracker, e.tracker, p)
<1> DEFINE e == UndoEffect(p, s)
           f == FinalizePreviousPlayback(s)
<1>1. p.sequence \in Playbacks /\ s.tracker \in TrackerType
  BY DEF PlayerType, Legal
<1>2. CASE p.undoable = None /\ p.song = NoSong
  <2>1. e = f
    BY <1>2 DEF UndoEffect
  <2>2. /\ Legal(f, p.sequence)
        /\ f.tracker.previous = s.tracker.previous
        /\ s.tracker.previous # NoPlay => f.tracker.finalized = s.tracker.previous.sequence
    BY <1>1, FinalizeKeeps
  <2>3. NotResumed(s.tracker, f.tracker, p)
    BY <1>2, BoundsType DEF NotResumed
  <2> QED
    BY <2>1, <2>2, <2>3 DEF Ended
<1>3. CASE ~(p.undoable = None /\ p.song = NoSong)
  <2>1. e = s /\ Ended(s.tracker, p)
    BY <1>3 DEF UndoEffect, Ended
  <2> QED
    BY <1>1, <2>1, NotResumedSame
<1> QED
  BY <1>2, <1>3

\* The effect of the position.
LEMMA PositionEffectKeeps ==
    ASSUME NEW s, NEW p \in PlayerType, Legal(s, p.sequence), Ended(s.tracker, p)
    PROVE  LET e == PositionEffect(p, s)
           IN  Legal(e, p.sequence) /\ Ended(e.tracker, p) /\ NotResumed(s.tracker, e.tracker, p)
<1> DEFINE e == PositionEffect(p, s)
<1>1. p.sequence \in Playbacks /\ s.tracker \in TrackerType /\ Ordered(s.tracker, p.sequence)
  BY DEF PlayerType, Legal
<1>2. CASE ~(p.song # NoSong /\ s.tracker.previous.song = p.song)
  <2>1. e = s
    BY <1>2 DEF PositionEffect
  <2> QED
    BY <1>1, <2>1, NotResumedSame
<1>3. CASE p.song # NoSong /\ s.tracker.previous.song = p.song
  <2> DEFINE position == IF p.seek > 0 THEN p.seek ELSE p.position
             play == [s.tracker.previous EXCEPT !.position = position]
             u == [s.tracker EXCEPT !.previous = play]
  <2>1. position \in Positions
    BY DEF PlayerType
  <2> HIDE DEF position
  <2>2. /\ play \in PlayType /\ play.song = s.tracker.previous.song
        /\ play.sequence = s.tracker.previous.sequence
    BY <1>1, <2>1 DEF TrackerType, PlayType
  <2>3. e = [tracker |-> u, history |-> s.history]
    <3>1. e = [s EXCEPT !.tracker.previous.position = position]
      BY <1>3 DEF PositionEffect, position
    <3>2. s = [tracker |-> s.tracker, history |-> s.history]
      BY DEF Legal
    <3>3. [s EXCEPT !.tracker.previous.position = position] = [s EXCEPT !.tracker = u]
      BY <1>1, <3>2 DEF TrackerType, PlayType
    <3> HIDE DEF u
    <3>4. [s EXCEPT !.tracker = u] = [tracker |-> u, history |-> s.history]
      BY <3>2
    <3> QED
      BY <3>1, <3>3, <3>4
  <2> HIDE DEF play
  <2>4. /\ u \in TrackerType /\ u.previous = play
        /\ u.counted = s.tracker.counted /\ u.finalized = s.tracker.finalized
    BY <1>1, <2>2 DEF TrackerType
  <2> HIDE DEF u
  <2>5. s.tracker.previous # NoPlay
    BY <1>3 DEF NoPlay
  <2>6. Ordered(u, p.sequence)
    BY <1>1, <2>2, <2>4, <2>5 DEF Ordered
  <2>7. Legal(e, p.sequence) /\ e.tracker = u
    BY <2>3, <2>4, <2>6 DEF Legal
  <2> QED
    BY <1>1, <1>3, <2>4, <2>7, NotResumedSame DEF Ended
<1> QED
  BY <1>2, <1>3

-----------------------------------------------------------------------------
(* The steps                                                                *)

\* While no removed row came back, a song that plays is of a later playback than
\* the offer o, and an offer that stands has seen no count since its close.
Offered(o, t, p) ==
    o # NoOffer /\ ~o.returned =>
        /\ o.sequence <= p.sequence
        /\ p.sequence = o.sequence =>
              /\ p.song = NoSong
              /\ p.undoable = o.sequence => t.counted[o.sequence] <= o.counted

Inv ==
    /\ player \in PlayerType
    /\ offer \in OfferType
    /\ offer # NoOffer => offer.song \in Songs /\ offer.sequence \in Playbacks
    /\ tracker \in TrackerType
    /\ Ordered(tracker, player.sequence)
    /\ Ended(tracker, player)
    /\ page = "gone" => tracker = NewTracker /\ offer = NoOffer
    /\ Offered(offer, tracker, player)

\* The part of Inv that a handler and the effects of its render are about, and
\* what they count.
Kept ==
    /\ player' \in PlayerType
    /\ tracker' \in TrackerType
    /\ Ordered(tracker', player'.sequence)
    /\ Ended(tracker', player')
    /\ NotResumed(tracker, tracker', player')

\* The effects of a render of q, if without a song an undo offer is only taken back.
LEMMA EffectsKeep ==
    ASSUME Inv, NEW q \in PlayerType, player.sequence <= q.sequence,
           q.song = NoSong /\ player.song = NoSong => q.undoable \in {None, player.undoable}
    PROVE  LET e == Effects(player, q, [tracker |-> tracker, history |-> history])
           IN  /\ Legal(e, q.sequence) /\ Ended(e.tracker, q)
               /\ NotResumed(tracker, e.tracker, q)
<1> DEFINE s == [tracker |-> tracker, history |-> history]
           changed == <<player.song, player.sequence, player.hydrated>>
                      # <<q.song, q.sequence, q.hydrated>>
           first == IF changed THEN SongEffect(q, s) ELSE s
           second == IF player.undoable # q.undoable THEN UndoEffect(q, first) ELSE first
           third == IF player.position # q.position THEN PositionEffect(q, second) ELSE second
<1>1. third = Effects(player, q, s)
  BY DEF Effects
<1>2. Legal(s, q.sequence) /\ s.tracker = tracker /\ tracker \in TrackerType
  <2>1. Legal(s, player.sequence) /\ player.sequence \in Playbacks /\ q.sequence \in Playbacks
    BY DEF Legal, Inv, PlayerType
  <2> QED
    BY <2>1, LegalLater DEF Inv
<1> HIDE DEF s
<1>3. /\ Legal(first, q.sequence) /\ NotResumed(tracker, first.tracker, q)
      /\ Ended(first.tracker, q) \/ (player.undoable # q.undoable /\ q.undoable = None)
  <2>1. CASE changed
    BY <1>2, <2>1, SongEffectKeeps DEF Ended
  <2>2. CASE ~changed
    <3>1. first = s /\ q.song = player.song
      BY <2>2
    <3>2. Ended(tracker, q) \/ (player.undoable # q.undoable /\ q.undoable = None)
      BY <3>1 DEF Ended, Inv
    <3> QED
      BY <1>2, <3>1, <3>2, NotResumedSame
  <2> QED
    BY <2>1, <2>2
<1> HIDE DEF first
<1>4. first.tracker \in TrackerType
  BY <1>3 DEF Legal
<1>5. Legal(second, q.sequence) /\ Ended(second.tracker, q) /\ NotResumed(tracker, second.tracker, q)
  <2>1. CASE player.undoable # q.undoable
    <3>1. second = UndoEffect(q, first)
      BY <2>1
    <3>2. Legal(second, q.sequence) /\ Ended(second.tracker, q)
          /\ NotResumed(first.tracker, second.tracker, q)
      BY <1>3, <3>1, UndoEffectKeeps
    <3>3. second.tracker \in TrackerType
      BY <3>2 DEF Legal
    <3> QED
      BY <1>2, <1>3, <1>4, <3>2, <3>3, NotResumedTwice
  <2>2. CASE player.undoable = q.undoable
    BY <1>3, <2>2
  <2> QED
    BY <2>1, <2>2
<1> HIDE DEF second
<1>6. second.tracker \in TrackerType
  BY <1>5 DEF Legal
<1>7. Legal(third, q.sequence) /\ Ended(third.tracker, q) /\ NotResumed(tracker, third.tracker, q)
  <2>1. CASE player.position # q.position
    <3>1. third = PositionEffect(q, second)
      BY <2>1
    <3>2. Legal(third, q.sequence) /\ Ended(third.tracker, q)
          /\ NotResumed(second.tracker, third.tracker, q)
      BY <1>5, <3>1, PositionEffectKeeps
    <3>3. third.tracker \in TrackerType
      BY <3>2 DEF Legal
    <3> QED
      BY <1>2, <1>5, <1>6, <3>2, <3>3, NotResumedTwice
  <2>2. CASE player.position = q.position
    BY <1>5, <2>2
  <2> QED
    BY <2>1, <2>2
<1> QED
  BY <1>1, <1>7 DEF s

\* A handler that makes the player q, its render and effects.
LEMMA RenderedKeeps ==
    ASSUME Inv, NEW q \in PlayerType, player.sequence <= q.sequence,
           q.song = NoSong /\ player.song = NoSong => q.undoable \in {None, player.undoable},
           Rendered(q)
    PROVE  Kept
<1> DEFINE e == Effects(player, q, [tracker |-> tracker, history |-> history])
<1>1. Legal(e, q.sequence) /\ Ended(e.tracker, q) /\ NotResumed(tracker, e.tracker, q)
  BY EffectsKeep
<1>2. tracker' = e.tracker /\ player' = [q EXCEPT !.position = IF q.song = NoSong THEN 0 ELSE @]
  BY DEF Rendered
<1> HIDE DEF e
<1>3. /\ player' \in PlayerType /\ player'.song = q.song
      /\ player'.sequence = q.sequence /\ player'.undoable = q.undoable
  BY <1>2, BoundsType DEF PlayerType
<1> QED
  BY <1>1, <1>2, <1>3 DEF Kept, Legal, Ended, NotResumed

\* What every step establishes beside Kept.
OfferKept ==
    /\ offer' \in OfferType
    /\ offer' # NoOffer => offer'.song \in Songs /\ offer'.sequence \in Playbacks
    /\ Offered(offer', tracker', player')
GoneKept == page' = "gone" => tracker' = NewTracker /\ offer' = NoOffer

StepKeeps == Kept /\ OfferKept /\ GoneKept

LEMMA NoOfferType == NoOffer \in OfferType
BY BoundsType DEF NoOffer, OfferType

\* An offer stands with the player it is made for, whatever is counted ...
LEMMA OfferStays ==
    ASSUME Inv, NEW t \in TrackerType, NEW p \in PlayerType, NotResumed(tracker, t, p),
           p.sequence = player.sequence, player.song = NoSong => p.song = NoSong,
           player.song = NoSong => p.undoable \in {None, player.undoable}
    PROVE  Offered(offer, t, p)
<1> SUFFICES ASSUME offer # NoOffer, ~offer.returned, p.sequence = offer.sequence
             PROVE  /\ p.song = NoSong
                    /\ p.undoable = offer.sequence => t.counted[offer.sequence] <= offer.counted
  BY DEF Offered, Inv
<1>1. /\ offer.sequence \in Playbacks /\ offer.sequence # None /\ offer.counted \in Nat
      /\ t.counted[offer.sequence] \in Nat /\ tracker.counted[offer.sequence] \in Nat
  BY BoundsType DEF Inv, OfferType, TrackerType
<1>2. /\ player.song = NoSong
      /\ player.undoable = offer.sequence => tracker.counted[offer.sequence] <= offer.counted
  BY DEF Inv, Offered
<1>3. ~(t.counted[offer.sequence] > tracker.counted[offer.sequence])
      \/ p.undoable # offer.sequence
  BY <1>1, <1>2 DEF NotResumed
<1> QED
  BY <1>1, <1>2, <1>3

\* ... and falls behind a player that goes on to another playback.
LEMMA OfferBehind ==
    ASSUME Inv, NEW t, NEW p \in PlayerType, player.sequence < p.sequence
    PROVE  Offered(offer, t, p)
<1>1. offer # NoOffer => offer.sequence \in Nat
  BY BoundsType DEF Inv
<1>2. player.sequence \in Nat /\ p.sequence \in Nat
  BY BoundsType DEF Inv, PlayerType
<1> QED
  BY <1>1, <1>2 DEF Offered, Inv

LEMMA PlayerFields ==
    ASSUME Inv
    PROVE  /\ player.song \in Songs \cup {NoSong} /\ player.sequence \in Playbacks
           /\ player.undoable \in Playbacks \cup {None} /\ player.position \in Positions
           /\ player.seek \in Positions /\ player.hydrated \in BOOLEAN
           /\ player.sequence <= player.sequence
           /\ player.sequence < MaxSequence =>
                 /\ player.sequence + 1 \in Playbacks
                 /\ player.sequence < player.sequence + 1
                 /\ player.sequence <= player.sequence + 1
BY BoundsAssumption DEF Inv, PlayerType, Playbacks

\* A handler that makes the player q and leaves the page open and the offer as
\* it was: of the same playback, or of a later one.
LEMMA PlainHandler ==
    ASSUME Inv, page = "open", UNCHANGED <<page, offer>>, NEW q \in PlayerType, Rendered(q),
           q.song = NoSong /\ player.song = NoSong => q.undoable \in {None, player.undoable},
           \/ q.sequence = player.sequence /\ (player.song = NoSong => q.song = NoSong)
           \/ player.sequence < q.sequence
    PROVE  StepKeeps
<1>1. player.sequence <= q.sequence
  <2>1. player.sequence \in Nat /\ q.sequence \in Nat
    BY BoundsType DEF Inv, PlayerType
  <2> QED
    BY <2>1
<1>2. Kept
  BY <1>1, RenderedKeeps
<1>3. player' = [q EXCEPT !.position = IF q.song = NoSong THEN 0 ELSE @]
  BY DEF Rendered
<1>4. /\ player'.song = q.song /\ player'.sequence = q.sequence
      /\ player'.undoable = q.undoable
  BY <1>3 DEF PlayerType
<1>5. Offered(offer, tracker', player')
  <2>1. CASE player.sequence < q.sequence
    BY <1>2, <1>4, <2>1, OfferBehind DEF Kept
  <2>2. CASE q.sequence = player.sequence /\ (player.song = NoSong => q.song = NoSong)
    BY <1>2, <1>4, <2>2, OfferStays DEF Kept
  <2> QED
    BY <2>1, <2>2
<1> QED
  BY <1>2, <1>5 DEF StepKeeps, OfferKept, GoneKept, Inv

LEMMA PlayingKeeps ==
    ASSUME Inv,
           \/ Hydrate \/ ChangeVideo \/ Listen \/ ShowCued \/ Resume \/ Close \/ RemoveOnlyRow
           \/ \E song \in Songs : PlaySong(song)
    PROVE  StepKeeps
<1>1. CASE Hydrate
  <2> DEFINE q == [player EXCEPT !.hydrated = TRUE]
  <2>1. /\ q \in PlayerType /\ q.sequence = player.sequence /\ q.undoable = player.undoable
        /\ q.song = player.song
    BY DEF Inv, PlayerType
  <2> QED
    BY <1>1, <2>1, PlayerFields, PlainHandler DEF Hydrate
<1>2. CASE ChangeVideo
  <2>1. PICK position \in {0, player.position} :
           Rendered([player EXCEPT !.sequence = @ + 1, !.position = position])
    BY <1>2 DEF ChangeVideo
  <2> DEFINE q == [player EXCEPT !.sequence = @ + 1, !.position = position]
  <2>2. /\ q \in PlayerType /\ q.sequence = player.sequence + 1
        /\ q.undoable = player.undoable
    BY <1>2, PlayerFields, BoundsType DEF Inv, PlayerType, ChangeVideo
  <2> QED
    BY <1>2, <2>1, <2>2, PlayerFields, PlainHandler DEF ChangeVideo
<1>3. CASE Listen
  <2> DEFINE q == [player EXCEPT !.position = @ + 1]
  <2>1. player.position + 1 \in Positions
    BY <1>3, PlayerFields, BoundsAssumption DEF Listen, Positions
  <2>2. q \in PlayerType /\ q.sequence = player.sequence /\ q.undoable = player.undoable
    BY <2>1 DEF Inv, PlayerType
  <2> QED
    BY <1>3, <2>2, PlayerFields, PlainHandler DEF Listen
<1>4. CASE ShowCued
  <2> DEFINE q == [player EXCEPT !.position = 0]
  <2>1. q \in PlayerType /\ q.sequence = player.sequence /\ q.undoable = player.undoable
    BY BoundsType DEF Inv, PlayerType
  <2> QED
    BY <1>4, <2>1, PlayerFields, PlainHandler DEF ShowCued
<1>5. CASE Resume
  <2> DEFINE q == [player EXCEPT !.position = player.seek, !.seek = 0]
  <2>1. q \in PlayerType /\ q.sequence = player.sequence /\ q.undoable = player.undoable
    BY BoundsType DEF Inv, PlayerType
  <2> QED
    BY <1>5, <2>1, PlayerFields, PlainHandler DEF Resume
<1>6. CASE Close
  <2> DEFINE q == [Closed EXCEPT !.undoable = None]
  <2>1. q \in PlayerType /\ q.sequence = player.sequence
    BY BoundsType DEF Inv, PlayerType, Closed
  <2> QED
    BY <1>6, <2>1, PlayerFields, PlainHandler DEF Close
<1>7. ASSUME NEW song \in Songs, PlaySong(song)
      PROVE  StepKeeps
  <2> DEFINE q == [player EXCEPT !.song = song, !.sequence = @ + 1, !.position = 0, !.seek = 0]
  <2>1. q \in PlayerType /\ q.sequence = player.sequence + 1 /\ q.undoable = player.undoable
    BY <1>7, PlayerFields, BoundsType DEF Inv, PlayerType, PlaySong
  <2> QED
    BY <1>7, <2>1, PlayerFields, PlainHandler DEF PlaySong
<1>8. CASE RemoveOnlyRow
  <2> DEFINE q == [player EXCEPT !.song = NoSong]
  <2>1. q \in PlayerType /\ q.sequence = player.sequence /\ q.undoable = player.undoable
    BY DEF Inv, PlayerType
  <2> QED
    BY <1>8, <2>1, PlayerFields, PlainHandler DEF RemoveOnlyRow
<1> QED
  BY <1>1, <1>2, <1>3, <1>4, <1>5, <1>6, <1>7, <1>8

\* The undo of a removal marks the offer, of which nothing is said then.
LEMMA RestoreItemKeeps ==
    ASSUME Inv, NEW song \in Songs, RestoreQueueItem(song)
    PROVE  StepKeeps
<1> DEFINE q == [player EXCEPT !.song = song]
<1>1. q \in PlayerType /\ q.sequence = player.sequence /\ q.song # NoSong
  BY SongsAssumption DEF Inv, PlayerType
<1>2. Kept
  BY <1>1, PlayerFields, RenderedKeeps DEF RestoreQueueItem
<1>3. CASE offer = NoOffer
  <2>1. offer' = NoOffer
    BY <1>3 DEF RestoreQueueItem
  <2> QED
    BY <1>2, <2>1, NoOfferType DEF StepKeeps, OfferKept, Offered, GoneKept, RestoreQueueItem
<1>4. CASE offer # NoOffer
  <2>1. offer' = [offer EXCEPT !.returned = TRUE]
    BY <1>4 DEF RestoreQueueItem
  <2>2. /\ offer' \in OfferType /\ offer'.returned
        /\ offer'.song = offer.song /\ offer'.sequence = offer.sequence
    BY <2>1 DEF Inv, OfferType
  <2>3. OfferKept
    BY <1>4, <2>2 DEF OfferKept, Offered, Inv
  <2> QED
    BY <1>2, <2>3 DEF StepKeeps, GoneKept, RestoreQueueItem
<1> QED
  BY <1>3, <1>4

LEMMA UndoableKeeps ==
    ASSUME Inv, CloseWithUndo \/ ToastGoes \/ UndoClose
    PROVE  StepKeeps
<1>1. CASE CloseWithUndo
  <2> DEFINE q == Settled([Closed EXCEPT !.undoable = player.sequence])
  <2>1. /\ q \in PlayerType /\ q.sequence = player.sequence /\ q.song = NoSong
    BY PlayerFields, BoundsType DEF Inv, PlayerType, Closed, Settled
  <2>2. Rendered(q) /\ player.song # NoSong
    BY <1>1 DEF CloseWithUndo
  <2> HIDE DEF q
  <2>3. Kept
    BY <2>1, <2>2, PlayerFields, RenderedKeeps
  <2>4. /\ offer'.song = player.song /\ offer'.sequence = player.sequence
        /\ offer'.counted = tracker.counted[player.sequence] /\ offer'.returned = FALSE
        /\ offer' \in OfferType
    BY <1>1, PlayerFields DEF CloseWithUndo, OfferType, Inv, TrackerType
  <2>5. player'.song = NoSong /\ player'.sequence = player.sequence
    BY <2>1, <2>2 DEF Rendered, PlayerType
  <2>6. player'.undoable = player.sequence
        => tracker'.counted[player.sequence] <= tracker.counted[player.sequence]
    <3>1. tracker'.counted[player.sequence] \in Nat /\ tracker.counted[player.sequence] \in Nat
      BY <2>3, PlayerFields DEF Kept, Inv, TrackerType
    <3> QED
      BY <2>3, <2>5, <3>1, PlayerFields DEF Kept, NotResumed
  <2>7. OfferKept
    BY <2>2, <2>4, <2>5, <2>6, PlayerFields DEF OfferKept, Offered
  <2> QED
    BY <1>1, <2>3, <2>7 DEF StepKeeps, GoneKept, CloseWithUndo
<1>2. CASE ToastGoes
  <2> DEFINE q == Settled(player)
  <2>1. q \in PlayerType /\ q.sequence = player.sequence /\ q.undoable \in {None, player.undoable}
    BY DEF Inv, PlayerType, Settled
  <2>2. Kept
    BY <1>2, <2>1, PlayerFields, RenderedKeeps DEF ToastGoes
  <2> QED
    BY <1>2, <2>2, NoOfferType DEF StepKeeps, OfferKept, Offered, GoneKept, ToastGoes
<1>3. CASE UndoClose
  <2> DEFINE counted == player.undoable # offer.sequence
  <2>1. PICK resumeAt \in {0, offer.position} :
           Rendered([player EXCEPT !.song = offer.song, !.undoable = None,
                                   !.seek = resumeAt, !.position = resumeAt,
                                   !.sequence = IF counted THEN @ + 1 ELSE @])
    BY <1>3 DEF UndoClose
  <2> DEFINE q == [player EXCEPT !.song = offer.song, !.undoable = None,
                                 !.seek = resumeAt, !.position = resumeAt,
                                 !.sequence = IF counted THEN @ + 1 ELSE @]
  <2>2. /\ offer.song \in Songs /\ offer.position \in Positions
        /\ counted => player.sequence < MaxSequence
    BY <1>3 DEF UndoClose, Inv, OfferType
  <2>3. q \in PlayerType /\ player.sequence <= q.sequence /\ q.song = offer.song
    BY <2>2, PlayerFields, BoundsType DEF Inv, PlayerType
  <2>4. Kept
    BY <2>1, <2>2, <2>3, SongsAssumption, RenderedKeeps
  <2> QED
    BY <1>3, <2>4, NoOfferType DEF StepKeeps, OfferKept, Offered, GoneKept, UndoClose
<1> QED
  BY <1>1, <1>2, <1>3

LEMMA PlayerStays ==
    ASSUME Inv, UNCHANGED <<player, tracker>>
    PROVE  Kept
BY NotResumedSame DEF Kept, Inv, Ended

\* pagehide counts what the tracker watches and takes back its undo offer.
LEMMA PageHideKeeps ==
    ASSUME Inv, PageHide
    PROVE  StepKeeps
<1> DEFINE s == [tracker |-> tracker, history |-> history]
           f == FinalizePreviousPlayback(s)
<1>1. Legal(s, player.sequence) /\ s.tracker = tracker
  BY DEF Legal, Inv
<1>2. /\ Legal(f, player.sequence) /\ f.tracker.previous = tracker.previous
      /\ tracker.previous # NoPlay => f.tracker.finalized = tracker.previous.sequence
      /\ \A k \in Playbacks : f.tracker.counted[k] > tracker.counted[k]
                              => k = tracker.previous.sequence
  BY <1>1, PlayerFields, FinalizeKeeps
<1>3. /\ tracker' = f.tracker
      /\ player' = [player EXCEPT !.undoable =
             IF player.song = NoSong /\ @ = tracker.previous.sequence THEN None ELSE @]
      /\ page' = "hidden" /\ offer' = offer
  BY DEF PageHide
<1> HIDE DEF f
<1>4. /\ player' \in PlayerType /\ player'.song = player.song
      /\ player'.sequence = player.sequence
      /\ player.song = NoSong => player'.undoable = None
                                \/ player'.undoable # tracker.previous.sequence
      /\ player'.undoable \in {None, player.undoable}
  BY <1>3 DEF Inv, PlayerType
<1>5. Kept
  BY <1>2, <1>3, <1>4, BoundsType DEF Kept, Legal, Ended, NotResumed
<1>6. Offered(offer, tracker', player')
  BY <1>4, <1>5, OfferStays DEF Kept
<1> QED
  BY <1>3, <1>5, <1>6 DEF StepKeeps, OfferKept, GoneKept, Inv

\* A page that goes forgets what it counted, and a page that starts has a new tracker.
LEMMA NewTrackerKeeps ==
    ASSUME Inv, tracker' = NewTracker, NEW song \in Songs \cup {NoSong}, player' = Restored(song)
    PROVE  Kept
<1>1. NewTracker \in TrackerType /\ NewTracker.previous = NoPlay /\ NewTracker.finalized = None
  BY BoundsType DEF NewTracker, TrackerType, PlayType, NoPlay
<1>2. \A s \in Playbacks : NewTracker.counted[s] = 0 /\ tracker.counted[s] \in Nat
  BY DEF NewTracker, Inv, TrackerType
<1>3. player' \in PlayerType
  BY BoundsType DEF Restored, PlayerType
<1>4. Ordered(NewTracker, player'.sequence)
  BY <1>1, <1>2 DEF Ordered
<1> QED
  BY <1>1, <1>2, <1>3, <1>4 DEF Kept, Ended, NotResumed

LEMMA LifecycleKeeps ==
    ASSUME Inv, Lifecycle
    PROVE  StepKeeps
<1>1. CASE PageHide
  BY <1>1, PageHideKeeps
<1>2. CASE Return
  BY <1>2, PlayerStays DEF Return, StepKeeps, OfferKept, GoneKept, Inv
<1>3. CASE Leave
  BY <1>3, NewTrackerKeeps, NoOfferType DEF Leave, StepKeeps, OfferKept, Offered, GoneKept
<1>4. ASSUME NEW song \in Songs \cup {NoSong}, Start(song)
      PROVE  StepKeeps
  BY <1>4, NewTrackerKeeps DEF Start, StepKeeps, OfferKept, Offered, GoneKept, Inv
<1> QED
  BY <1>1, <1>2, <1>3, <1>4 DEF Lifecycle, Unload, Crash

LEMMA NextKeeps ==
    ASSUME Inv, [Next]_vars
    PROVE  StepKeeps
<1>1. CASE Gesture
  <2>1. CASE ClearHistory
    BY <2>1, PlayerStays DEF ClearHistory, StepKeeps, OfferKept, GoneKept, Inv
  <2> QED
    BY <1>1, <2>1, PlayingKeeps, RestoreItemKeeps, UndoableKeeps DEF Gesture
<1>2. CASE Commit \/ Recovery \/ UNCHANGED vars
  <2>1. UNCHANGED <<page, player, offer, tracker>>
    BY <1>2 DEF Commit, CommitAppend, CommitFinalize, CommitClear, vars, Recovery,
                RecoverReceipts, ReadReceipt, ApplyReceipt, RemoveReceipt, StopRecovery
  <2> QED
    BY <2>1, PlayerStays DEF StepKeeps, OfferKept, GoneKept, Inv
<1>3. CASE Lifecycle
  BY <1>3, LifecycleKeeps
<1> QED
  BY <1>1, <1>2, <1>3 DEF Next

\* The order of the sequences holds in every reachable state.
THEOREM Invariance == Spec => []Inv
<1>1. Init => Inv
  <2> SUFFICES ASSUME Init PROVE Inv
    OBVIOUS
  <2>1. NewTracker \in TrackerType /\ NewTracker.previous = NoPlay /\ NewTracker.finalized = None
    BY BoundsType DEF NewTracker, TrackerType, PlayType, NoPlay
  <2>2. \A s \in Playbacks : NewTracker.counted[s] = 0
    BY DEF NewTracker
  <2>3. player \in PlayerType
    BY BoundsType DEF Init, Restored, PlayerType
  <2>4. Ordered(tracker, player.sequence)
    BY <2>1, <2>2 DEF Ordered, Init
  <2> QED
    BY <2>1, <2>3, <2>4, NoOfferType DEF Init, Inv, Ended, Offered
<1>2. Inv /\ [Next]_vars => Inv'
  <2> SUFFICES ASSUME Inv, [Next]_vars PROVE Inv'
    OBVIOUS
  <2> QED
    BY NextKeeps DEF StepKeeps, Kept, OfferKept, GoneKept, Inv, Ended
<1> QED
  BY <1>1, <1>2, PTL DEF Spec

\* No playback is counted twice, whatever it is closed, undone, hidden and
\* brought back (finalizedPlaybackSequenceRef).
THEOREM CountedOnce == Spec => []PlaybackCountedOnce
<1>1. Inv => PlaybackCountedOnce
  BY DEF Inv, Ordered, PlaybackCountedOnce
<1> QED
  BY <1>1, Invariance, PTL

\* A play that is over is counted, unless its close can still be undone (the
\* effects of the song and of the undo offer).
THEOREM EndedCounted == Spec => []EndedPlaysCounted
<1>1. Inv => EndedPlaysCounted
  BY DEF Inv, Ended, EndedPlaysCounted
<1> QED
  BY <1>1, Invariance, PTL

\* An undo goes on with a closed play only while nothing counted it since its
\* close, unless a removed row came back between: for any number of plays, closes
\* and undos (the effects, pagehide and the toast's subscription).
THEOREM OffersStandUncounted == Spec => []OfferedPlaysUncounted
<1>1. Inv => OfferedPlaysUncounted
  <2> SUFFICES ASSUME Inv, Resumable, ~offer.returned
               PROVE  ~CountedSinceClose
    BY DEF OfferedPlaysUncounted
  <2>1. tracker.counted[offer.sequence] <= offer.counted
    BY DEF Inv, Offered, Resumable
  <2>2. offer.counted \in Nat /\ tracker.counted[offer.sequence] \in Nat
    BY DEF Inv, Resumable, OfferType, TrackerType
  <2> QED
    BY <2>1, <2>2 DEF CountedSinceClose
<1> QED
  BY <1>1, Invariance, PTL

-----------------------------------------------------------------------------
(* Receipts                                                                 *)

IsHistory(h) ==
    /\ h = [active |-> h.active, pending |-> h.pending, writes |-> h.writes,
            created |-> h.created]
    /\ h.active = [event |-> h.active.event, known |-> h.active.known,
                   song |-> h.active.song, sequence |-> h.active.sequence]
    /\ h.active.known \in BOOLEAN
    /\ IsSequence(h.writes) /\ h.created \in Nat

\* The events whose append is under way.
Appends(h) == {i \in DOMAIN h.writes : h.writes[i].kind = "append"}
UnderWay(h) == {h.writes[i].event : i \in Appends(h)}

\* An event is appended once, and known to its page only from then on.
HistoryOK(h) ==
    /\ IsHistory(h)
    /\ UnderWay(h) \subseteq 1 .. h.created
    /\ \A i, j \in Appends(h) : h.writes[i].event = h.writes[j].event => i = j
    /\ h.active.known => h.active.event \in 1 .. h.created /\ h.active.event \notin UnderWay(h)

\* What handlers and effects do to the history: only new events come under way.
Grows(h, g) ==
    /\ HistoryOK(g) /\ h.created <= g.created
    /\ \A e \in UnderWay(g) : e \in UnderWay(h) \/ e > h.created

LEMMA GrowsSame == ASSUME NEW h, HistoryOK(h) PROVE Grows(h, h)
BY DEF Grows, HistoryOK, IsHistory

LEMMA GrowsTwice ==
    ASSUME NEW h, NEW g, NEW k, HistoryOK(h), Grows(h, g), Grows(g, k)
    PROVE  Grows(h, k)
<1>1. h.created \in Nat /\ g.created \in Nat /\ k.created \in Nat /\ UnderWay(k) \subseteq Nat
  BY DEF Grows, HistoryOK, IsHistory
<1> QED
  BY <1>1 DEF Grows

\* A write that appends no event.
LEMMA WriteComes ==
    ASSUME NEW h, NEW g, HistoryOK(h), NEW w, w.kind # "append",
           g.writes = Append(h.writes, w), IsHistory(g), g.active = h.active,
           g.created = h.created
    PROVE  Grows(h, g)
<1>1. /\ DOMAIN h.writes = 1 .. Len(h.writes) /\ Len(h.writes) \in Nat
      /\ DOMAIN g.writes = 1 .. Len(h.writes) + 1
      /\ \A i \in DOMAIN h.writes : g.writes[i] = h.writes[i]
      /\ g.writes[Len(h.writes) + 1] = w
  BY QueueGrows, SequenceDomain DEF HistoryOK, IsHistory
<1>2. Appends(g) = Appends(h) /\ \A i \in Appends(h) : g.writes[i].event = h.writes[i].event
  BY <1>1 DEF Appends
<1>3. UnderWay(g) = UnderWay(h)
  BY <1>2 DEF UnderWay
<1>4. HistoryOK(g) /\ g.created \in Nat
  BY <1>2, <1>3 DEF HistoryOK, IsHistory
<1> QED
  BY <1>3, <1>4 DEF Grows

\* Nothing becomes known or under way when other things change.
LEMMA WritesStay ==
    ASSUME NEW h, NEW g, HistoryOK(h), IsHistory(g), g.writes = h.writes, g.active = h.active,
           g.created = h.created
    PROVE  Grows(h, g)
BY DEF Grows, HistoryOK, UnderWay, Appends, IsHistory

LEMMA FinalizeGrows ==
    ASSUME NEW h, HistoryOK(h), NEW play
    PROVE  Grows(h, FinalizeHistoryEntry(h, play))
<1> DEFINE g == FinalizeHistoryEntry(h, play)
           w == Write("finalize", h.active.event, play.position)
<1>1. CASE g = h
  BY <1>1, GrowsSame
<1>2. CASE g = [h EXCEPT !.writes = Append(@, w)]
  <2>1. w.kind = "finalize"
    BY DEF Write
  <2>2. h = [active |-> h.active, pending |-> h.pending, writes |-> h.writes,
             created |-> h.created]
    BY DEF HistoryOK, IsHistory
  <2> HIDE DEF w, g
  <2>3. /\ g.writes = Append(h.writes, w) /\ g.active = h.active /\ g.created = h.created
        /\ g = [active |-> g.active, pending |-> g.pending, writes |-> g.writes,
                created |-> g.created]
    BY <1>2, <2>2
  <2>4. IsHistory(g)
    BY <2>3, QueueGrows DEF HistoryOK, IsHistory
  <2>5. Grows(h, g)
    BY <2>1, <2>3, <2>4, WriteComes
  <2> QED
    BY <2>5 DEF g
<1>3. CASE g = [h EXCEPT !.pending[h.active.event] = play.position]
  <2>1. h = [active |-> h.active, pending |-> h.pending, writes |-> h.writes,
             created |-> h.created]
    BY DEF HistoryOK, IsHistory
  <2> HIDE DEF g
  <2>2. /\ g.writes = h.writes /\ g.active = h.active /\ g.created = h.created
        /\ g = [active |-> g.active, pending |-> g.pending, writes |-> g.writes,
                created |-> g.created]
    BY <1>3, <2>1
  <2>3. IsHistory(g)
    BY <2>2 DEF HistoryOK, IsHistory
  <2>4. Grows(h, g)
    BY <2>2, <2>3, WritesStay
  <2> QED
    BY <2>4 DEF g
<1> QED
  BY <1>1, <1>2, <1>3 DEF FinalizeHistoryEntry

\* A play that begins puts an event under way that has no receipt yet.
LEMMA AddGrows ==
    ASSUME NEW h, HistoryOK(h), NEW song, NEW sequence
    PROVE  Grows(h, AddToHistory(h, song, sequence))
<1> DEFINE g == AddToHistory(h, song, sequence)
           event == h.created + 1
           w == Write("append", event, 0)
           play == [event |-> event, known |-> FALSE, song |-> song, sequence |-> sequence]
<1>1. CASE h.active.sequence = sequence
  BY <1>1, GrowsSame DEF AddToHistory
<1>2. CASE h.active.sequence # sequence
  <2>1. g = [h EXCEPT !.created = event, !.writes = Append(@, w), !.active = play]
    BY <1>2 DEF AddToHistory
  <2>2. w.kind = "append" /\ w.event = event
    BY DEF Write
  <2>3. h = [active |-> h.active, pending |-> h.pending, writes |-> h.writes,
             created |-> h.created]
    BY DEF HistoryOK, IsHistory
  <2>4. play.known = FALSE
        /\ play = [event |-> play.event, known |-> play.known, song |-> play.song,
                   sequence |-> play.sequence]
    OBVIOUS
  <2>5. h.created \in Nat /\ event \in Nat /\ event > h.created /\ h.created <= event
        /\ \A e \in 1 .. h.created : e # event /\ e \in 1 .. event
    BY DEF HistoryOK, IsHistory
  <2> HIDE DEF w, g, play, event
  <2>6. /\ g.writes = Append(h.writes, w) /\ g.active = play /\ g.created = event
        /\ g = [active |-> g.active, pending |-> g.pending, writes |-> g.writes,
                created |-> g.created]
    BY <2>1, <2>3
  <2>7. IsHistory(g)
    <3>1. IsSequence(g.writes)
      BY <2>6, QueueGrows DEF HistoryOK, IsHistory
    <3>2. g.active.known \in BOOLEAN
      BY <2>4, <2>6
    <3> QED
      BY <2>4, <2>5, <2>6, <3>1, <3>2 DEF IsHistory
  <2>8. /\ DOMAIN h.writes = 1 .. Len(h.writes) /\ Len(h.writes) \in Nat
        /\ DOMAIN g.writes = 1 .. Len(h.writes) + 1
        /\ \A i \in DOMAIN h.writes : g.writes[i] = h.writes[i]
        /\ g.writes[Len(h.writes) + 1] = w
    BY <2>6, QueueGrows, SequenceDomain DEF HistoryOK, IsHistory
  <2>9. PICK n : n \notin DOMAIN h.writes /\ Appends(g) = Appends(h) \cup {n} /\ g.writes[n] = w
    <3>1. Len(h.writes) + 1 \notin DOMAIN h.writes
      BY <2>8
    <3>2. Appends(g) = Appends(h) \cup {Len(h.writes) + 1}
      BY <2>2, <2>8 DEF Appends
    <3> QED
      BY <2>8, <3>1, <3>2
  <2>10. \A i \in Appends(h) : i # n /\ g.writes[i].event = h.writes[i].event
                               /\ h.writes[i].event \in 1 .. h.created
    BY <2>8, <2>9 DEF Appends, HistoryOK, UnderWay
  <2>11. UnderWay(g) = UnderWay(h) \cup {event}
    BY <2>2, <2>9, <2>10 DEF UnderWay
  <2>12. \A i, j \in Appends(g) : g.writes[i].event = g.writes[j].event => i = j
    BY <2>2, <2>5, <2>9, <2>10 DEF HistoryOK
  <2>13. HistoryOK(g)
    <3>1. UnderWay(g) \subseteq 1 .. g.created
      BY <2>5, <2>6, <2>11 DEF HistoryOK
    <3>2. ~g.active.known
      BY <2>4, <2>6
    <3> QED
      BY <2>7, <2>12, <3>1, <3>2 DEF HistoryOK
  <2>14. Grows(h, g)
    BY <2>5, <2>6, <2>11, <2>13 DEF Grows
  <2> QED
    BY <2>14 DEF g
<1> QED
  BY <1>1, <1>2

\* The same of the effects of a render.
Paired(s) == s = [tracker |-> s.tracker, history |-> s.history]

LEMMA FinalizePreviousGrows ==
    ASSUME NEW s, Paired(s), HistoryOK(s.history)
    PROVE  Paired(FinalizePreviousPlayback(s))
           /\ Grows(s.history, FinalizePreviousPlayback(s).history)
BY GrowsSame, FinalizeGrows DEF FinalizePreviousPlayback, Paired

LEMMA SongEffectGrows ==
    ASSUME NEW s, NEW q, Paired(s), HistoryOK(s.history)
    PROVE  Paired(SongEffect(q, s)) /\ Grows(s.history, SongEffect(q, s).history)
<1> DEFINE f == FinalizePreviousPlayback(s)
           ended == IF SamePlay(s.tracker.previous, q) THEN s ELSE f
<1>1. Paired(f) /\ Grows(s.history, f.history)
  BY FinalizePreviousGrows
<1>2. CASE SongEffect(q, s) \in {s, f}
  BY <1>1, <1>2, GrowsSame
<1>3. Grows(s.history, ended.history) /\ HistoryOK(ended.history)
  BY <1>1, GrowsSame DEF Grows
<1>4. Grows(s.history, AddToHistory(ended.history, q.song, q.sequence))
  BY <1>3, AddGrows, GrowsTwice
<1>5. CASE q.song # NoSong /\ q.hydrated
  <2> HIDE DEF f
  <2>1. SongEffect(q, s) =
            [tracker |-> [ended.tracker EXCEPT !.previous = [song |-> q.song,
                             sequence |-> q.sequence, position |-> q.position]],
             history |-> IF q.sequence > 0 THEN AddToHistory(ended.history, q.song, q.sequence)
                         ELSE ended.history]
    BY <1>5 DEF SongEffect, f
  <2> HIDE DEF ended
  <2> QED
    BY <1>3, <1>4, <2>1 DEF Paired
<1> QED
  BY <1>2, <1>5 DEF SongEffect

LEMMA PositionEffectSame ==
    ASSUME NEW s, NEW q, Paired(s)
    PROVE  Paired(PositionEffect(q, s)) /\ PositionEffect(q, s).history = s.history
<1> DEFINE position == IF q.seek > 0 THEN q.seek ELSE q.position
<1>1. PositionEffect(q, s) \in {s, [s EXCEPT !.tracker.previous.position = position]}
  BY DEF PositionEffect
<1> HIDE DEF position
<1> QED
  BY <1>1 DEF Paired

LEMMA EffectsGrow ==
    ASSUME NEW p, NEW q, NEW s, Paired(s), HistoryOK(s.history)
    PROVE  Grows(s.history, Effects(p, q, s).history)
<1> DEFINE first == IF <<p.song, p.sequence, p.hydrated>> # <<q.song, q.sequence, q.hydrated>>
                    THEN SongEffect(q, s) ELSE s
           second == IF p.undoable # q.undoable THEN UndoEffect(q, first) ELSE first
           third == IF p.position # q.position THEN PositionEffect(q, second) ELSE second
<1>1. Effects(p, q, s) = third
  BY DEF Effects
<1>2. Paired(first) /\ Grows(s.history, first.history)
  BY SongEffectGrows, GrowsSame
<1> HIDE DEF first
<1>3. HistoryOK(first.history)
  BY <1>2 DEF Grows
<1>4. Paired(second) /\ Grows(first.history, second.history)
  BY <1>2, <1>3, FinalizePreviousGrows, GrowsSame DEF UndoEffect
<1> HIDE DEF second
<1>5. third.history = second.history
  BY <1>4, PositionEffectSame
<1> HIDE DEF third
<1>6. Grows(s.history, second.history)
  BY <1>2, <1>4, GrowsTwice
<1> QED
  BY <1>1, <1>5, <1>6

\* A receipt, and what a recovery is at work on, is of an event whose append was
\* answered; a recovery that has applied a receipt has left nothing active.
Answered(e) == e <= history.created /\ e \notin UnderWay(history)

ReceiptInv ==
    /\ HistoryOK(history)
    /\ DOMAIN log = Events /\ DOMAIN receipts = Events
    /\ recovery = [todo |-> recovery.todo, event |-> recovery.event,
                   position |-> recovery.position, applied |-> recovery.applied]
    /\ \A e \in Events : receipts[e] # None => Answered(e)
    /\ recovery.event # NoEvent => recovery.event \in Events /\ Answered(recovery.event)
    /\ recovery.applied => recovery.event # NoEvent /\ log[recovery.event].status # "active"

LEMMA AnsweredStays ==
    ASSUME HistoryOK(history), Grows(history, history'), NEW e \in Events, Answered(e)
    PROVE  Answered(e)'
<1>1. e \in Nat /\ history.created \in Nat /\ history'.created \in Nat
  BY BoundsAssumption DEF Events, HistoryOK, IsHistory, Grows
<1> QED
  BY <1>1 DEF Answered, Grows

LEMMA HistoryMoves ==
    ASSUME ReceiptInv, Grows(history, history'), UNCHANGED <<log, receipts, recovery>>
    PROVE  ReceiptInv'
<1>1. HistoryOK(history')
  BY DEF Grows
<1>2. \A e \in Events : Answered(e) => Answered(e)'
  BY AnsweredStays DEF ReceiptInv
<1> QED
  BY <1>1, <1>2 DEF ReceiptInv

LEMMA NoHistoryMoves ==
    ASSUME ReceiptInv, UNCHANGED <<history, log, receipts, recovery>>
    PROVE  ReceiptInv'
BY HistoryMoves, GrowsSame DEF ReceiptInv

LEMMA RenderedGrows ==
    ASSUME ReceiptInv, NEW q, Rendered(q)
    PROVE  Grows(history, history')
<1> DEFINE s == [tracker |-> tracker, history |-> history]
<1>1. Paired(s) /\ s.history = history
  BY DEF Paired
<1>2. history' = Effects(player, q, s).history
  BY DEF Rendered
<1> HIDE DEF s
<1> QED
  BY <1>1, <1>2, EffectsGrow DEF ReceiptInv

LEMMA GestureReceipts == ASSUME ReceiptInv, Gesture PROVE ReceiptInv'
<1>1. CASE ClearHistory
  <2> DEFINE w == Write("clear", NoEvent, 0)
  <2>1. history' = [history EXCEPT !.writes = Append(@, w)] /\ w.kind = "clear"
        /\ UNCHANGED <<log, receipts, recovery>>
    BY <1>1 DEF ClearHistory, Write, Stored
  <2> HIDE DEF w
  <2>2. /\ history'.writes = Append(history.writes, w) /\ history'.active = history.active
        /\ history'.created = history.created
        /\ history' = [active |-> history'.active, pending |-> history'.pending,
                       writes |-> history'.writes, created |-> history'.created]
    BY <2>1 DEF ReceiptInv, HistoryOK, IsHistory
  <2>3. IsHistory(history')
    BY <2>2, QueueGrows DEF ReceiptInv, HistoryOK, IsHistory
  <2>4. Grows(history, history')
    BY <2>1, <2>2, <2>3, WriteComes DEF ReceiptInv
  <2> QED
    BY <2>1, <2>4, HistoryMoves
<1>2. CASE ~ClearHistory
  <2>1. (\E q : Rendered(q)) /\ UNCHANGED <<log, receipts, recovery>>
    BY <1>2 DEF Gesture, Hydrate, ChangeVideo, Listen, ShowCued, Resume, Close, RemoveOnlyRow,
       CloseWithUndo, ToastGoes, UndoClose, PlaySong, RestoreQueueItem, Stored
  <2> QED
    BY <2>1, RenderedGrows, HistoryMoves
<1> QED
  BY <1>1, <1>2

\* The write at the head is committed; the append of an event tells its page.
LEMMA HeadLeaves ==
    ASSUME NEW h, NEW g, HistoryOK(h), h.writes # <<>>, IsHistory(g),
           g.writes = Tail(h.writes), g.created = h.created,
           g.active.known =>
              \/ g.active.event = h.active.event /\ h.active.known
              \/ Head(h.writes).kind = "append" /\ g.active.event = Head(h.writes).event
    PROVE  /\ Grows(h, g)
           /\ Head(h.writes).kind = "append" =>
                 Head(h.writes).event \in UnderWay(h) /\ Head(h.writes).event \notin UnderWay(g)
<1>1. /\ DOMAIN h.writes = 1 .. Len(h.writes) /\ Len(h.writes) \in Nat /\ 1 \in DOMAIN h.writes
      /\ Head(h.writes) = h.writes[1] /\ DOMAIN g.writes = 1 .. Len(h.writes) - 1
      /\ \A i \in DOMAIN g.writes : i + 1 \in DOMAIN h.writes
                                    /\ g.writes[i] = h.writes[i + 1]
  BY SequenceDomain, QueueShrinks DEF HistoryOK, IsHistory
<1>2. \A i \in Appends(g) : i \in Nat \ {0} /\ i + 1 \in Appends(h) /\ i + 1 # 1
                            /\ g.writes[i].event = h.writes[i + 1].event
  BY <1>1 DEF Appends
<1>3. UnderWay(g) \subseteq UnderWay(h)
  BY <1>2 DEF UnderWay
<1>4. \A i, j \in Appends(g) : g.writes[i].event = g.writes[j].event => i = j
  <2> SUFFICES ASSUME NEW i \in Appends(g), NEW j \in Appends(g),
                      g.writes[i].event = g.writes[j].event
               PROVE  i = j
    OBVIOUS
  <2>1. i + 1 = j + 1
    BY <1>2, ZenonT(30) DEF HistoryOK
  <2> QED
    BY <1>2, <2>1
<1>5. ASSUME Head(h.writes).kind = "append"
      PROVE  Head(h.writes).event \in UnderWay(h) /\ Head(h.writes).event \notin UnderWay(g)
  <2>1. 1 \in Appends(h)
    BY <1>1, <1>5 DEF Appends
  <2>2. ASSUME NEW i \in Appends(g), g.writes[i].event = h.writes[1].event
        PROVE  FALSE
    BY <1>2, <2>1, <2>2 DEF HistoryOK
  <2> QED
    BY <1>1, <2>1, <2>2 DEF UnderWay
<1>6. g.active.known => g.active.event \in 1 .. g.created /\ g.active.event \notin UnderWay(g)
  BY <1>3, <1>5 DEF HistoryOK
<1>7. HistoryOK(g)
  BY <1>3, <1>4, <1>6 DEF HistoryOK
<1>8. h.created <= g.created
  BY DEF HistoryOK, IsHistory
<1> QED
  BY <1>3, <1>5, <1>7, <1>8 DEF Grows

LEMMA LogMoves ==
    ASSUME ReceiptInv, Grows(history, history'), UNCHANGED <<receipts, recovery>>,
           DOMAIN log' = Events, recovery.applied => log'[recovery.event].status # "active"
    PROVE  ReceiptInv'
<1>1. HistoryOK(history')
  BY DEF Grows
<1>2. \A e \in Events : Answered(e) => Answered(e)'
  BY AnsweredStays DEF ReceiptInv
<1> QED
  BY <1>1, <1>2 DEF ReceiptInv

\* Details are written to an event, which is final then.
LEMMA FinalizedLog ==
    ASSUME ReceiptInv, NEW event, NEW position
    PROVE  /\ DOMAIN Finalized(event, position) = Events
           /\ \A e \in Events : log[e].status # "active"
                                => Finalized(event, position)[e].status # "active"
           /\ event \in Events /\ log[event].status = "active"
              => Finalized(event, position)[event].status # "active"
BY DEF ReceiptInv, Finalized

LEMMA HistoryChanged ==
    ASSUME NEW h, NEW a, NEW p, NEW w, NEW g, g = [h EXCEPT !.active = a, !.pending = p, !.writes = w],
           h = [active |-> h.active, pending |-> h.pending, writes |-> h.writes,
                created |-> h.created]
    PROVE  /\ g.active = a /\ g.writes = w /\ g.created = h.created
           /\ g = [active |-> g.active, pending |-> g.pending, writes |-> g.writes,
                   created |-> g.created]
OBVIOUS

LEMMA CommitAppendReceipts == ASSUME ReceiptInv, CommitAppend PROVE ReceiptInv'
<1> DEFINE event == Head(history.writes).event
           position == history.pending[event]
           rest == Tail(history.writes)
           known == [history.active EXCEPT !.known = @ \/ history.active.event = event]
           put == [history.pending EXCEPT ![event] = None]
           g == [history EXCEPT !.active = known, !.pending = put, !.writes = rest]
           w == Write("finalize", event, position)
<1>1. /\ Head(history.writes).kind = "append" /\ history.writes # <<>>
      /\ log' = [log EXCEPT ![event].status = "active"] /\ UNCHANGED <<receipts, recovery>>
      /\ HistoryOK(history) /\ IsHistory(history)
  BY DEF CommitAppend, CommitIsNext, ReceiptInv, HistoryOK
<1>2. history' = IF position = None THEN g ELSE [g EXCEPT !.writes = Append(rest, w)]
  BY <1>1 DEF CommitAppend, IsHistory
<1>3. /\ known.known \in BOOLEAN /\ known.event = history.active.event
      /\ known = [event |-> known.event, known |-> known.known,
                  song |-> known.song, sequence |-> known.sequence]
      /\ known.known => history.active.known \/ history.active.event = event
  <2>1. /\ history.active = [event |-> history.active.event, known |-> history.active.known,
                             song |-> history.active.song, sequence |-> history.active.sequence]
        /\ history.active.known \in BOOLEAN
    BY <1>1 DEF IsHistory
  <2>2. (history.active.known \/ history.active.event = event) \in BOOLEAN
    OBVIOUS
  <2> HIDE DEF event
  <2> QED
    BY <2>1, <2>2
<1>4. w.kind = "finalize"
  BY DEF Write
<1> HIDE DEF known, put, w
<1>5. /\ g.active = known /\ g.writes = rest /\ g.created = history.created
      /\ g = [active |-> g.active, pending |-> g.pending, writes |-> g.writes,
              created |-> g.created]
  <2>1. history = [active |-> history.active, pending |-> history.pending,
                   writes |-> history.writes, created |-> history.created]
    BY <1>1 DEF IsHistory
  <2>2. g = [history EXCEPT !.active = known, !.pending = put, !.writes = rest]
    OBVIOUS
  <2> HIDE DEF g, rest
  <2> QED
    BY <2>1, <2>2, HistoryChanged
<1> HIDE DEF g
<1>6. IsHistory(g)
  <2>1. IsSequence(g.writes)
    BY <1>1, <1>5, QueueShrinks DEF IsHistory
  <2> QED
    BY <1>1, <1>3, <1>5, <2>1 DEF IsHistory
<1>7. Grows(history, g) /\ event \in UnderWay(history)
  BY <1>1, <1>3, <1>5, <1>6, HeadLeaves
<1>8. Grows(history, history')
  <2>1. CASE position = None
    BY <1>2, <1>7, <2>1
  <2>2. CASE position # None
    <3>1. history' = [g EXCEPT !.writes = Append(rest, w)]
      BY <1>2, <2>2
    <3>2. /\ history'.writes = Append(g.writes, w) /\ history'.active = g.active
          /\ history'.created = g.created
          /\ history' = [active |-> history'.active, pending |-> history'.pending,
                         writes |-> history'.writes, created |-> history'.created]
      BY <1>5, <3>1
    <3>3. IsHistory(history')
      BY <1>6, <3>2, QueueGrows DEF IsHistory
    <3>4. HistoryOK(g)
      BY <1>7 DEF Grows
    <3>5. Grows(g, history')
      BY <1>4, <3>2, <3>3, <3>4, WriteComes
    <3> QED
      BY <1>1, <1>7, <3>5, GrowsTwice
  <2> QED
    BY <2>1, <2>2
<1>9. recovery.event # NoEvent => recovery.event # event
  BY <1>7 DEF ReceiptInv, Answered
<1>10. DOMAIN log' = Events /\ (recovery.applied => log'[recovery.event].status # "active")
  BY <1>1, <1>9 DEF ReceiptInv
<1> QED
  BY <1>1, <1>8, <1>10, LogMoves

LEMMA CommitOtherReceipts == ASSUME ReceiptInv, CommitFinalize \/ CommitClear PROVE ReceiptInv'
<1>1. /\ history.writes # <<>> /\ HistoryOK(history) /\ IsHistory(history)
      /\ IsSequence(Tail(history.writes)) /\ UNCHANGED <<receipts, recovery>>
  BY QueueShrinks DEF CommitFinalize, CommitClear, CommitIsNext, ReceiptInv, HistoryOK, IsHistory
<1>2. CASE CommitFinalize
  <2>1. /\ history'.writes = Tail(history.writes) /\ history'.created = history.created
        /\ history'.active = history.active
        /\ history' = [active |-> history'.active, pending |-> history'.pending,
                       writes |-> history'.writes, created |-> history'.created]
    BY <1>1, <1>2 DEF CommitFinalize, IsHistory
  <2>2. IsHistory(history')
    BY <1>1, <2>1 DEF IsHistory
  <2>3. Grows(history, history')
    BY <1>1, <2>1, <2>2, HeadLeaves
  <2>4. DOMAIN log' = Events /\ (recovery.applied => log'[recovery.event].status # "active")
    BY <1>2, FinalizedLog DEF CommitFinalize, ReceiptInv
  <2> QED
    BY <1>1, <2>3, <2>4, LogMoves
<1>3. CASE CommitClear
  <2>1. /\ history'.writes = Tail(history.writes) /\ history'.created = history.created
        /\ history'.active = NoActivePlay
        /\ history' = [active |-> history'.active, pending |-> history'.pending,
                       writes |-> history'.writes, created |-> history'.created]
    BY <1>1, <1>3 DEF CommitClear, IsHistory
  <2>2. IsHistory(history') /\ ~history'.active.known
    BY <1>1, <2>1 DEF IsHistory, NoActivePlay
  <2>3. Grows(history, history')
    BY <1>1, <2>1, <2>2, HeadLeaves
  <2>4. DOMAIN log' = Events /\ (recovery.applied => log'[recovery.event].status # "active")
    BY <1>3 DEF CommitClear, ReceiptInv
  <2> QED
    BY <1>1, <2>3, <2>4, LogMoves
<1> QED
  BY <1>2, <1>3

\* The page that goes writes a receipt for its active event, if it knows it; the
\* next page has nothing under way.
LEMMA EmptyHistory ==
    ASSUME NEW n \in Nat
    PROVE  HistoryOK(NewHistory(n)) /\ UnderWay(NewHistory(n)) = {} /\ NewHistory(n).created = n
<1>1. IsSequence(<<>>)
  BY EmptySeq, SequenceOf
<1>2. DOMAIN (<<>>) = {}
  OBVIOUS
<1>3. UnderWay(NewHistory(n)) = {} /\ Appends(NewHistory(n)) = {}
  BY <1>2 DEF UnderWay, Appends, NewHistory
<1> QED
  BY <1>1, <1>3 DEF HistoryOK, IsHistory, NewHistory, NoActivePlay

LEMMA PageHideReceipts == ASSUME ReceiptInv, PageHide PROVE ReceiptInv'
<1> DEFINE s == [tracker |-> tracker, history |-> history]
<1>1. /\ history' = FinalizePreviousPlayback(s).history /\ WriteReceipt
      /\ UNCHANGED <<log, recovery>>
  BY DEF PageHide
<1>2. Grows(history, history')
  BY <1>1, FinalizePreviousGrows DEF Paired, ReceiptInv
<1>3. HistoryOK(history') /\ HistoryOK(history)
  BY <1>2 DEF Grows, ReceiptInv
<1>4. \A e \in Events : Answered(e) => Answered(e)'
  BY <1>2, <1>3, AnsweredStays
<1>5. history.active.known =>
          history.active.event <= history.created /\ Answered(history.active.event)
  <2>1. history.active.known => history.active.event \in 1 .. history.created
                                /\ history.active.event \notin UnderWay(history)
    BY <1>3 DEF HistoryOK
  <2>2. history.created \in Nat
    BY <1>3 DEF HistoryOK, IsHistory
  <2> QED
    BY <2>1, <2>2 DEF Answered
<1>6. DOMAIN receipts' = Events /\ \A e \in Events : receipts'[e] # None => Answered(e)
  BY <1>1, <1>5 DEF WriteReceipt, ReceiptInv
<1> QED
  BY <1>1, <1>3, <1>4, <1>6 DEF ReceiptInv

LEMMA LifecycleReceipts == ASSUME ReceiptInv, Lifecycle PROVE ReceiptInv'
<1>1. CASE PageHide
  BY <1>1, PageHideReceipts
<1>2. CASE Leave
  <2>1. /\ HistoryOK(history') /\ UnderWay(history') = {}
        /\ history'.created = history.created /\ UNCHANGED <<log, receipts, recovery>>
    BY <1>2, EmptyHistory DEF Leave, ReceiptInv, HistoryOK, IsHistory
  <2> QED
    BY <2>1 DEF ReceiptInv, Answered
<1>3. CASE Return \/ \E song \in Songs \cup {NoSong} : Start(song)
  BY <1>3, NoHistoryMoves DEF Return, Start, Stored
<1> QED
  BY <1>1, <1>2, <1>3 DEF Lifecycle, Unload, Crash

LEMMA RecoveryReceipts == ASSUME ReceiptInv, Recovery PROVE ReceiptInv'
<1> USE DEF ReceiptInv, Answered
<1>0. NoEvent \notin Events
  BY DEF NoEvent, Events
<1>1. CASE RecoverReceipts
  BY <1>1 DEF RecoverReceipts, AtRest
<1>2. ASSUME NEW e \in Events, ReadReceipt(e)
      PROVE  ReceiptInv'
  <2>1. /\ recovery.event = NoEvent /\ ~recovery.applied
        /\ UNCHANGED <<history, log, receipts>>
    BY <1>2 DEF ReadReceipt
  <2>2. CASE receipts[e] = None
    BY <1>2, <2>1, <2>2 DEF ReadReceipt
  <2>3. CASE receipts[e] # None
    <3>1. /\ recovery'.event = e /\ recovery'.applied = recovery.applied
          /\ recovery' = [todo |-> recovery'.todo, event |-> recovery'.event,
                          position |-> recovery'.position, applied |-> recovery'.applied]
      BY <1>2, <2>3 DEF ReadReceipt
    <3> QED
      BY <1>2, <2>1, <2>3, <3>1
  <2> QED
    BY <2>2, <2>3
<1>3. CASE ApplyReceipt
  <2>1. /\ recovery.event \in Events /\ UNCHANGED <<history, receipts>>
        /\ recovery'.event = recovery.event /\ recovery'.applied
        /\ recovery' = [todo |-> recovery'.todo, event |-> recovery'.event,
                        position |-> recovery'.position, applied |-> recovery'.applied]
    BY <1>3 DEF ApplyReceipt
  <2>2. DOMAIN log' = Events /\ log'[recovery.event].status # "active"
    BY <1>3, <2>1, FinalizedLog DEF ApplyReceipt
  <2> QED
    BY <1>3, <2>1, <2>2 DEF ApplyReceipt
<1>4. CASE RemoveReceipt
  <2>1. /\ recovery'.event = NoEvent /\ ~recovery'.applied /\ UNCHANGED <<history, log>>
        /\ recovery' = [todo |-> recovery'.todo, event |-> recovery'.event,
                        position |-> recovery'.position, applied |-> recovery'.applied]
    BY <1>4 DEF RemoveReceipt, AtRest
  <2>2. DOMAIN receipts' = Events /\ \A e \in Events : receipts'[e] # None => receipts[e] # None
    BY <1>4 DEF RemoveReceipt
  <2> QED
    BY <2>1, <2>2
<1>5. CASE StopRecovery
  BY <1>5 DEF StopRecovery, AtRest
<1> QED
  BY <1>1, <1>2, <1>3, <1>4, <1>5 DEF Recovery

LEMMA ReceiptNext == ReceiptInv /\ [Next]_vars => ReceiptInv'
<1> SUFFICES ASSUME ReceiptInv, [Next]_vars
             PROVE  ReceiptInv'
  OBVIOUS
<1>1. CASE UNCHANGED vars
  BY <1>1, NoHistoryMoves DEF vars
<1> QED
  BY <1>1, GestureReceipts, CommitAppendReceipts, CommitOtherReceipts, LifecycleReceipts,
     RecoveryReceipts DEF Next, Commit

LEMMA ReceiptInit == Init => ReceiptInv
<1> SUFFICES ASSUME Init
             PROVE  ReceiptInv
  OBVIOUS
<1>1. HistoryOK(history)
  BY EmptyHistory DEF Init
<1> QED
  BY <1>1 DEF Init, ReceiptInv, AtRest

\* A receipt goes only when its event is active no more, and only if it is the one
\* that was applied: for any number of pages, events and recoveries
\* (historyFinalization.ts:34-58).
THEOREM ReceiptsStayNeeded == Spec => ReceiptsOutliveTheirUse
<1>1. Inv /\ ReceiptInv /\ [Next]_vars =>
        [\A e \in Events :
            receipts[e] # None /\ receipts'[e] = None
            => log[e].status # "active" /\ recovery.position = receipts[e]]_vars
  <2> SUFFICES ASSUME Inv, ReceiptInv, Next, NEW e \in Events, receipts[e] # None,
                      receipts'[e] = None
               PROVE  log[e].status # "active" /\ recovery.position = receipts[e]
    BY DEF vars
  <2>1. ~PageHide
    <3>1. player.position # None
      BY PlayerFields, BoundsType, SongsAssumption
    <3> QED
      BY <3>1 DEF PageHide, WriteReceipt, ReceiptInv
  <2>2. RemoveReceipt
    BY <2>1 DEF Next, Gesture, Hydrate, ChangeVideo, Listen, ShowCued, Resume, Close,
       RemoveOnlyRow, CloseWithUndo, ToastGoes, UndoClose, PlaySong, RestoreQueueItem, ClearHistory, Stored,
       Commit, CommitAppend, CommitFinalize, CommitClear, Lifecycle, Return, Unload, Crash,
       Leave, Start, Recovery, RecoverReceipts, ReadReceipt, ApplyReceipt, StopRecovery
  <2>3. e = recovery.event /\ recovery.position = receipts[e]
    BY <2>2 DEF RemoveReceipt, ReceiptInv
  <2> QED
    BY <2>2, <2>3 DEF RemoveReceipt, ReceiptInv
<1> QED
  BY <1>1, ReceiptInit, ReceiptNext, Invariance, PTL DEF Spec, ReceiptsOutliveTheirUse
=============================================================================
