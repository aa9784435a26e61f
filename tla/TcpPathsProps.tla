--------------------------- MODULE TcpPathsProps ---------------------------
(***************************************************************************)
(* What the three accounts promise together.                               *)
(***************************************************************************)
EXTENDS TcpPaths

Credited == kept (+) tracker.paid

\* Every byte is counted from at most one source: the hand-over replays no prefix, and late
\* legacy events of a switched lifetime stay out (README: credited bytes are not replayed).
NotReplayed == \A b \in DOMAIN Credited : Credited[b] = 1

\* What holds of every connection switched on its own legacy prefix: a byte is counted from one
\* source, and once.
NeverTwice == \A b \in DOMAIN Credited : b[1] \notin tracker.mistaken => Credited[b] = 1

\* And nothing is counted that was not transferred, a FIN octet being no payload.  When proof
\* events are lost, an octet of a later connection on the same control block may be taken for
\* one of this one, which is then marked.
NothingInvented ==
    \A b \in DOMAIN Credited :
        b[1] \notin tracker.mistaken =>
            b[3] < flows[b[1]][b[2]] \/ ("proof" \in lost /\ b[1] \in tracker.marked)

\* Where a byte may still be on its way: an event of its life is not delivered, or its
\* connection is active or holds ranges back.
Waiting(life) ==
    \/ \E i \in DOMAIN proofs : proofs[i].life = life
    \/ \E i \in DOMAIN events : events[i].life = life
    \/ \E x \in DOMAIN tracker.conn :
         LET c == tracker.conn[x]
         IN  c.life = life /\ (c.state = "active" \/ c.rx.pending \cup c.tx.pending # {})

\* The one octet that Flush may hold back for good: the last received one, which may be a FIN.
HeldBack(life) == {<<life, "rx", flows[life].rx - 1>>}

\* The first life of a key: bytes of a later one may meet the window of a connection that the
\* proof session has not closed yet, and are then suppressed without a mark.
FirstOfKey(life) == \A other \in DOMAIN flows : flows[other].key = flows[life].key => life <= other

\* A byte that no source counts leaves a mark: when nothing of a life is on its way, each of its
\* bytes is counted, or the life or the interval was reported as incomplete or unknown
\* (README: unresolved coverage is marked incomplete, never estimated).
NothingSilent ==
    \A life \in DOMAIN flows :
        phase # "off" /\ FirstOfKey(life) /\ ~Waiting(life) /\ lost \subseteq {"endpoints"} =>
            \/ life \in tracker.marked \/ uncertain
            \/ \A b \in flows[life].due \ HeldBack(life) : BagIn(b, Credited) \/ b \in blind

\* Both: no byte is counted that was not transferred, and one that is not counted leaves a mark.
Conserved == NothingInvented /\ NothingSilent

\* A delta is what flowed on one connection between two readings, never a counter's whole value
\* after a reset, a failure or another connection with the same key.
DeltaHonest ==
    \A i \in DOMAIN reading.obs :
        LET s == reading.obs[i]
        IN  ~s.baseline => /\ s.last.life = s.truth.life
                           /\ s.rxDelta \in 0 .. (s.truth.rx - s.last.rx)
                           /\ s.txDelta \in 0 .. (s.truth.wire - s.last.wire)

\* Stop turns collection off only on a connection this program had turned it on for, not on one
\* where another program had done so, nor on one that has taken over the key of a connection.
\* Excepted is what the code cannot know: a connection that takes the key over between Stop's last
\* look at the tables and the call.  And `tried' remembers that this program turned it on: when
\* another one has turned it off and on again since, Stop turns that off, too.
StopKeepsOthers ==
    [][phase = "releasing" /\ estats' # estats =>
         \A k \in Key : tcp[k].on /\ ~tcp'[k].on => tcp[k].tried \/ ~tcp[k].listed]_vars
=============================================================================
