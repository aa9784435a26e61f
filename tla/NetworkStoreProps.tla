-------------------------- MODULE NetworkStoreProps -------------------------
(***************************************************************************)
(* What NetworkStore must satisfy.                                         *)
(***************************************************************************)
EXTENDS NetworkStore

-----------------------------------------------------------------------------
(* No other program has damaged a file and the time zone has not changed.  *)
Undisturbed == edits = 0 /\ moves = 0

(* The all-time total, whenever a query can read it, counts every interval *)
(* the store has taken exactly once, also one whose append failed half-way *)
(* or succeeded without the store being told (the lastId test of           *)
(* GetAllTimeTotal against m_days).                                        *)
AllTimeExact ==
  pc = "idle" /\ Undisturbed =>
    \A i \in Intervals :
      TimesCounted(i, known, pending, current) = IF i \in added THEN 1 ELSE 0

(* Wherever the process dies, the next one counts every interval that was  *)
(* ever saved exactly once, and no other.                                  *)
RestartExact ==
  Undisturbed => \A i \in Intervals :
    TimesCounted(i, KnownDays, Recovered, None) = IF i \in durable THEN 1 ELSE 0

(* An interval that was ever saved stays on disk, in pending.tsv or in a   *)
(* day file, whatever fails or dies and however the time zone changes,     *)
(* unless someone else damages the file.                                   *)
DurableKept ==
  edits = 0 => durable \subseteq
    PartsOf(Recovered) \cup UNION {PartsOf(file[k].records) : k \in {d \in Days : file[d] # None}}

(* A damaged pending.tsv and a damaged day file stay as they are: nothing  *)
(* the store does afterwards overwrites them.                              *)
DamagedKept ==
  [][edits' = edits =>
       /\ (saved # None /\ saved.damaged) => saved' = saved
       /\ \A k \in Days :
            (file[k] # None /\ \E n \in 1..Len(file[k].records) : file[k].records[n].id = 0)
              => file'[k] = file[k]]_vars

(* When writes succeed again, the queue is emptied and the store is        *)
(* healthy again and again; and Healthy(), which the window shows, never   *)
(* says so while something is waiting to be appended.                      *)
EventuallyHealthy ==
  /\ []<>(~Undisturbed \/ (pc = "idle" /\ healthy))
  /\ [](pc = "idle" /\ healthy => pending = <<>>)

(* Everything taken reaches the disk, unless a crash loses it first.       *)
EventuallySaved ==
  \A i \in Intervals : (i \in added) ~> (i \in durable \/ i \notin added \/ ~Undisturbed)
=============================================================================
