--------------------------- MODULE AppDictionary ---------------------------
(***************************************************************************)
(* The dictionary of application names, apps.tsv, shared by every history  *)
(* file (HistoryTrafficStore.cpp): a record on disk holds the number of    *)
(* its application, the dictionary holds the name of each number.          *)
(*                                                                         *)
(* A block or a checkpoint is written in steps: every application gets its *)
(* number, a new one by rewriting the dictionary through apps.tsv.new and  *)
(* a rename, and only then the record is written.  The process may die     *)
(* between any two of them, and writing may fail.  `record' is what the    *)
(* history on disk holds: pairs of a number and the application it was     *)
(* written for, which no decision but the load of a checkpoint reads.      *)
(*                                                                         *)
(* A save ends in one of three ways: it succeeds; it is reported as failed *)
(* and the number is taken back; or create_directories throws before       *)
(* anything is written, and nobody takes the number back.  It stays in     *)
(* memory, where the next call finds it (the exception is swallowed by the *)
(* worker, HybridTrafficCollector.cpp:352).                                *)
(***************************************************************************)
EXTENDS Integers, FiniteSets

CONSTANTS
    App,          \* application names
    Invalid,      \* kInvalidAppId, 2^64 - 1: the first number never given out
    MaxTroubles   \* bound: failing writes, deaths and changes from outside, together

ASSUME DictionaryAssumption == Invalid \in Nat \ {0} /\ MaxTroubles \in Nat

VARIABLES
    file,         \* apps.tsv: absent, a table, or one the loader refuses
    record,       \* the numbers in the history on disk and their applications
    names, next,  \* m_appNameById, of which m_appIdByName is the inverse, and m_nextAppId
    loaded,       \* m_loaded
    block,        \* the applications of the block being written
    numbered,     \* and the numbers found for them so far
    thrown,       \* observation only: entries whose save threw, and that none has saved since
    troubles

vars == <<file, record, names, next, loaded, block, numbered, thrown, troubles>>

Ids == 0 .. Invalid
Tables == UNION {[S -> App] : S \in SUBSET (0 .. Invalid - 1)}
Table(t) == [kind |-> "table", names |-> t]
Absent == [kind |-> "absent", names |-> << >>]
Refused == [kind |-> "refused", names |-> << >>]
Injective(t) == \A i, j \in DOMAIN t : t[i] = t[j] => i = j

\* What a process leaves that ran before: nothing, or a table with records of its numbers.
Init ==
    /\ \/ file = Absent /\ record = {}
       \/ \E t \in Tables :
            /\ Injective(t) /\ file = Table(t)
            /\ record \in SUBSET {<<i, t[i]>> : i \in DOMAIN t}
    /\ names = << >> /\ next = 1 /\ loaded = FALSE /\ block = {} /\ numbered = {}
    /\ thrown = {} /\ troubles = 0

Trouble == troubles < MaxTroubles /\ troubles' = troubles + 1

-----------------------------------------------------------------------------
(* EnsureLoaded *)

\* A slip: only the dictionary itself is looked for.
RequiresAppDictionary_bug == file # Absent

\* A missing dictionary is a fresh start only when nothing needs one.
RequiresAppDictionary == file # Absent \/ record # {}

Largest(S) == CHOOSE m \in S : \A n \in S : n <= m

\* The next number is one past the largest; the addition wraps at the width of a number.
NextOf(t) == IF DOMAIN t = {} THEN 1 ELSE LET m == Largest({0} \cup DOMAIN t) IN (m + 1) % (Invalid + 1)

\* A file that is refused leaves the store unloaded; the next load starts from nothing again.
LoadAppDictionary ==
    IF file.kind = "table" THEN names' = file.names /\ next' = NextOf(file.names)
    ELSE names' = << >> /\ next' = 1

\* A number without a name blocks the load if it is the checkpoint that holds it; a row of
\* another file that holds it is skipped.
MayBlock == file.kind = "table" /\ \E p \in record : p[1] \notin DOMAIN file.names

EnsureLoaded ==
    /\ ~loaded
    /\ LoadAppDictionary
    /\ loaded' \in {file.kind = "table" \/ ~RequiresAppDictionary} \cup (IF MayBlock THEN {FALSE} ELSE {})
    /\ UNCHANGED <<file, record, block, numbered, thrown, troubles>>

-----------------------------------------------------------------------------
(* Append and SaveCheckpoint *)

Begin(apps) ==
    /\ loaded /\ block = {} /\ block' = apps /\ numbered' = {}
    /\ UNCHANGED <<file, record, names, next, loaded, thrown, troubles>>

Known(a) == {i \in DOMAIN names : names[i] = a}
Entries(t) == {<<i, t[i]>> : i \in DOMAIN t}
With(t, i, a) == [j \in DOMAIN t \cup {i} |-> IF j = i THEN a ELSE t[j]]
Number(a, i) == numbered' = numbered \cup {<<i, a>>}
GiveUp == block' = {} /\ numbered' = {}

\* EnsureAppId of an application that has a number.
Found(a) ==
    /\ \E i \in Known(a) : Number(a, i)
    /\ UNCHANGED <<file, record, names, next, loaded, block, thrown, troubles>>

\* Of one that can have none: the block is not written.
Exhausted(a) ==
    /\ Known(a) = {} /\ next = Invalid
    /\ GiveUp /\ UNCHANGED <<file, record, names, next, loaded, thrown, troubles>>

\* Of a new one: the dictionary is saved with it before its number is used.
Assign(a) ==
    /\ Known(a) = {} /\ next # Invalid
    /\ names' = With(names, next, a) /\ next' = next + 1
    /\ file' = Table(names') /\ thrown' = thrown \ Entries(names')
    /\ Number(a, next)
    /\ UNCHANGED <<record, loaded, block, troubles>>

\* A slip: a failed save leaves the new name in the tables.
RolledBack_bug(a) == names' = With(names, next, a) /\ next' = next + 1

\* When the save fails the number is taken back.
RolledBack(a) == UNCHANGED <<names, next>>

\* SaveAppDictionary returns false.  The rename may have happened although it is reported as failed.
AssignFails(a) ==
    /\ Known(a) = {} /\ next # Invalid /\ Trouble
    /\ file' \in {file, Table(With(names, next, a))}
    /\ RolledBack(a) /\ GiveUp
    /\ UNCHANGED <<record, loaded, thrown>>

\* It throws: no file is written and nothing is taken back.
AssignThrows(a) ==
    /\ Known(a) = {} /\ next # Invalid /\ Trouble
    /\ names' = With(names, next, a) /\ next' = next + 1
    /\ thrown' = thrown \cup {<<next, a>>} /\ GiveUp
    /\ UNCHANGED <<file, record, loaded>>

EnsureAppId ==
    \E a \in block \ {p[2] : p \in numbered} :
        Found(a) \/ Exhausted(a) \/ Assign(a) \/ AssignFails(a) \/ AssignThrows(a)

\* The record itself, once every application has its number (how it gets there is HistoryStore).
Write ==
    /\ block # {} /\ block = {p[2] : p \in numbered}
    /\ record' = record \cup numbered /\ GiveUp
    /\ UNCHANGED <<file, names, next, loaded, thrown, troubles>>

-----------------------------------------------------------------------------
(* Around the process *)

Dies ==
    /\ loaded /\ Trouble
    /\ loaded' = FALSE /\ names' = << >> /\ next' = 1 /\ GiveUp
    /\ UNCHANGED <<file, record, thrown>>

\* While it does not run, the file is removed or damaged so that the loader sees it.
Outside ==
    /\ ~loaded /\ file.kind = "table" /\ Trouble
    /\ file' \in {Absent, Refused}
    /\ UNCHANGED <<record, names, next, loaded, block, numbered, thrown>>

Next ==
    \/ EnsureLoaded \/ EnsureAppId \/ Write \/ Dies \/ Outside
    \/ \E apps \in SUBSET App \ {{}} : Begin(apps)

Spec == Init /\ [][Next]_vars

-----------------------------------------------------------------------------
(* Properties *)

\* What is on disk is shown under the application it was written for: as long as the dictionary
\* can be read, it has every number of the history with that application's name, whatever failed
\* or died in between, and no number is given to a second application after the first was used.
\* Excepted are only the numbers that an exception left in memory and no later save has
\* written: they may be used in a record (EnsureAppId finds them), and after a death be given out
\* again.
Attributed ==
    file.kind = "table" =>
        \A p \in record \ thrown : p[1] \in DOMAIN file.names /\ file.names[p[1]] = p[2]

\* What this process holds in memory only.
Held == thrown \cap Entries(names)

\* A dictionary that is damaged, or missing while the history needs it, stops the store: it writes
\* neither a dictionary nor a record, so that nothing is numbered anew.  A process may only go on
\* without one when it holds the names of all numbers in use.
NothingRenumbered ==
    [][file = Refused \/ (file = Absent /\ ~(record \subseteq Held)) => file' = file /\ record' = record]_vars
=============================================================================
