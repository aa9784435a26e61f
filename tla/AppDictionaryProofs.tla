------------------------- MODULE AppDictionaryProofs -------------------------
(***************************************************************************)
(* Proofs about AppDictionary for any applications, any width of a number  *)
(* and any number of failures, deaths and changes from outside.            *)
(***************************************************************************)
EXTENDS AppDictionary, WellFoundedInduction, TLAPS

(* What the process holds when it is loaded: the tables in memory have     *)
(* every number in use but those an exception left to an earlier process,  *)
(* the next number is above them all, and the file has every entry in      *)
(* memory whose save did not throw; it may have one more, the number that  *)
(* is next, when a save was reported as failed after its rename.  Without  *)
(* a dictionary on disk all that is in use is held in memory.              *)
Agrees ==
  /\ next \in 1 .. Invalid
  /\ \A i \in DOMAIN names : i < next
  /\ record \ thrown \subseteq Entries(names)
  /\ numbered \subseteq Entries(names)
  /\ \/ file.kind = "table" /\ Entries(names) \ thrown \subseteq Entries(file.names)
     \/ file = Absent /\ Entries(names) \subseteq thrown /\ record \subseteq Held

DictionaryInv ==
  /\ file \in {Absent, Refused} \cup {Table(t) : t \in Tables}
  /\ record \in SUBSET ((0 .. Invalid - 1) \X App)
  /\ names \in Tables
  /\ block \in SUBSET App
  /\ loaded \in BOOLEAN
  /\ loaded => Agrees
  /\ ~loaded => block = {} /\ numbered = {}
  /\ Attributed

-----------------------------------------------------------------------------
(* A set of numbers that is bounded and not empty has a largest member,    *)
(* so that Largest chooses it: the least distance from the bound exists.   *)
LEMMA LargestOfBounded ==
  ASSUME NEW N \in Nat, NEW S \in SUBSET (0 .. N), S # {}
  PROVE  /\ Largest(S) \in S
         /\ \A n \in S : n <= Largest(S)
<1> DEFINE Below == {N - n : n \in S}
<1>1. \A n \in S : n \in Int /\ 0 <= n /\ n <= N
  OBVIOUS
<1>2. Below \subseteq Nat /\ Below # {}
  <2>1. \A n \in S : N - n \in Nat
    BY <1>1
  <2> QED
    BY <2>1
<1>3. PICK b \in Below : \A d \in Below : ~(<<d, b>> \in OpToRel(<, Nat))
  <2> HIDE DEF Below
  <2> QED
    BY <1>2, WFMin, NatLessThanWellFounded
<1>4. \A d \in Below : b <= d
  <2> HIDE DEF Below
  <2> SUFFICES ASSUME NEW d \in Below, ~(b <= d) PROVE FALSE
    OBVIOUS
  <2>1. b \in Nat /\ d \in Nat
    BY <1>2
  <2>2. d < b
    BY <2>1
  <2>3. <<d, b>> \in OpToRel(<, Nat)
    BY <2>1, <2>2, Zenon DEF OpToRel
  <2> QED
    BY <1>3, <2>3
<1>5. PICK m \in S : b = N - m
  OBVIOUS
<1>6. \A n \in S : n <= m
  <2> SUFFICES ASSUME NEW n \in S PROVE n <= m
    OBVIOUS
  <2>1. b <= N - n
    BY <1>4
  <2> QED
    BY <1>1, <1>5, <2>1
<1> QED
  BY <1>6 DEF Largest

(* A loaded number is above those of the table, and it still is a number:  *)
(* the sum never wraps.                                                    *)
LEMMA NextOfAbove ==
  ASSUME NEW t \in Tables
  PROVE  /\ NextOf(t) \in 1 .. Invalid
         /\ \A i \in DOMAIN t : i < NextOf(t)
<1> DEFINE S == {0} \cup DOMAIN t
<1>1. Invalid \in Nat /\ Invalid >= 1
  BY DictionaryAssumption
<1>2. DOMAIN t \subseteq 0 .. Invalid - 1
  BY DEF Tables
<1>3. CASE DOMAIN t = {}
  BY <1>1, <1>3 DEF NextOf
<1>4. CASE DOMAIN t # {}
  <2>1. S \in SUBSET (0 .. Invalid - 1) /\ S # {} /\ Invalid - 1 \in Nat
    BY <1>1, <1>2
  <2>2. Largest(S) \in S /\ \A n \in S : n <= Largest(S)
    <3> HIDE DEF S
    <3> QED
      BY <2>1, LargestOfBounded
  <2> DEFINE m == Largest(S)
  <2>3. m \in Nat /\ m + 1 <= Invalid
    <3> HIDE DEF S
    <3>1. m \in 0 .. Invalid - 1
      BY <2>1, <2>2
    <3> HIDE DEF m
    <3> QED
      BY <1>1, <3>1
  <2>4. (m + 1) % (Invalid + 1) = m + 1
    <3> HIDE DEF m
    <3> QED
      BY <1>1, <2>3
  <2>5. NextOf(t) = m + 1
    BY <1>4, <2>4 DEF NextOf
  <2>6. \A i \in DOMAIN t : i \in Int /\ i <= m
    BY <1>1, <1>2, <2>2
  <2> QED
    <3> HIDE DEF m
    <3> QED
      BY <1>1, <2>3, <2>5, <2>6
<1> QED
  BY <1>3, <1>4

(* One entry more under a number above the others: a table again that      *)
(* keeps its entries.                                                      *)
LEMMA WithEntry ==
  ASSUME NEW t \in Tables, NEW i \in 0 .. Invalid - 1, NEW a \in App, i \notin DOMAIN t
  PROVE  /\ With(t, i, a) \in Tables
         /\ DOMAIN With(t, i, a) = DOMAIN t \cup {i}
         /\ Entries(t) \subseteq Entries(With(t, i, a))
         /\ <<i, a>> \in Entries(With(t, i, a))
         /\ Entries(With(t, i, a)) \subseteq Entries(t) \cup {<<i, a>>}
<1>1. DOMAIN t \in SUBSET (0 .. Invalid - 1) /\ t \in [DOMAIN t -> App]
  BY DEF Tables
<1>2. DOMAIN t \cup {i} \in SUBSET (0 .. Invalid - 1)
  BY <1>1
<1>3. With(t, i, a) \in [DOMAIN t \cup {i} -> App]
  BY <1>1 DEF With
<1>4. With(t, i, a) \in Tables
  BY <1>2, <1>3 DEF Tables
<1>5. With(t, i, a)[i] = a /\ \A j \in DOMAIN t : With(t, i, a)[j] = t[j]
  BY DEF With
<1>6. DOMAIN With(t, i, a) = DOMAIN t \cup {i}
  BY <1>3
<1>7. Entries(With(t, i, a)) \subseteq Entries(t) \cup {<<i, a>>}
  BY <1>5, <1>6 DEF Entries
<1>8. Entries(t) \cup {<<i, a>>} \subseteq Entries(With(t, i, a))
  BY <1>5, <1>6 DEF Entries
<1> QED
  BY <1>4, <1>6, <1>7, <1>8

-----------------------------------------------------------------------------
LEMMA DictionaryInit == Init => DictionaryInv
<1> SUFFICES ASSUME Init PROVE DictionaryInv
  OBVIOUS
<1>1. << >> \in Tables
  <2>1. {} \in SUBSET (0 .. Invalid - 1) /\ << >> \in [{} -> App]
    OBVIOUS
  <2> QED
    BY <2>1 DEF Tables
<1>2. names = << >> /\ loaded = FALSE /\ block = {} /\ numbered = {}
  BY DEF Init
<1>3. CASE file = Absent /\ record = {}
  BY <1>1, <1>2, <1>3 DEF DictionaryInv, Attributed, Absent
<1>4. ASSUME NEW t \in Tables, file = Table(t), record \in SUBSET {<<i, t[i]>> : i \in DOMAIN t}
      PROVE  DictionaryInv
  <2>1. Attributed
    BY <1>4 DEF Attributed, Table
  <2>2. record \in SUBSET ((0 .. Invalid - 1) \X App)
    BY <1>4 DEF Tables
  <2> QED
    BY <1>1, <1>2, <1>4, <2>1, <2>2 DEF DictionaryInv
<1> QED
  BY <1>3, <1>4 DEF Init

(* A load: the numbers in use are those of the table that was read, and    *)
(* without one the store starts only where nothing is in use.              *)
LEMMA EnsureLoadedStep ==
  ASSUME DictionaryInv, EnsureLoaded
  PROVE  DictionaryInv'
<1>1. /\ file' = file /\ record' = record /\ block' = {} /\ numbered' = {} /\ thrown' = thrown
      /\ Attributed'
  BY DEF DictionaryInv, EnsureLoaded, Attributed
<1>2. loaded' \in BOOLEAN /\ (loaded' => file.kind = "table" \/ ~RequiresAppDictionary)
  <2> DEFINE ready == file.kind = "table" \/ ~RequiresAppDictionary
  <2>1. ready \in BOOLEAN
    OBVIOUS
  <2>2. loaded' = ready \/ loaded' = FALSE
    <3> HIDE DEF ready
    <3>1. loaded' \in {ready} \cup (IF MayBlock THEN {FALSE} ELSE {})
      BY DEF EnsureLoaded, ready
    <3> QED
      BY <3>1
  <2> QED
    BY <2>1, <2>2
<1>3. CASE file.kind = "table"
  <2>1. file.names \in Tables
    BY <1>3 DEF DictionaryInv, Absent, Refused, Table
  <2>2. names' = file.names /\ next' = NextOf(file.names)
    BY <1>3, Zenon DEF EnsureLoaded, LoadAppDictionary
  <2>3. record \ thrown \subseteq Entries(file.names)
    <3> SUFFICES ASSUME NEW p \in record \ thrown PROVE p \in Entries(file.names)
      OBVIOUS
    <3>1. \E i \in DOMAIN file.names : p[1] = i /\ p[2] = file.names[i]
      BY <1>3 DEF DictionaryInv, Attributed
    <3>2. p = <<p[1], p[2]>>
      BY DEF DictionaryInv
    <3> QED
      BY <3>1, <3>2 DEF Entries
  <2>4. Agrees'
    BY <1>1, <1>3, <2>1, <2>2, <2>3, NextOfAbove DEF Agrees
  <2> QED
    BY <1>1, <1>2, <2>1, <2>2, <2>4 DEF DictionaryInv
<1>4. CASE file.kind # "table"
  <2>1. names' = << >> /\ next' = 1
    BY <1>4, Zenon DEF EnsureLoaded, LoadAppDictionary
  <2>2. << >> \in Tables
    <3>1. {} \in SUBSET (0 .. Invalid - 1) /\ << >> \in [{} -> App]
      OBVIOUS
    <3> QED
      BY <3>1 DEF Tables
  <2>3. loaded' => file = Absent /\ record = {}
    BY <1>2, <1>4 DEF RequiresAppDictionary
  <2>4. loaded' => Agrees'
    <3>1. Entries(<< >>) = {}
      BY DEF Entries
    <3> QED
      BY <1>1, <2>1, <2>3, <3>1, DictionaryAssumption DEF Agrees
  <2> QED
    BY <1>1, <1>2, <2>1, <2>2, <2>4 DEF DictionaryInv
<1> QED
  BY <1>3, <1>4

(* A new application gets a number above those in use, so the table that   *)
(* is saved keeps what the history needs.                                  *)
LEMMA AssignStep ==
  ASSUME DictionaryInv, NEW a \in App, loaded, Assign(a)
  PROVE  DictionaryInv'
<1> DEFINE t == With(names, next, a)
<1>1. Agrees /\ next \in Nat /\ next # Invalid
  BY DictionaryAssumption DEF DictionaryInv, Agrees, Assign
<1>2. next \in 0 .. Invalid - 1 /\ next + 1 \in 1 .. Invalid
  BY <1>1, DictionaryAssumption DEF Agrees
<1>3. next \notin DOMAIN names
  BY <1>1 DEF Agrees
<1>4. names \in Tables
  BY DEF DictionaryInv
<1>5. /\ t \in Tables /\ DOMAIN t = DOMAIN names \cup {next}
      /\ Entries(names) \subseteq Entries(t) /\ <<next, a>> \in Entries(t)
      /\ Entries(t) \subseteq Entries(names) \cup {<<next, a>>}
  BY <1>2, <1>3, <1>4, WithEntry
<1>6. /\ names' = t /\ next' = next + 1 /\ file' = Table(t)
      /\ numbered' = numbered \cup {<<next, a>>} /\ thrown' = thrown \ Entries(t)
      /\ record' = record /\ loaded' = TRUE /\ block' = block
  BY Zenon DEF Assign, Number
<1> HIDE DEF t
<1>7. file'.kind = "table" /\ file'.names = t
  BY <1>6 DEF Table
<1>8. \A i \in DOMAIN t : i < next + 1
  <2>1. \A i \in DOMAIN names : i \in Int /\ i < next
    BY <1>1, <1>4 DEF Agrees, Tables
  <2> QED
    BY <1>1, <1>5, <2>1
<1>9. Agrees'
  BY <1>1, <1>2, <1>5, <1>6, <1>7, <1>8 DEF Agrees
<1>10. Attributed'
  <2> SUFFICES ASSUME NEW p \in record \ (thrown \ Entries(t)) PROVE p[1] \in DOMAIN t /\ t[p[1]] = p[2]
    BY <1>6, <1>7 DEF Attributed
  <2>1. p \in Entries(t)
    BY <1>1, <1>5 DEF Agrees
  <2> QED
    BY <2>1 DEF Entries
<1> QED
  BY <1>5, <1>6, <1>9, <1>10 DEF DictionaryInv

(* A failed save may leave its entry in the file, under the number that is *)
(* next and not in use.                                                    *)
LEMMA AssignFailsStep ==
  ASSUME DictionaryInv, NEW a \in App, loaded, AssignFails(a)
  PROVE  DictionaryInv'
<1> DEFINE t == With(names, next, a)
<1>1. Agrees /\ next \in Nat /\ next # Invalid
  BY DictionaryAssumption DEF DictionaryInv, Agrees, AssignFails
<1>2. next \in 0 .. Invalid - 1 /\ next \notin DOMAIN names /\ names \in Tables
  BY <1>1, DictionaryAssumption DEF Agrees, DictionaryInv
<1>3. t \in Tables /\ Entries(names) \subseteq Entries(t)
  BY <1>2, WithEntry
<1>4. /\ file' \in {file, Table(t)}
      /\ names' = names /\ next' = next /\ block' = {} /\ numbered' = {} /\ thrown' = thrown
      /\ record' = record /\ loaded' = TRUE
  BY Zenon DEF AssignFails, RolledBack, GiveUp
<1> HIDE DEF t
<1>5. CASE file' = file
  BY <1>1, <1>4, <1>5 DEF DictionaryInv, Agrees, Attributed, Held
<1>6. CASE file' = Table(t)
  <2>1. file'.kind = "table" /\ file'.names = t
    BY <1>6 DEF Table
  <2>2. Agrees'
    BY <1>1, <1>3, <1>4, <2>1 DEF Agrees
  <2>3. Attributed'
    <3> SUFFICES ASSUME NEW p \in record \ thrown PROVE p[1] \in DOMAIN t /\ t[p[1]] = p[2]
      BY <1>4, <2>1 DEF Attributed
    <3>1. p \in Entries(t)
      BY <1>1, <1>3 DEF Agrees
    <3> QED
      BY <3>1 DEF Entries
  <2> QED
    BY <1>3, <1>4, <1>6, <2>2, <2>3 DEF DictionaryInv
<1> QED
  BY <1>4, <1>5, <1>6

(* An exception leaves an entry in memory that no file has.                *)
LEMMA AssignThrowsStep ==
  ASSUME DictionaryInv, NEW a \in App, loaded, AssignThrows(a)
  PROVE  DictionaryInv'
<1> DEFINE t == With(names, next, a)
<1>1. Agrees /\ next \in Nat /\ next # Invalid /\ names \in Tables
  BY DictionaryAssumption DEF DictionaryInv, Agrees, AssignThrows
<1>2. next \in 0 .. Invalid - 1 /\ next + 1 \in 1 .. Invalid /\ next \notin DOMAIN names
  BY <1>1, DictionaryAssumption DEF Agrees
<1>3. /\ t \in Tables /\ DOMAIN t = DOMAIN names \cup {next}
      /\ Entries(names) \subseteq Entries(t) /\ <<next, a>> \in Entries(t)
      /\ Entries(t) \subseteq Entries(names) \cup {<<next, a>>}
  BY <1>1, <1>2, WithEntry
<1>4. /\ names' = t /\ next' = next + 1 /\ thrown' = thrown \cup {<<next, a>>}
      /\ block' = {} /\ numbered' = {}
      /\ file' = file /\ record' = record /\ loaded' = TRUE
  BY Zenon DEF AssignThrows, GiveUp
<1> HIDE DEF t
<1>5. \A i \in DOMAIN t : i < next + 1
  <2>1. \A i \in DOMAIN names : i \in Int /\ i < next
    BY <1>1 DEF Agrees, Tables
  <2> QED
    BY <1>1, <1>3, <2>1
<1>6. Agrees'
  BY <1>1, <1>2, <1>3, <1>4, <1>5 DEF Agrees, Held
<1>7. Attributed'
  BY <1>4 DEF DictionaryInv, Attributed
<1> QED
  BY <1>3, <1>4, <1>6, <1>7 DEF DictionaryInv

(* What is written was numbered from the tables in memory, whose entries   *)
(* the file has unless their save threw.                                   *)
LEMMA WriteStep ==
  ASSUME DictionaryInv, loaded, Write
  PROVE  DictionaryInv'
<1>1. /\ record' = record \cup numbered /\ block' = {} /\ numbered' = {}
      /\ file' = file /\ names' = names /\ next' = next /\ loaded' = TRUE /\ thrown' = thrown
  BY Zenon DEF Write, GiveUp
<1>2. Agrees
  BY DEF DictionaryInv
<1>3. Agrees'
  BY <1>1, <1>2 DEF Agrees, Held
<1>4. record' \in SUBSET ((0 .. Invalid - 1) \X App)
  <2>1. Entries(names) \subseteq (0 .. Invalid - 1) \X App
    BY DEF DictionaryInv, Tables, Entries
  <2> QED
    BY <1>1, <1>2, <2>1 DEF DictionaryInv, Agrees
<1>5. Attributed'
  <2> SUFFICES ASSUME file.kind = "table", NEW p \in record' \ thrown
               PROVE  p[1] \in DOMAIN file.names /\ file.names[p[1]] = p[2]
    BY <1>1 DEF Attributed
  <2>1. file # Absent
    BY DEF Absent
  <2>2. p \in Entries(file.names)
    BY <1>1, <1>2, <2>1 DEF Agrees
  <2> QED
    BY <2>2 DEF Entries
<1> QED
  BY <1>1, <1>3, <1>4, <1>5 DEF DictionaryInv

(* Every step keeps DictionaryInv.                                         *)
LEMMA DictionaryStep == DictionaryInv /\ [Next]_vars => DictionaryInv'
<1> SUFFICES ASSUME DictionaryInv, [Next]_vars PROVE DictionaryInv'
  OBVIOUS
<1>1. CASE EnsureLoaded
  BY <1>1, EnsureLoadedStep
<1>2. ASSUME NEW apps \in SUBSET App, Begin(apps)
      PROVE  DictionaryInv'
  BY <1>2 DEF DictionaryInv, Begin, Agrees, Attributed, Held
<1>3. ASSUME NEW a \in block, Found(a) \/ Exhausted(a) \/ Assign(a) \/ AssignFails(a) \/ AssignThrows(a)
      PROVE  DictionaryInv'
  <2>1. a \in App /\ loaded
    BY <1>3 DEF DictionaryInv
  <2>2. CASE Found(a)
    <3>1. PICK i \in Known(a) : numbered' = numbered \cup {<<i, a>>}
      BY <2>2 DEF Found, Number
    <3>2. <<i, a>> \in Entries(names)
      BY DEF Known, Entries
    <3> QED
      BY <2>1, <2>2, <3>1, <3>2 DEF DictionaryInv, Found, Agrees, Attributed, Held
  <2>3. CASE Exhausted(a)
    BY <2>1, <2>3 DEF DictionaryInv, Exhausted, GiveUp, Agrees, Attributed, Held
  <2>4. CASE Assign(a)
    BY <2>1, <2>4, AssignStep
  <2>5. CASE AssignFails(a)
    BY <2>1, <2>5, AssignFailsStep
  <2>6. CASE AssignThrows(a)
    BY <2>1, <2>6, AssignThrowsStep
  <2> QED
    BY <1>3, <2>2, <2>3, <2>4, <2>5, <2>6
<1>4. CASE Write
  <2>1. loaded
    BY <1>4 DEF DictionaryInv, Write
  <2> QED
    BY <1>4, <2>1, WriteStep
<1>5. CASE Dies
  <2>1. << >> \in Tables
    <3>1. {} \in SUBSET (0 .. Invalid - 1) /\ << >> \in [{} -> App]
      OBVIOUS
    <3> QED
      BY <3>1 DEF Tables
  <2> QED
    BY <1>5, <2>1 DEF DictionaryInv, Dies, GiveUp, Attributed
<1>6. CASE Outside
  BY <1>6 DEF DictionaryInv, Outside, Attributed, Absent, Refused
<1>7. CASE UNCHANGED vars
  BY <1>7 DEF vars, DictionaryInv, Agrees, Attributed, Held
<1> QED
  BY <1>1, <1>2, <1>3, <1>4, <1>5, <1>6, <1>7 DEF Next, EnsureAppId

(* The invariant holds in every reachable state.                           *)
LEMMA Invariance == Spec => []DictionaryInv
  BY DictionaryInit, DictionaryStep, PTL DEF Spec

-----------------------------------------------------------------------------
(* Attribution: as long as the dictionary can be read, every number of the *)
(* history has the name it was written for, for any width of a number and  *)
(* any number of failing saves, exceptions and deaths, but for the numbers *)
(* that an exception has left in memory and no later save has written      *)
(* (HistoryTrafficStore.cpp, EnsureAppId and SaveAppDictionary).           *)
THEOREM NamesKept == Spec => []Attributed
<1>1. DictionaryInv => Attributed
  BY DEF DictionaryInv
<1> QED
  BY <1>1, Invariance, PTL

(* A dictionary that is refused, or missing while records need it, keeps   *)
(* the store from loading, and nothing is written without loading: neither *)
(* file changes (EnsureLoaded, RequiresAppDictionary).  Only a process     *)
(* that holds the names of all records in memory goes on without a file.   *)
THEOREM RefusalStops == Spec => NothingRenumbered
<1> DEFINE Stops == file = Refused \/ (file = Absent /\ ~(record \subseteq Held))
<1>1. ASSUME DictionaryInv, [Next]_vars, Stops
      PROVE  file' = file /\ record' = record
  <2>1. file.kind # "table"
    BY <1>1 DEF Refused, Absent
  <2>2. ~loaded /\ block = {}
    BY <1>1, <2>1 DEF DictionaryInv, Agrees, Refused, Absent
  <2> QED
    BY <1>1, <2>1, <2>2
    DEF Next, EnsureLoaded, EnsureAppId, Write, Dies, Outside, Begin, vars
<1>2. DictionaryInv /\ [Next]_vars => [Stops => file' = file /\ record' = record]_vars
  BY <1>1
<1> QED
  BY <1>2, Invariance, PTL DEF Spec, NothingRenumbered
=============================================================================
