-------------------------- MODULE UsageHistory_proofs --------------------------
(***************************************************************************)
(* Proofs about the saved daily usage of UsageHistory, for any transcripts, *)
(* days, rows and writers, and a store of any capacity.                     *)
(***************************************************************************)
EXTENDS UsageHistory, FiniteSetTheorems, WellFoundedInduction, TLAPS

USE DEF cacheVars, workVars, boundVars

-----------------------------------------------------------------------------
(* Types *)

LEMMA EventsFact == TypeOK => Events \subseteq Event /\ DailyRows \in Store
<1>1. ASSUME TypeOK PROVE Events \subseteq Event
  BY <1>1 DEF TypeOK, Events, Entry, Content
<1>2. ASSUME TypeOK PROVE DailyRows \in Store
  <2>1. \A k \in Key : {e \in Events : LocalKey[DayOf[e]] = k} \in Content
    BY <1>1, <1>2 DEF Content
  <2>2. QED
    BY <2>1 DEF DailyRows, Store, Cell
<1>3. QED
  BY <1>1, <1>2

LEMMA StoreFact ==
  ASSUME NEW rows \in Store, NEW new \in Store
  PROVE  Pruned(Upserted(rows, new)) \in Store
<1>1. Upserted(rows, new) \in Store
  BY DEF Upserted, Store
<1>2. QED
  BY <1>1 DEF Pruned, Store

LEMMA InitType == Init => TypeOK
<1> SUFFICES ASSUME Init PROVE TypeOK
  OBVIOUS
<1>1. NoStore \in Store /\ NoReports \in [Kind -> {NoReport} \cup Content]
  BY DEF NoStore, Store, NoReports
<1>2. ingest \in [Writer -> Ingest \cup {Idle}] /\ ingest[Local] = Idle
  BY UsageHistoryAssumption DEF Init
<1>3. QED
  BY <1>1, <1>2 DEF Init, TypeOK, Steps

LEMMA TranscriptType ==
  ASSUME TypeOK, NEW f \in File, Delete(f) \/ \E e \in EventsOf[f] : Append(f, e)
  PROVE  TypeOK'
<1>1. CASE Delete(f)
  BY <1>1 DEF Delete, TypeOK
<1>2. ASSUME NEW e \in EventsOf[f], Append(f, e) PROVE TypeOK'
  <2>1. e \in Event
    BY UsageHistoryAssumption
  <2>2. disk' \in [File -> {NoFile, Deleted} \cup Content]
    BY <1>2, <2>1 DEF Append, TypeOK, Content
  <2>3. QED
    BY <1>2, <2>2 DEF Append, TypeOK
<1>3. QED
  BY <1>1, <1>2

LEMMA ReportType ==
  ASSUME TypeOK, NEW w \in Writer, Report(w)
  PROVE  TypeOK'
<1>1. PICK keys \in SUBSET KeysOf[w] \ {{}}, v \in Value :
        ingest' = [ingest EXCEPT ![w] =
                     [rows |-> [k \in Key |-> IF k \in keys THEN v ELSE NoRow], read |-> Idle]]
  BY DEF Report
<1>2. [rows |-> [k \in Key |-> IF k \in keys THEN v ELSE NoRow], read |-> Idle] \in Ingest
  BY DEF Ingest, Store, Cell
<1>3. ingest' \in [Writer -> Ingest \cup {Idle}] /\ ingest'[Local] = ingest[Local]
  BY <1>1, <1>2, UsageHistoryAssumption DEF Report, TypeOK
<1>4. reported' \in Nat
  BY DEF Report, TypeOK
<1>5. QED
  BY <1>3, <1>4 DEF Report, TypeOK

LEMMA ReturnType ==
  ASSUME TypeOK, NEW w \in Writer, NEW ok \in BOOLEAN, Return(w, ok), ingest[w] # Idle
  PROVE  /\ ingest' \in [Writer -> Ingest \cup {Idle}]
         /\ asked' \in Kind \cup {Idle} /\ step' \in Steps
         /\ asked' = Idle <=> step' = "idle"
         /\ ingest'[Local] = Idle <=> step' # "ingest"
         /\ step' = "scan" <=> step = "scan"
<1>1. ingest' \in [Writer -> Ingest \cup {Idle}]
  BY DEF Return, TypeOK
<1>2. CASE w = Local
  BY <1>1, <1>2, UsageHistoryAssumption DEF Return, TypeOK, Steps
<1>3. CASE w # Local
  BY <1>1, <1>3, UsageHistoryAssumption DEF Return, TypeOK
<1>4. QED
  BY <1>1, <1>2, <1>3

LEMMA IngestType ==
  ASSUME TypeOK, NEW w \in Writer, ReadStore(w) \/ WriteStore(w)
  PROVE  TypeOK'
<1>1. ingest[w] # Idle /\ ingest[w] \in Ingest
  BY DEF ReadStore, WriteStore, Holding, TypeOK
<1>2. CASE ingest' = [ingest EXCEPT ![w].read = store] /\ UNCHANGED <<step, asked>> /\ ReadStore(w)
  <2>1. [ingest[w] EXCEPT !.read = store] \in Ingest
    BY <1>1 DEF TypeOK, Ingest
  <2>2. ingest' \in [Writer -> Ingest \cup {Idle}] /\ (ingest'[Local] = Idle <=> ingest[Local] = Idle)
    BY <1>1, <1>2, <2>1, UsageHistoryAssumption, AbsenceAssumption DEF TypeOK
  <2>3. QED
    BY <1>2, <2>2 DEF ReadStore, TypeOK
<1>3. CASE ReadStore(w) /\ Return(w, FALSE)
  BY <1>1, <1>3, ReturnType DEF ReadStore, TypeOK
<1>4. CASE WriteStore(w)
  <2>1. store' \in Store
    <3>1. ingest[w].read \in Store /\ ingest[w].rows \in Store
      BY <1>1, <1>4 DEF WriteStore, Holding, Ingest
    <3>2. QED
      BY <1>4, <3>1, StoreFact DEF WriteStore, TypeOK
  <2>2. PICK ok \in BOOLEAN : Return(w, ok)
    BY <1>4 DEF WriteStore
  <2>3. QED
    BY <1>1, <1>4, <2>1, <2>2, ReturnType DEF WriteStore, TypeOK
<1>5. QED
  BY <1>2, <1>3, <1>4 DEF ReadStore

LEMMA AskType ==
  ASSUME TypeOK, NEW r \in Kind, Ask(r)
  PROVE  TypeOK'
<1>1. r # Idle
  BY AbsenceAssumption
<1>2. CASE fresh
  BY <1>1, <1>2 DEF Ask, TypeOK, Steps
<1>3. CASE ~fresh
  <2>0. PICK files \in SUBSET {f \in File : Present(f)} : Lists(files)
    BY <1>3 DEF Ask
  <2>1. /\ cached' \in [File -> Entry \cup {NoEntry}] /\ changed' \in BOOLEAN /\ todo' \subseteq File
        /\ faults' \in Nat /\ step' = "visit"
    BY <2>0 DEF Lists, Suffers, TypeOK
  <2>2. reports' \in [Kind -> {NoReport} \cup Content]
    BY <1>3 DEF Ask, NoReports
  <2>3. QED
    BY <1>1, <1>3, <2>1, <2>2 DEF Ask, TypeOK, Steps
<1>4. QED
  BY <1>2, <1>3

LEMMA RefreshType ==
  ASSUME TypeOK, Read \/ Refreshed \/ \E f \in File : Visit(f)
  PROVE  TypeOK'
<1>1. CASE Refreshed
  BY <1>1 DEF Refreshed, TypeOK, Steps
<1>2. ASSUME NEW f \in File, Visit(f) PROVE TypeOK'
  <2>1. CASE GivesUp
    BY <1>2, <2>1 DEF Visit, GivesUp, TypeOK, Steps
  <2>2. CASE Passes(f)
    BY <1>2, <2>2 DEF Visit, Passes, TypeOK
  <2>3. CASE Stamps(f)
    <3>1. [file |-> f, stamp |-> disk[f]] \in Scan
      BY <2>3 DEF Stamps, Present, TypeOK, Scan
    <3>2. QED
      BY <1>2, <2>3, <3>1, AbsenceAssumption DEF Visit, Stamps, TypeOK, Steps
  <2>4. QED
    BY <1>2, <2>1, <2>2, <2>3 DEF Visit
<1>3. CASE Read
  <2>1. scanning \in Scan
    BY <1>3 DEF Read, TypeOK
  <2>2. CASE GivesUp
    BY <1>3, <2>2 DEF Read, GivesUp, TypeOK, Steps
  <2>3. CASE ~GivesUp
    <3>0. PICK events \in SUBSET disk[scanning.file] :
            /\ Suffers(events # disk[scanning.file]) /\ Present(scanning.file)
            /\ cached' = [cached EXCEPT ![scanning.file] = Scanned(scanning.file, events)]
      BY <1>3, <2>3 DEF Read
    <3>1. Scanned(scanning.file, events) \in Entry
      <4>1. disk[scanning.file] \in Content /\ scanning.stamp \in Content
        BY <2>1, <3>0 DEF Present, TypeOK, Scan
      <4>2. events \in Content
        BY <3>0, <4>1 DEF Content
      <4>3. QED
        BY <4>1, <4>2 DEF Scanned, Entry
    <3>2. /\ cached' \in [File -> Entry \cup {NoEntry}] /\ todo' \subseteq File
          /\ faults' \in Nat
      BY <1>3, <2>1, <2>3, <3>0, <3>1 DEF Read, Suffers, TypeOK, Scan
    <3>3. QED
      BY <1>3, <2>3, <3>2 DEF Read, TypeOK, Steps
  <2>4. QED
    BY <2>2, <2>3
<1>4. QED
  BY <1>1, <1>2, <1>3

LEMMA AnswerType ==
  ASSUME TypeOK, Persist \/ Serve
  PROVE  TypeOK'
<1>1. Events \in Content /\ DailyRows \in Store
  BY EventsFact DEF Content
<1>2. CASE Persist
  <2>1. saved' \in [File -> Entry \cup {NoEntry}]
    BY <1>2 DEF Persist, TypeOK
  <2>2. reports' \in [Kind -> {NoReport} \cup Content]
    BY <1>1, <1>2 DEF Persist, TypeOK
  <2>3. CASE DailyRows = NoStore
    BY <1>2, <2>1, <2>2, <2>3 DEF Persist, TypeOK, Steps
  <2>4. CASE DailyRows # NoStore
    <3>1. [rows |-> DailyRows, read |-> Idle] \in Ingest
      BY <1>1 DEF Ingest
    <3>2. ingest' \in [Writer -> Ingest \cup {Idle}] /\ ingest'[Local] # Idle
      BY <1>2, <2>4, <3>1, UsageHistoryAssumption, AbsenceAssumption DEF Persist, TypeOK
    <3>3. QED
      BY <1>2, <2>1, <2>2, <2>4, <3>2 DEF Persist, TypeOK, Steps
  <2>5. QED
    BY <2>3, <2>4
<1>3. CASE Serve
  <2>1. reports' \in [Kind -> {NoReport} \cup Content]
    BY <1>1, <1>3 DEF Serve, TypeOK, NoReports
  <2>2. QED
    BY <1>3, <2>1 DEF Serve, TypeOK, Steps
<1>4. QED
  BY <1>2, <1>3

LEMMA CrashType ==
  ASSUME TypeOK, NEW p \in Process, Crash(p)
  PROVE  TypeOK'
<1>1. ingest' \in [Writer -> Ingest \cup {Idle}] /\ faults' \in Nat
  BY DEF Crash, TypeOK
<1>2. CASE p = Daemon
  <2>1. ingest'[Local] = Idle
    BY <1>2, UsageHistoryAssumption DEF Crash
  <2>2. QED
    BY <1>1, <1>2, <2>1 DEF Crash, TypeOK, Steps, NoReports
<1>3. CASE p # Daemon
  <2>1. ingest'[Local] = ingest[Local]
    BY <1>3, UsageHistoryAssumption DEF Crash
  <2>2. QED
    BY <1>1, <1>3, <2>1 DEF Crash, TypeOK
<1>4. QED
  BY <1>2, <1>3

LEMMA NextType == TypeOK /\ [Next]_vars => TypeOK'
<1> SUFFICES ASSUME TypeOK, [Next]_vars PROVE TypeOK'
  OBVIOUS
<1>1. ASSUME Expire PROVE TypeOK'
  BY <1>1 DEF Expire, TypeOK
<1>2. CASE UNCHANGED vars
  BY <1>2 DEF vars, TypeOK
<1>3. QED
  BY <1>1, <1>2, TranscriptType, ReportType, IngestType, AskType, RefreshType, AnswerType, CrashType
     DEF Next, Cache

(* The daemon's holder of the cache is always where its registers say.      *)
THEOREM HistoryTypes == Spec => []TypeOK
<1>1. QED
  BY InitType, NextType, PTL DEF Spec

-----------------------------------------------------------------------------
(* Reports *)

(* A refresh leaves no serialized report behind from before it. *)
ReportsInv ==
  /\ TypeOK /\ ReportsAreCurrent
  /\ step \in {"visit", "scan"} => reports = NoReports

LEMMA EventsFrame == cached' = cached => Events' = Events
BY DEF Events

LEMMA NoReportsCurrent == reports = NoReports => ReportsAreCurrent
BY DEF NoReports, ReportsAreCurrent

LEMMA ReportsStep == ReportsInv /\ [Next]_vars => ReportsInv'
<1> SUFFICES ASSUME ReportsInv, [Next]_vars PROVE ReportsInv'
  OBVIOUS
<1>1. TypeOK /\ TypeOK'
  BY NextType DEF ReportsInv
<1>2. ASSUME cached' = cached, reports' = reports, step' \in {"visit", "scan"} => step \in {"visit", "scan"}
      PROVE  ReportsInv'
  BY <1>1, <1>2, EventsFrame DEF ReportsInv, ReportsAreCurrent
<1>3. ASSUME reports' = NoReports PROVE ReportsInv'
  BY <1>1, <1>3, NoReportsCurrent DEF ReportsInv, ReportsAreCurrent, NoReports
<1>4. ASSUME NEW w \in Writer, Report(w) \/ ReadStore(w) \/ WriteStore(w) PROVE ReportsInv'
  <2>1. cached' = cached /\ reports' = reports /\ (step' = step \/ step' \in {"serve", "idle"})
    BY <1>4 DEF Report, ReadStore, WriteStore, Return
  <2>2. QED
    BY <1>2, <2>1
<1>5. ASSUME NEW r \in Kind, Ask(r) PROVE ReportsInv'
  BY <1>2, <1>3, <1>5 DEF Ask
<1>6. ASSUME NEW f \in File, Visit(f) PROVE ReportsInv'
  BY <1>2, <1>6 DEF Visit, GivesUp, Passes, Stamps
<1>7. CASE Read
  <2>1. reports' = NoReports
    BY <1>7 DEF Read, ReportsInv
  <2>2. QED
    BY <1>3, <2>1
<1>8. CASE Refreshed \/ Expire
  BY <1>2, <1>8 DEF Refreshed, Expire
<1>9. CASE Persist
  <2>1. cached' = cached /\ step' \in {"serve", "ingest"}
    BY <1>9 DEF Persist
  <2>2. \A r \in Kind : reports'[r] = reports[r] \/ reports'[r] = Events
    BY <1>1, <1>9 DEF Persist, TypeOK
  <2>3. QED
    BY <1>1, <2>1, <2>2, EventsFrame DEF ReportsInv, ReportsAreCurrent
<1>10. CASE Serve
  <2>1. cached' = cached /\ step' = "idle"
    BY <1>10 DEF Serve
  <2>2. \A r \in Kind : reports'[r] \in {reports[r], Events, NoReport}
    BY <1>1, <1>10 DEF Serve, TypeOK, NoReports
  <2>3. QED
    BY <1>1, <2>1, <2>2, EventsFrame DEF ReportsInv, ReportsAreCurrent
<1>11. ASSUME NEW p \in Process, Crash(p) PROVE ReportsInv'
  BY <1>2, <1>3, <1>11 DEF Crash
<1>12. ASSUME NEW f \in File, Delete(f) \/ \E e \in EventsOf[f] : Append(f, e) PROVE ReportsInv'
  BY <1>2, <1>12 DEF Delete, Append
<1>13. CASE UNCHANGED vars
  BY <1>2, <1>13 DEF vars
<1>14. QED
  BY <1>4, <1>5, <1>6, <1>7, <1>8, <1>9, <1>10, <1>11, <1>12, <1>13 DEF Next, Cache

(* A report that is served again says what the cache holds, also after a    *)
(* refresh that an error ended.                                             *)
THEOREM ServedAgainIsCurrent == Spec => []ReportsAreCurrent
<1>1. Init => ReportsInv
  BY InitType, NoReportsCurrent DEF Init, ReportsInv
<1>2. ReportsInv => ReportsAreCurrent
  BY DEF ReportsInv
<1>3. QED
  BY <1>1, <1>2, ReportsStep, PTL DEF Spec

-----------------------------------------------------------------------------
(* The store, with one process *)

(* Who holds the lock has read the store as it is. *)
Held ==
  \A v, w \in Writer : Holding(w) => ingest[w].read = store /\ (Holding(v) => v = w)

OneProcess == \A v, w \in Writer : ProcessOf[v] = ProcessOf[w]

LEMMA HeldStep ==
  ASSUME OneProcess, TypeOK, Held, [Next]_vars
  PROVE  Held'
<1>1. ASSUME store' = store, \A w \in Writer : ingest'[w] = ingest[w] \/ ~Holding(w)'
      PROVE  Held'
  BY <1>1 DEF Held, Holding
<1>2. ASSUME NEW w \in Writer, Return(w, TRUE) \/ Return(w, FALSE) PROVE
        ~Holding(w)' /\ \A v \in Writer : v # w => ingest'[v] = ingest[v]
  BY <1>2 DEF Return, Holding, TypeOK
<1>3. ASSUME NEW w \in Writer, Report(w) PROVE Held'
  <2>1. store' = store /\ ~Holding(w)' /\ \A v \in Writer : v # w => ingest'[v] = ingest[v]
    BY <1>3 DEF Report, Holding, TypeOK
  <2>2. QED
    BY <1>1, <2>1
<1>4. ASSUME NEW w \in Writer, ReadStore(w) PROVE Held'
  <2>1. store' = store /\ \A v \in Writer : ~Holding(v)
    BY <1>4 DEF ReadStore, LockFree, OneProcess
  <2>2. CASE Return(w, FALSE)
    BY <1>1, <1>2, <2>1, <2>2
  <2>3. CASE ingest' = [ingest EXCEPT ![w].read = store]
    <3>1. ingest[w] \in Ingest
      BY <1>4 DEF ReadStore, TypeOK
    <3>2. ingest'[w].read = store /\ \A v \in Writer : v # w => ingest'[v] = ingest[v]
      BY <2>3, <3>1 DEF Ingest, TypeOK
    <3>3. QED
      BY <2>1, <3>2 DEF Held, Holding
  <2>4. QED
    BY <1>4, <2>2, <2>3 DEF ReadStore
<1>5. ASSUME NEW w \in Writer, WriteStore(w) PROVE Held'
  <2>1. \A v \in Writer : ~Holding(v)'
    BY <1>2, <1>5 DEF WriteStore, Held, Holding
  <2>2. QED
    BY <2>1 DEF Held
<1>6. ASSUME NEW r \in Kind, Ask(r) PROVE Held'
  BY <1>1, <1>6 DEF Ask
<1>7. ASSUME NEW f \in File, Visit(f) PROVE Held'
  BY <1>1, <1>7 DEF Visit
<1>8. CASE Read \/ Refreshed \/ Serve \/ Expire
  BY <1>1, <1>8 DEF Read, Refreshed, Serve, Expire
<1>9. CASE Persist
  <2>1. store' = store /\ \A v \in Writer : ingest'[v] = ingest[v] \/ ~Holding(v)'
    BY <1>9 DEF Persist, Holding, TypeOK
  <2>2. QED
    BY <1>1, <2>1
<1>10. ASSUME NEW p \in Process, Crash(p) PROVE Held'
  <2>1. store' = store /\ \A v \in Writer : ingest'[v] = ingest[v] \/ ingest'[v] = Idle
    BY <1>10 DEF Crash, TypeOK
  <2>2. QED
    BY <1>1, <2>1 DEF Holding
<1>11. ASSUME NEW f \in File, Delete(f) \/ \E e \in EventsOf[f] : Append(f, e) PROVE Held'
  BY <1>1, <1>11 DEF Delete, Append
<1>12. CASE UNCHANGED vars
  BY <1>1, <1>12 DEF vars
<1>13. QED
  BY <1>3, <1>4, <1>5, <1>6, <1>7, <1>8, <1>9, <1>10, <1>11, <1>12 DEF Next, Cache

-----------------------------------------------------------------------------
(* Pruning *)

Less == {ss \in Nat \X Nat : ss[1] < ss[2]}

LEMMA HasSmallest ==
  ASSUME NEW T \in SUBSET Nat, T # {}
  PROVE  \E x \in T : \A y \in T : x <= y
<1>1. IsWellFoundedOn(Less, Nat)
  <2>1. IsWellFoundedOn(OpToRel(<, Nat), Nat)
    BY NatLessThanWellFounded
  <2>2. Less \cap (Nat \X Nat) \subseteq OpToRel(<, Nat)
    BY DEF OpToRel, Less
  <2>3. QED
    BY <2>1, <2>2, IsWellFoundedOnSubrelation
<1>2. PICK x \in T : \A y \in T : <<y, x>> \notin Less
  BY <1>1, WFMin
<1>3. ASSUME NEW y \in T PROVE x <= y
  <2>1. x \in Nat /\ y \in Nat /\ <<y, x>> \notin Less
    BY <1>2
  <2>2. ~(y < x)
    BY <2>1 DEF Less
  <2>3. QED
    BY <2>1, <2>2
<1>4. QED
  BY <1>3

(* The rows of a store that come after a key. *)
After(rows, k) == {j \in Key : rows[j] # NoRow /\ Rank[j] > Rank[k]}

LEMMA AfterFact ==
  ASSUME NEW rows, NEW k \in Key
  PROVE  /\ IsFiniteSet(After(rows, k)) /\ Cardinality(After(rows, k)) \in Nat
         /\ \A j \in After(rows, k) : Cardinality(After(rows, j)) < Cardinality(After(rows, k))
<1>1. \A j \in Key : IsFiniteSet(After(rows, j)) /\ Cardinality(After(rows, j)) \in Nat
  BY UsageHistoryAssumption, FS_Subset, FS_CardinalityType DEF After
<1>2. ASSUME NEW j \in After(rows, k)
      PROVE  Cardinality(After(rows, j)) < Cardinality(After(rows, k))
  <2>1. j \in Key /\ \A i \in Key : Rank[i] \in Nat
    BY UsageHistoryAssumption DEF After
  <2>2. After(rows, j) \subseteq After(rows, k) \ {j}
    BY <1>2, <2>1 DEF After
  <2>3. /\ IsFiniteSet(After(rows, k) \ {j})
        /\ Cardinality(After(rows, k) \ {j}) = Cardinality(After(rows, k)) - 1
    BY <1>1, <1>2, FS_RemoveElement
  <2>4. Cardinality(After(rows, j)) <= Cardinality(After(rows, k) \ {j})
    BY <2>2, <2>3, FS_Subset
  <2>5. QED
    BY <1>1, <2>1, <2>3, <2>4
<1>3. QED
  BY <1>1, <1>2

(* A row that pruning drops leaves a full store of newer rows: else take    *)
(* the dropped row with the fewest rows after it; all of them stay, and     *)
(* they are too many for a store that is not full.                          *)
LEMMA PrunedFact ==
  ASSUME NEW rows \in Store, NEW k \in Key, rows[k] # NoRow, Pruned(rows)[k] = NoRow
  PROVE  Cardinality({j \in Key : Pruned(rows)[j] # NoRow /\ Rank[j] > Rank[k]}) >= MaxRows
<1> DEFINE Kept == {j \in Key : Pruned(rows)[j] # NoRow /\ Rank[j] > Rank[k]}
           Dropped == {j \in Key : rows[j] # NoRow /\ Pruned(rows)[j] = NoRow}
           Counts == {Cardinality(After(rows, j)) : j \in Dropped}
<1>1. \A j \in Key : Pruned(rows)[j] = IF Cardinality(After(rows, j)) < MaxRows THEN rows[j] ELSE NoRow
  BY DEF Pruned, After
<1>2. Dropped # {} /\ Counts # {} /\ Counts \in SUBSET Nat
  BY AfterFact
<1> HIDE DEF Counts
<1>3. PICK j \in Dropped : \A i \in Dropped : Cardinality(After(rows, j)) <= Cardinality(After(rows, i))
  <2>1. PICK n \in Counts : \A i \in Counts : n <= i
    BY <1>2, HasSmallest
  <2>2. QED
    BY <2>1 DEF Counts
<1>4. Cardinality(After(rows, j)) \in Nat /\ Cardinality(After(rows, j)) >= MaxRows
  BY <1>1, AfterFact, UsageHistoryAssumption
<1>5. \A i \in After(rows, j) : i \in Key /\ Pruned(rows)[i] # NoRow
  <2>1. SUFFICES ASSUME NEW i \in After(rows, j), Pruned(rows)[i] = NoRow PROVE FALSE
    BY DEF After
  <2>2. i \in Dropped
    BY <2>1 DEF After
  <2>3. Cardinality(After(rows, i)) < Cardinality(After(rows, j)) /\ Cardinality(After(rows, i)) \in Nat
    BY <2>2, AfterFact
  <2>4. QED
    BY <1>3, <1>4, <2>2, <2>3
<1>6. Rank[j] >= Rank[k]
  <2>1. SUFFICES ASSUME Rank[j] < Rank[k] PROVE FALSE
    BY UsageHistoryAssumption
  <2>2. k \in After(rows, j)
    BY <2>1, UsageHistoryAssumption DEF After
  <2>3. QED
    BY <1>5, <2>2
<1>7. After(rows, j) \subseteq Kept
  BY <1>5, <1>6, UsageHistoryAssumption DEF After
<1>8. IsFiniteSet(Kept) /\ Cardinality(Kept) \in Nat
  BY UsageHistoryAssumption, FS_Subset, FS_CardinalityType
<1>9. Cardinality(After(rows, j)) <= Cardinality(Kept)
  BY <1>7, <1>8, FS_Subset
<1>10. QED
  BY <1>4, <1>8, <1>9, UsageHistoryAssumption

Retained ==
  \A k \in Key : store[k] # NoRow /\ store'[k] = NoRow =>
    Cardinality({j \in Key : store'[j] # NoRow /\ Rank[j] > Rank[k]}) >= MaxRows

LEMMA OnlyWritesChange ==
  ASSUME [Next]_vars, store' # store
  PROVE  \E w \in Writer : WriteStore(w) /\ store' = Pruned(Upserted(ingest[w].read, ingest[w].rows))
<1>1. \E w \in Writer : WriteStore(w)
  BY DEF Next, Cache, Delete, Append, Report, ReadStore, Ask, Visit, Read, Refreshed, Persist, Serve,
         Expire, Crash, vars
<1>2. QED
  BY <1>1 DEF WriteStore

LEMMA RetainedStep ==
  ASSUME TypeOK, Held, [Next]_vars
  PROVE  [Retained]_vars
<1>1. SUFFICES ASSUME store' # store PROVE Retained
  BY DEF Retained
<1>2. PICK w \in Writer : WriteStore(w) /\ store' = Pruned(Upserted(ingest[w].read, ingest[w].rows))
  BY <1>1, OnlyWritesChange
<1>3. ingest[w].read = store /\ ingest[w].rows \in Store /\ store \in Store
  BY <1>2 DEF WriteStore, Held, Holding, TypeOK, Ingest
<1>4. Upserted(store, ingest[w].rows) \in Store
  BY <1>3 DEF Upserted, Store
<1>5. \A k \in Key : store[k] # NoRow => Upserted(store, ingest[w].rows)[k] # NoRow
  BY <1>3 DEF Upserted
<1>6. QED
  BY <1>2, <1>3, <1>4, <1>5, PrunedFact DEF Retained

(* As long as one process writes the store, a row leaves it only for a full *)
(* store of newer ones.                                                     *)
THEOREM OneProcessRetainsRows ==
  ASSUME OneProcess
  PROVE  Spec => RowsRetained
<1>1. Init => Held
  BY DEF Init, Held, Holding
<1>2. TypeOK /\ Held /\ [Next]_vars => Held'
  BY HeldStep
<1>3. TypeOK /\ Held /\ [Next]_vars => [Retained]_vars
  BY RetainedStep
<1>4. QED
  BY <1>1, <1>2, <1>3, HistoryTypes, PTL DEF Spec, RowsRetained, Retained

-----------------------------------------------------------------------------
(* What is saved of the transcripts, while none is deleted *)

NoneDeleted == \A f \in File : disk[f] # Deleted

OnDisk(e) == \E f \in File : Present(f) /\ e \in disk[f]

(* The running refresh will note e, or already did, or misses its file. *)
Noted(e) ==
  \E f \in File :
    /\ Present(f) /\ e \in disk[f]
    /\ f \in todo \/ Missed(f) \/ e \in cached[f].events

(* An entry holds what its stamp stands for, unless its reading was cut     *)
(* short, and at most the file.                                             *)
Fits(entry, f) ==
  entry # NoEntry =>
    /\ Present(f) /\ entry.stamp \subseteq disk[f] /\ entry.events \subseteq disk[f]
    /\ entry.whole => entry.stamp \subseteq entry.events

MissedEvent(e) == \E f \in File : Missed(f) /\ e \in disk[f]

(* A refresh in progress has seen, or is about to see, all that is saved,   *)
(* but for what it misses.                                                  *)
SavedEvent(d, e) ==
  /\ DayOf[e] = d /\ OnDisk(e)
  /\ step \in {"visit", "scan"} => Noted(e)
  /\ step \in {"persist", "ingest"} => e \in Events \/ MissedEvent(e)

OthersRows ==
  \A w \in Writer, d \in Day :
    w # Local /\ ingest[w] # Idle => ingest[w].rows[LocalKey[d]] = NoRow

GrowthInv ==
  /\ \A f \in File : Fits(cached[f], f) /\ Fits(saved[f], f)
  /\ \A f \in todo : Present(f)
  /\ scanning # Idle => scanning.file \in todo /\ scanning.stamp \subseteq disk[scanning.file]
  /\ \A d \in Day : store[LocalKey[d]] # NoRow =>
       \A e \in store[LocalKey[d]] : SavedEvent(d, e)
  /\ step = "ingest" => ingest[Local].rows = DailyRows

SourcesApart == \A w \in Writer \ {Local}, d \in Day : LocalKey[d] \notin KeysOf[w]

LEMMA OthersRowsStep ==
  ASSUME SourcesApart, TypeOK, OthersRows, [Next]_vars
  PROVE  OthersRows'
<1>1. ASSUME \A w \in Writer \ {Local} : ingest'[w] \in {Idle, ingest[w]} PROVE OthersRows'
  BY <1>1 DEF OthersRows
<1>2. ASSUME NEW w \in Writer, Report(w) PROVE OthersRows'
  <2>1. PICK keys \in SUBSET KeysOf[w] \ {{}}, v \in Value :
          ingest' = [ingest EXCEPT ![w] =
                       [rows |-> [k \in Key |-> IF k \in keys THEN v ELSE NoRow], read |-> Idle]]
    BY <1>2 DEF Report
  <2>2. \A u \in Writer : u # w => ingest'[u] = ingest[u]
    BY <2>1 DEF TypeOK
  <2>3. \A d \in Day : LocalKey[d] \in Key /\ LocalKey[d] \notin keys
    BY <1>2, UsageHistoryAssumption DEF SourcesApart, Report
  <2>4. ingest'[w].rows = [k \in Key |-> IF k \in keys THEN v ELSE NoRow]
    BY <2>1 DEF TypeOK
  <2>5. QED
    BY <2>2, <2>3, <2>4 DEF OthersRows
<1>3. ASSUME NEW w \in Writer, ReadStore(w) PROVE OthersRows'
  <2>1. ingest[w] \in Ingest /\ ingest[w] # Idle
    BY <1>3 DEF ReadStore, TypeOK
  <2>2. ingest'[w] = Idle \/ (ingest'[w] # Idle => ingest'[w].rows = ingest[w].rows)
    BY <1>3, <2>1 DEF ReadStore, Return, TypeOK, Ingest
  <2>3. \A v \in Writer : v # w => ingest'[v] = ingest[v]
    BY <1>3 DEF ReadStore, Return, TypeOK
  <2>4. QED
    BY <2>1, <2>2, <2>3 DEF OthersRows
<1>4. ASSUME NEW w \in Writer, WriteStore(w) PROVE OthersRows'
  BY <1>1, <1>4 DEF WriteStore, Return, TypeOK
<1>5. ASSUME NEW p \in Process, Crash(p) PROVE OthersRows'
  BY <1>1, <1>5 DEF Crash
<1>6. ASSUME Persist PROVE OthersRows'
  BY <1>1, <1>6 DEF Persist, TypeOK
<1>7. ASSUME ingest' = ingest PROVE OthersRows'
  BY <1>1, <1>7
<1>8. QED
  BY <1>2, <1>3, <1>4, <1>5, <1>6, <1>7
     DEF Next, Cache, Delete, Append, Ask, Visit, Read, Refreshed, Serve, Expire, vars

LEMMA GrowthDisk ==
  ASSUME TypeOK, GrowthInv, NoneDeleted', NEW f \in File, Delete(f) \/ \E e \in EventsOf[f] : Append(f, e)
  PROVE  GrowthInv'
<1>1. ~Delete(f)
  BY DEF Delete, NoneDeleted, TypeOK
<1>2. PICK e \in EventsOf[f] : Append(f, e)
  BY <1>1
<1>3. \A g \in File : Present(g) => Present(g)' /\ disk[g] \subseteq disk'[g]
  <2>1. SUFFICES ASSUME NEW g \in File, Present(g) PROVE Present(g)' /\ disk[g] \subseteq disk'[g]
    OBVIOUS
  <2>2. CASE g = f
    <3>1. disk[f] \in Content /\ e \in Event
      BY <2>1, <2>2, UsageHistoryAssumption DEF Present, TypeOK
    <3>2. disk'[f] = disk[f] \cup {e}
      BY <1>2, <2>1, <2>2 DEF Append, Present, TypeOK
    <3>3. disk'[f] \in Content
      BY <3>1, <3>2 DEF Content
    <3>4. QED
      BY <2>2, <3>2, <3>3, AbsenceAssumption DEF Present
  <2>3. CASE g # f
    BY <1>2, <2>1, <2>3 DEF Append, Present, TypeOK
  <2>4. QED
    BY <2>2, <2>3
<1>4. \A g \in File : Fits(cached[g], g)' /\ Fits(saved[g], g)'
  BY <1>2, <1>3 DEF Append, GrowthInv, Fits
<1>5. scanning # Idle => scanning.file \in File /\ scanning.file \in todo
  BY DEF GrowthInv, TypeOK, Scan
<1>6. \A d \in Day : \A x : SavedEvent(d, x) => SavedEvent(d, x)'
  <2>1. Events' = Events
    BY <1>2 DEF Append, Events
  <2>2. \A x : OnDisk(x) => OnDisk(x)'
    BY <1>3 DEF OnDisk
  <2>3. \A x : (Noted(x) => Noted(x)') /\ (MissedEvent(x) => MissedEvent(x)')
    <3>1. \A g \in File : Missed(g) => Missed(g)'
      BY <1>2, <1>3 DEF Append, Missed
    <3>2. cached' = cached /\ todo' = todo
      BY <1>2 DEF Append
    <3>3. QED
      BY <1>3, <3>1, <3>2 DEF Noted, MissedEvent, Missed
  <2>4. QED
    BY <1>2, <2>1, <2>2, <2>3 DEF Append, SavedEvent
<1>7. DailyRows' = DailyRows
  BY <1>2 DEF Append, DailyRows, Events
<1>8. todo' = todo /\ todo \subseteq File
  BY <1>2 DEF Append, TypeOK
<1>9. QED
  BY <1>2, <1>3, <1>4, <1>5, <1>6, <1>7, <1>8 DEF Append, GrowthInv

(* A step that leaves the disk, the cache and the store alone, and does not *)
(* enter a stage of the refresh that asks for more.                         *)
LEMMA GrowthFrame ==
  ASSUME TypeOK, GrowthInv,
         disk' = disk, cached' = cached, store' = store, todo' = todo,
         \A f \in File : saved'[f] \in {saved[f], cached[f]},
         scanning' \in {scanning, Idle},
         \/ step' = step /\ ingest'[Local] = ingest[Local]
         \/ step' = step /\ step' = "ingest" /\ ingest'[Local].rows = ingest[Local].rows
         \/ step' \in {"idle", "serve"}
         \/ step = "persist" /\ step' = "ingest" /\ ingest'[Local].rows = DailyRows
  PROVE  GrowthInv'
<1>1. \A f : Present(f)' <=> Present(f)
  BY DEF Present
<1>2. Events' = Events /\ DailyRows' = DailyRows
  BY DEF Events, DailyRows
<1>3. \A f \in File : Fits(cached[f], f)' /\ Fits(saved[f], f)'
  BY <1>1 DEF GrowthInv, Fits
<1>4. \A e : (OnDisk(e)' <=> OnDisk(e)) /\ (Noted(e)' <=> Noted(e)) /\ (MissedEvent(e)' <=> MissedEvent(e))
  BY <1>1 DEF OnDisk, Noted, MissedEvent, Missed
<1>5. \A d \in Day : \A e : SavedEvent(d, e) => SavedEvent(d, e)'
  BY <1>2, <1>4 DEF SavedEvent
<1>6. \A d \in Day : store'[LocalKey[d]] # NoRow => \A e \in store'[LocalKey[d]] : SavedEvent(d, e)'
  BY <1>5 DEF GrowthInv
<1>7. scanning' # Idle => scanning'.file \in todo' /\ scanning'.stamp \subseteq disk'[scanning'.file]
  BY DEF GrowthInv
<1>8. step' = "ingest" => ingest'[Local].rows = DailyRows'
  BY <1>2 DEF GrowthInv
<1>9. QED
  BY <1>1, <1>3, <1>6, <1>7, <1>8 DEF GrowthInv

LEMMA GrowthAsk ==
  ASSUME TypeOK, GrowthInv, NoneDeleted, NEW r \in Kind, Ask(r)
  PROVE  GrowthInv'
<1>1. CASE fresh
  BY <1>1, GrowthFrame DEF Ask
<1>2. CASE ~fresh
  <2>0. PICK files \in SUBSET {f \in File : Present(f)} : Lists(files)
    BY <1>2 DEF Ask
  <2>1. /\ todo' = files /\ step' = "visit" /\ disk' = disk /\ saved' = saved
        /\ store' = store /\ scanning' = scanning /\ ingest' = ingest
        /\ \A f \in File : cached'[f] = IF f \in files THEN cached[f] ELSE NoEntry
    BY <1>2, <2>0 DEF Ask, Lists
  <2>2. \A f : Present(f)' <=> Present(f)
    BY <2>1 DEF Present
  <2>3. \A f \in File : Fits(cached[f], f)' /\ Fits(saved[f], f)'
    BY <2>1, <2>2 DEF GrowthInv, Fits
  <2>4. scanning = Idle
    BY DEF Ask, TypeOK
  <2>5. \A d \in Day : \A e : SavedEvent(d, e) => SavedEvent(d, e)'
    <3>1. \A f \in File : Present(f) => f \in todo' \/ Missed(f)'
      BY <2>1, <2>2 DEF Missed
    <3>2. \A e : OnDisk(e) => OnDisk(e)' /\ Noted(e)'
      BY <2>1, <2>2, <3>1 DEF OnDisk, Noted
    <3>3. QED
      BY <2>1, <3>2 DEF SavedEvent
  <2>6. QED
    BY <2>0, <2>1, <2>2, <2>3, <2>4, <2>5 DEF GrowthInv
<1>3. QED
  BY <1>1, <1>2

LEMMA GrowthVisit ==
  ASSUME TypeOK, GrowthInv, NEW f \in File, Visit(f)
  PROVE  GrowthInv'
<1>1. CASE GivesUp
  BY <1>1, GrowthFrame DEF Visit, GivesUp
<1>2. CASE Passes(f)
  <2>1. /\ todo' = todo \ {f} /\ disk' = disk /\ saved' = saved /\ cached' = cached /\ store' = store
        /\ scanning' = Idle /\ ingest' = ingest /\ step' = "visit" /\ step = "visit"
    BY <1>2 DEF Visit, Passes, TypeOK
  <2>2. \A g : Present(g)' <=> Present(g)
    BY <2>1 DEF Present
  <2>3. \A g \in File : Fits(cached[g], g)' /\ Fits(saved[g], g)'
    BY <2>1, <2>2 DEF GrowthInv, Fits
  <2>4. ~Missed(f) => disk[f] \subseteq cached[f].events
    BY <1>2 DEF Passes, Unchanged, Missed, GrowthInv, Fits
  <2>5. \A e : (OnDisk(e) => OnDisk(e)') /\ (Noted(e) => Noted(e)')
    <3>1. \A g : Missed(g)' <=> Missed(g)
      BY <2>1, <2>2 DEF Missed
    <3>2. QED
      BY <2>1, <2>2, <2>4, <3>1 DEF OnDisk, Noted
  <2>6. \A d \in Day : \A e : SavedEvent(d, e) => SavedEvent(d, e)'
    BY <2>1, <2>5 DEF SavedEvent
  <2>7. QED
    BY <2>1, <2>2, <2>3, <2>6 DEF GrowthInv
<1>3. CASE Stamps(f)
  <2>1. /\ todo' = todo /\ disk' = disk /\ saved' = saved /\ cached' = cached /\ store' = store
        /\ scanning' = [file |-> f, stamp |-> disk[f]] /\ ingest' = ingest
        /\ step' = "scan" /\ step = "visit" /\ f \in todo
    BY <1>3 DEF Visit, Stamps
  <2>2. \A g : Present(g)' <=> Present(g)
    BY <2>1 DEF Present
  <2>3. \A g \in File : Fits(cached[g], g)' /\ Fits(saved[g], g)'
    BY <2>1, <2>2 DEF GrowthInv, Fits
  <2>4. \A e : (OnDisk(e) => OnDisk(e)') /\ (Noted(e) => Noted(e)')
    BY <2>1, <2>2 DEF OnDisk, Noted, Missed
  <2>5. \A d \in Day : \A e : SavedEvent(d, e) => SavedEvent(d, e)'
    BY <2>1, <2>4 DEF SavedEvent
  <2>6. QED
    BY <2>1, <2>2, <2>3, <2>5 DEF GrowthInv
<1>4. QED
  BY <1>1, <1>2, <1>3 DEF Visit

LEMMA GrowthRead ==
  ASSUME TypeOK, GrowthInv, Read
  PROVE  GrowthInv'
<1>1. PICK f \in todo : f = scanning.file /\ f \in File /\ scanning # Idle /\ scanning.stamp \subseteq disk[f]
  BY DEF Read, TypeOK, Scan, GrowthInv
<1>2. CASE GivesUp
  BY <1>2, GrowthFrame DEF Read, GivesUp
<1>3. CASE ~GivesUp
  <2>1. /\ todo' = todo \ {f} /\ disk' = disk /\ saved' = saved /\ store' = store
        /\ scanning' = Idle /\ ingest' = ingest /\ step' = "visit" /\ step = "scan" /\ Present(f)
    BY <1>1, <1>3 DEF Read
  <2>2. PICK events \in SUBSET disk[f] : cached' = [cached EXCEPT ![f] = Scanned(f, events)]
    BY <1>1, <1>3 DEF Read
  <2>3. \A g : Present(g)' <=> Present(g)
    BY <2>1 DEF Present
  <2>4. /\ cached'[f] = [stamp |-> scanning.stamp, events |-> events, whole |-> events = disk[f]]
        /\ \A g \in File : g # f => cached'[g] = cached[g]
    BY <1>1, <2>2 DEF TypeOK, Scanned
  <2>5. cached'[f].stamp = scanning.stamp /\ cached'[f].events = events
        /\ (cached'[f].whole => events = disk[f])
    <3> DEFINE entry == cached'[f]
               file  == disk[f]
               stamp == scanning.stamp
    <3>1. entry = [stamp |-> stamp, events |-> events, whole |-> events = file]
      BY <2>4
    <3> HIDE DEF entry, file, stamp
    <3>2. entry.stamp = stamp /\ entry.events = events /\ (entry.whole => events = file)
      BY <3>1
    <3>3. QED
      BY <3>2 DEF entry, file, stamp
  <2>6. \A g \in File : Fits(cached[g], g)' /\ Fits(saved[g], g)'
    <3>1. Fits(cached[f], f)'
      BY <1>1, <2>1, <2>2, <2>3, <2>5 DEF Fits
    <3>2. QED
      BY <1>1, <2>1, <2>3, <2>4, <3>1 DEF GrowthInv, Fits
  <2>7. \A e : (OnDisk(e) => OnDisk(e)') /\ (Noted(e) => Noted(e)')
    <3>1. \A g \in File : g # f => (Missed(g)' <=> Missed(g))
      BY <2>3, <2>4 DEF Missed
    <3>2. ~Missed(f)' => events = disk[f]
      BY <2>1, <2>3, <2>5 DEF Missed
    <3>3. ASSUME NEW e, Noted(e) PROVE Noted(e)'
      <4>1. PICK g \in File : Present(g) /\ e \in disk[g] /\ (g \in todo \/ Missed(g) \/ e \in cached[g].events)
        BY <3>3 DEF Noted
      <4>2. CASE g = f
        BY <2>1, <2>3, <2>5, <3>2, <4>1, <4>2 DEF Noted
      <4>3. CASE g # f
        BY <2>1, <2>3, <2>4, <3>1, <4>1, <4>3 DEF Noted
      <4>4. QED
        BY <4>2, <4>3
    <3>4. QED
      BY <2>1, <2>3, <3>3 DEF OnDisk
  <2>8. \A d \in Day : \A e : SavedEvent(d, e) => SavedEvent(d, e)'
    BY <2>1, <2>7 DEF SavedEvent
  <2>9. QED
    BY <2>1, <2>3, <2>6, <2>8 DEF GrowthInv
<1>4. QED
  BY <1>2, <1>3

LEMMA GrowthRefreshed ==
  ASSUME TypeOK, GrowthInv, Refreshed
  PROVE  GrowthInv'
<1>1. /\ todo = {} /\ todo' = todo /\ disk' = disk /\ saved' = saved /\ cached' = cached
      /\ store' = store /\ scanning' = scanning /\ step' = "persist" /\ step = "visit"
  BY DEF Refreshed
<1>2. \A g : Present(g)' <=> Present(g)
  BY <1>1 DEF Present
<1>3. \A g \in File : Fits(cached[g], g)' /\ Fits(saved[g], g)'
  BY <1>1, <1>2 DEF GrowthInv, Fits
<1>4. \A e : (OnDisk(e) => OnDisk(e)') /\ (Noted(e) => e \in Events' \/ MissedEvent(e)')
  <2>1. \A f \in File : Missed(f)' <=> Missed(f)
    BY <1>1, <1>2 DEF Missed
  <2>2. ASSUME NEW e, Noted(e) PROVE e \in Events' \/ MissedEvent(e)'
    <3>1. PICK f \in File : e \in disk[f] /\ Present(f) /\ (Missed(f) \/ e \in cached[f].events)
      BY <1>1, <2>2 DEF Noted
    <3>2. CASE Missed(f)
      BY <1>1, <2>1, <3>1, <3>2 DEF MissedEvent
    <3>3. CASE ~Missed(f)
      BY <1>1, <3>1, <3>3 DEF Missed, Events
    <3>4. QED
      BY <3>2, <3>3
  <2>3. QED
    BY <1>1, <1>2, <2>2 DEF OnDisk
<1>5. \A d \in Day : \A e : SavedEvent(d, e) => SavedEvent(d, e)'
  BY <1>1, <1>4 DEF SavedEvent
<1>6. QED
  BY <1>1, <1>2, <1>3, <1>5 DEF GrowthInv

LEMMA GrowthCrash ==
  ASSUME TypeOK, GrowthInv, NEW p \in Process, Crash(p)
  PROVE  GrowthInv'
<1>1. CASE p # Daemon
  <2>1. ingest'[Local] = ingest[Local]
    BY <1>1, UsageHistoryAssumption DEF Crash
  <2>2. QED
    BY <1>1, <2>1, GrowthFrame DEF Crash
<1>2. CASE p = Daemon
  <2>1. /\ todo' = {} /\ disk' = disk /\ saved' = saved /\ cached' = saved
        /\ store' = store /\ scanning' = Idle /\ step' = "idle"
    BY <1>2 DEF Crash
  <2>2. \A g : Present(g)' <=> Present(g)
    BY <2>1 DEF Present
  <2>3. \A g \in File : Fits(cached[g], g)' /\ Fits(saved[g], g)'
    BY <2>1, <2>2 DEF GrowthInv, Fits
  <2>4. \A d \in Day : \A e : SavedEvent(d, e) => SavedEvent(d, e)'
    BY <2>1, <2>2 DEF SavedEvent, OnDisk
  <2>5. QED
    BY <2>1, <2>3, <2>4 DEF GrowthInv
<1>3. QED
  BY <1>1, <1>2

LEMMA GrowthRest ==
  ASSUME TypeOK, GrowthInv,
         \/ Persist \/ Serve \/ Expire \/ UNCHANGED vars
         \/ \E w \in Writer : ReadStore(w) \/ Report(w)
  PROVE  GrowthInv'
<1>1. CASE Persist
  <2>1. \A f \in File : saved'[f] \in {saved[f], cached[f]}
    BY <1>1 DEF Persist
  <2>2. step = "persist" /\ (step' = "serve" \/ (step' = "ingest" /\ ingest'[Local].rows = DailyRows))
    BY <1>1, UsageHistoryAssumption DEF Persist, TypeOK
  <2>3. QED
    BY <1>1, <2>1, <2>2, GrowthFrame DEF Persist
<1>2. CASE Serve
  BY <1>2, GrowthFrame DEF Serve
<1>3. CASE Expire \/ UNCHANGED vars
  BY <1>3, GrowthFrame DEF Expire, vars
<1>4. ASSUME NEW w \in Writer, Report(w) PROVE GrowthInv'
  <2>1. ingest'[Local] = ingest[Local]
    BY <1>4, UsageHistoryAssumption DEF Report, TypeOK
  <2>2. QED
    BY <1>4, <2>1, GrowthFrame DEF Report
<1>5. ASSUME NEW w \in Writer, ReadStore(w) PROVE GrowthInv'
  <2>1. \/ step' = step /\ ingest'[Local] = ingest[Local]
        \/ step' = step /\ step' = "ingest" /\ ingest'[Local].rows = ingest[Local].rows
        \/ step' \in {"idle", "serve"}
    <3>1. CASE w # Local
      BY <1>5, <3>1, UsageHistoryAssumption DEF ReadStore, Return, TypeOK
    <3>2. CASE w = Local
      <4>1. step = "ingest" /\ ingest[Local] \in Ingest
        BY <1>5, <3>2 DEF ReadStore, TypeOK
      <4>2. QED
        BY <1>5, <3>2, <4>1 DEF ReadStore, Return, TypeOK, Ingest
    <3>3. QED
      BY <3>1, <3>2
  <2>2. QED
    BY <1>5, <2>1, GrowthFrame DEF ReadStore
<1>6. QED
  BY <1>1, <1>2, <1>3, <1>4, <1>5

(* What a row of the transcripts becomes when the store is written. *)
LEMMA WrittenRow ==
  ASSUME TypeOK, Held, OthersRows, GrowthInv, NEW w \in Writer, WriteStore(w), NEW d \in Day
  PROVE  \/ store'[LocalKey[d]] \in {NoRow, store[LocalKey[d]]}
         \/ w = Local /\ store'[LocalKey[d]] = {e \in Events : LocalKey[DayOf[e]] = LocalKey[d]}
<1> DEFINE k == LocalKey[d]
<1>1. k \in Key
  BY UsageHistoryAssumption
<1>2. CASE store' = store
  BY <1>2
<1>3. CASE store' = Pruned(Upserted(ingest[w].read, ingest[w].rows))
  <2>1. ingest[w] # Idle /\ ingest[w].read = store
    BY DEF WriteStore, Held, Holding
  <2>2. Upserted(store, ingest[w].rows)[k] \in {store[k], ingest[w].rows[k]} /\
        (ingest[w].rows[k] = NoRow => Upserted(store, ingest[w].rows)[k] = store[k])
    BY <1>1 DEF Upserted
  <2>3. store'[k] \in {NoRow, Upserted(store, ingest[w].rows)[k]}
    BY <1>1, <1>3, <2>1 DEF Pruned
  <2>4. CASE w # Local
    BY <2>1, <2>2, <2>3, <2>4 DEF OthersRows
  <2>5. CASE w = Local
    <3>1. ingest[w].rows = DailyRows
      BY <2>1, <2>5 DEF GrowthInv, TypeOK
    <3>2. DailyRows[k] \in {NoRow, {e \in Events : LocalKey[DayOf[e]] = k}}
      BY <1>1 DEF DailyRows
    <3>3. QED
      BY <2>2, <2>3, <2>5, <3>1, <3>2
  <2>6. QED
    BY <2>4, <2>5
<1>4. QED
  BY <1>2, <1>3 DEF WriteStore

(* The events of a day's row are the cached events of the day. *)
LEMMA DayFact ==
  ASSUME TypeOK, NEW d \in Day
  PROVE  {e \in Events : LocalKey[DayOf[e]] = LocalKey[d]} = {e \in Events : DayOf[e] = d}
<1>1. \A e \in Events : DayOf[e] \in Day
  BY EventsFact, UsageHistoryAssumption
<1>2. QED
  BY <1>1, UsageHistoryAssumption

LEMMA GrowthWrite ==
  ASSUME TypeOK, Held, OthersRows, GrowthInv, NEW w \in Writer, WriteStore(w)
  PROVE  GrowthInv'
<1>1. /\ todo' = todo /\ disk' = disk /\ saved' = saved /\ cached' = cached /\ scanning' = scanning
      /\ (w = Local => step = "ingest" /\ step' \in {"serve", "idle"})
      /\ (w # Local => step' = step /\ ingest'[Local] = ingest[Local])
  BY UsageHistoryAssumption DEF WriteStore, Holding, Return, TypeOK
<1>2. \A g : Present(g)' <=> Present(g)
  BY <1>1 DEF Present
<1>3. \A g \in File : Fits(cached[g], g)' /\ Fits(saved[g], g)'
  BY <1>1, <1>2 DEF GrowthInv, Fits
<1>4. Events' = Events /\ DailyRows' = DailyRows
  BY <1>1 DEF Events, DailyRows
<1>5. \A e : (OnDisk(e) => OnDisk(e)') /\ (Noted(e) => Noted(e)') /\ (MissedEvent(e) => MissedEvent(e)')
  BY <1>1, <1>2 DEF OnDisk, Noted, MissedEvent, Missed
<1>6. ASSUME NEW d \in Day, store'[LocalKey[d]] # NoRow, NEW e \in store'[LocalKey[d]]
      PROVE  SavedEvent(d, e)'
  <2>1. CASE store'[LocalKey[d]] = store[LocalKey[d]]
    <3>1. SavedEvent(d, e)
      BY <1>6, <2>1 DEF GrowthInv
    <3>2. QED
      BY <1>1, <1>4, <1>5, <3>1 DEF SavedEvent
  <2>2. CASE w = Local /\ store'[LocalKey[d]] = {x \in Events : LocalKey[DayOf[x]] = LocalKey[d]}
    <3>1. e \in Events /\ DayOf[e] = d
      BY <1>6, <2>2, DayFact
    <3>2. OnDisk(e)
      BY <3>1 DEF Events, OnDisk, GrowthInv, Fits
    <3>3. QED
      BY <1>1, <1>5, <2>2, <3>1, <3>2 DEF SavedEvent
  <2>3. QED
    BY <1>6, <2>1, <2>2, WrittenRow
<1>7. QED
  BY <1>1, <1>2, <1>3, <1>4, <1>6 DEF GrowthInv

HistoryInv == TypeOK /\ Held /\ OthersRows /\ (NoneDeleted => GrowthInv)

LEMMA HistoryStep ==
  ASSUME OneProcess, SourcesApart, HistoryInv, [Next]_vars
  PROVE  HistoryInv'
<1>1. TypeOK' /\ Held' /\ OthersRows'
  BY NextType, HeldStep, OthersRowsStep DEF HistoryInv
<1>2. NoneDeleted' => NoneDeleted
  BY DEF Next, Cache, Delete, Append, Report, ReadStore, WriteStore, Ask, Visit, Read, Refreshed, Persist,
         Serve, Expire, Crash, vars, NoneDeleted, TypeOK, HistoryInv
<1>3. ASSUME NoneDeleted' PROVE GrowthInv'
  <2>1. TypeOK /\ Held /\ OthersRows /\ GrowthInv /\ NoneDeleted
    BY <1>2, <1>3 DEF HistoryInv
  <2>2. ASSUME NEW f \in File, Delete(f) \/ \E e \in EventsOf[f] : Append(f, e) PROVE GrowthInv'
    BY <1>3, <2>1, <2>2, GrowthDisk
  <2>3. QED
    BY <2>1, <2>2, GrowthAsk, GrowthVisit, GrowthRead, GrowthRefreshed, GrowthCrash, GrowthRest, GrowthWrite
       DEF Next, Cache
<1>4. QED
  BY <1>1, <1>3 DEF HistoryInv

Grows ==
  \A d \in Day :
    LET old == store[LocalKey[d]]  new == store'[LocalKey[d]]
    IN  (\A f \in File : disk[f] # Deleted) /\ old # NoRow /\ new # NoRow =>
          \A e \in old \ new : \E f \in File : Missed(f) /\ e \in disk[f]

LEMMA GrowsStep ==
  ASSUME HistoryInv, [Next]_vars
  PROVE  [Grows]_vars
<1>1. SUFFICES ASSUME NEW d \in Day, NoneDeleted, store[LocalKey[d]] # NoRow, store'[LocalKey[d]] # NoRow
               PROVE  \A e \in store[LocalKey[d]] \ store'[LocalKey[d]] : MissedEvent(e)
  BY DEF Grows, NoneDeleted, MissedEvent
<1>2. CASE store' = store
  BY <1>2
<1>3. CASE store' # store
  <2>1. PICK w \in Writer : WriteStore(w)
    BY <1>3, OnlyWritesChange
  <2>2. CASE store'[LocalKey[d]] = store[LocalKey[d]]
    BY <2>2
  <2>3. CASE w = Local /\ store'[LocalKey[d]] = {e \in Events : LocalKey[DayOf[e]] = LocalKey[d]}
    <3>1. step = "ingest"
      BY <2>1, <2>3 DEF WriteStore, Holding, HistoryInv, TypeOK
    <3>2. \A e \in store[LocalKey[d]] : DayOf[e] = d /\ (e \in Events \/ MissedEvent(e))
      BY <1>1, <3>1 DEF HistoryInv, GrowthInv, SavedEvent
    <3>3. QED
      BY <2>3, <3>2
  <2>4. QED
    BY <1>1, <2>1, <2>2, <2>3, WrittenRow DEF HistoryInv
<1>4. QED
  BY <1>2, <1>3

(* As long as one process writes the store and no other source claims the   *)
(* rows of the transcripts, the saved days only grow while the transcripts  *)
(* are there, through files that cannot be opened, failed writes and        *)
(* restarts: what a day loses is in a file that the refresh did not list,   *)
(* or the reading of which was cut short.                                   *)
THEOREM SavedDaysGrow ==
  ASSUME OneProcess, SourcesApart
  PROVE  Spec => HistoryGrows
<1>1. Init => HistoryInv
  <2>1. ASSUME Init PROVE GrowthInv /\ Held /\ OthersRows
    BY <2>1, UsageHistoryAssumption DEF Init, GrowthInv, Fits, Held, Holding, OthersRows, NoStore
  <2>2. QED
    BY <2>1, InitType DEF HistoryInv
<1>2. HistoryInv /\ [Next]_vars => HistoryInv'
  BY HistoryStep
<1>3. HistoryInv /\ [Next]_vars => [Grows]_vars
  BY GrowsStep
<1>4. QED
  BY <1>1, <1>2, <1>3, PTL DEF Spec, HistoryGrows, Grows
=============================================================================
