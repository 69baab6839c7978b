----------------------------- MODULE UsageHistory -----------------------------
(***************************************************************************)
(* Saved daily usage: the transcripts other programs write and delete, the  *)
(* daemon's incremental cache of them (local_usage_cache.rs), and the store *)
(* usage_daily.json, which the daemon and every usagestat command read,     *)
(* change and replace (ai-usage-core usage_daily.rs ingest_json).           *)
(* What a row counts is abstracted to the set of transcript events it adds  *)
(* up, or to a value for the reports of other sources.                      *)
(***************************************************************************)
EXTENDS Integers, FiniteSets

CONSTANTS
  File, Event,   \* transcripts, and the requests they record
  EventsOf,      \* File -> the events it may come to hold
  Day, DayOf,    \* Event -> the UTC day it falls on
  Key, Rank,     \* (date, provider, source) of a row, and their order in the store
  LocalKey,      \* Day -> the key of the row the transcripts give
  Value,         \* what reports of other sources say
  Writer, Local, \* who ingests rows; the one fed by the transcripts
  KeysOf,        \* Writer -> the keys its reports are about
  Process, Daemon, ProcessOf,
  Kind, Daily,   \* reports a client can ask for
  ReportLimit,   \* serialized reports kept
  MaxRows,       \* MAX_STORED_ROWS
  MaxReports,    \* bounds of the model: reports of other sources; processes killed,
  MaxFaults,     \* readings cut short and directories missed, together
  NoFile, Deleted, NoEntry, NoRow, NoReport, Idle

ASSUME UsageHistoryAssumption ==
  /\ EventsOf \in [File -> SUBSET Event] /\ DayOf \in [Event -> Day] /\ Day \subseteq Nat
  /\ Rank \in [Key -> Nat] /\ \A j, k \in Key : Rank[j] = Rank[k] => j = k
  /\ LocalKey \in [Day -> Key] /\ \A d, e \in Day : LocalKey[d] = LocalKey[e] => d = e
  /\ Local \in Writer /\ KeysOf \in [Writer -> SUBSET Key]
  /\ ProcessOf \in [Writer -> Process] /\ Daemon \in Process /\ ProcessOf[Local] = Daemon
  /\ Daily \in Kind
  /\ ReportLimit \in Nat /\ MaxRows \in Nat \ {0} /\ MaxReports \in Nat /\ MaxFaults \in Nat
  /\ IsFiniteSet(Key)

Content == SUBSET Event
Entry   == [stamp: Content, events: Content, whole: BOOLEAN]
Cell    == Value \cup Content
Store   == [Key -> {NoRow} \cup Cell]
Ingest  == [rows: Store, read: Store \cup {Idle}]
Scan    == [file: File, stamp: Content]

ASSUME AbsenceAssumption ==
  /\ NoFile # Deleted /\ \A c \in Content : c \notin {NoFile, Deleted, NoReport}
  /\ NoRow \notin Value /\ \A c \in Content : c # NoRow
  /\ NoEntry \notin Entry
  /\ Idle \notin Ingest /\ Idle \notin Store /\ Idle \notin Kind /\ Idle \notin Scan

VARIABLES
  disk,       \* File -> the events in it, or NoFile, or Deleted
  store,      \* usage_daily.json
  saved,      \* local-usage-*.json: the cache as it was last persisted
  cached,     \* Cache.files
  fresh,      \* Cache.checked is less than TTL ago
  reports,    \* Cache.reports
  asked,      \* the report that the holder of the cache's mutex is to give, or Idle
  step, todo, changed, scanning,   \* where that holder is
  ingest,     \* Writer -> its ingestion in progress, or Idle
  reported, faults

cacheVars == <<cached, fresh, reports>>
workVars  == <<asked, step, todo, changed, scanning>>
boundVars == <<reported, faults>>
vars == <<disk, store, saved, cached, fresh, reports, asked, step, todo, changed, scanning, ingest,
          reported, faults>>

Steps == {"idle", "visit", "scan", "persist", "ingest", "serve"}

(* The daemon's holder of the cache is where its registers say it is.       *)
TypeOK ==
  /\ disk \in [File -> {NoFile, Deleted} \cup Content]
  /\ store \in Store
  /\ saved \in [File -> Entry \cup {NoEntry}] /\ cached \in [File -> Entry \cup {NoEntry}]
  /\ fresh \in BOOLEAN /\ changed \in BOOLEAN
  /\ reports \in [Kind -> {NoReport} \cup Content]
  /\ asked \in Kind \cup {Idle} /\ step \in Steps
  /\ todo \subseteq File /\ scanning \in Scan \cup {Idle}
  /\ ingest \in [Writer -> Ingest \cup {Idle}]
  /\ reported \in Nat /\ faults \in Nat
  /\ (asked = Idle <=> step = "idle") /\ (scanning = Idle <=> step # "scan")
  /\ (ingest[Local] = Idle <=> step # "ingest")

NoReports == [r \in Kind |-> NoReport]
NoStore   == [k \in Key |-> NoRow]

Init ==
  /\ disk = [f \in File |-> NoFile]
  /\ store = NoStore
  /\ saved = [f \in File |-> NoEntry] /\ cached = saved
  /\ fresh = FALSE /\ reports = NoReports
  /\ asked = Idle /\ step = "idle" /\ todo = {} /\ changed = FALSE /\ scanning = Idle
  /\ ingest = [w \in Writer |-> Idle]
  /\ reported = 0 /\ faults = 0

-----------------------------------------------------------------------------
(* The transcripts, written and deleted by other programs: a session has a  *)
(* file of its own, which does not come back.                               *)

Present(f) == disk[f] \notin {NoFile, Deleted}

(* A session writes its requests in the order of time; EventsOf says which  *)
(* of them there are.                                                       *)
InTime(f, e) == \A d \in EventsOf[f] : DayOf[d] < DayOf[e] => Present(f) /\ d \in disk[f]

Append(f, e) ==
  /\ e \in EventsOf[f] /\ disk[f] # Deleted /\ InTime(f, e)
  /\ disk' = [disk EXCEPT ![f] = IF @ = NoFile THEN {e} ELSE @ \cup {e}]
  /\ UNCHANGED <<store, saved, cacheVars, workVars, ingest, boundVars>>

Delete(f) ==
  /\ Present(f)
  /\ disk' = [disk EXCEPT ![f] = Deleted]
  /\ UNCHANGED <<store, saved, cacheVars, workVars, ingest, boundVars>>

-----------------------------------------------------------------------------
(* The store *)

(* prune_rows: the last MaxRows rows in the order of dates stay.            *)
Pruned(rows) ==
  LET after(k) == {j \in Key : rows[j] # NoRow /\ Rank[j] > Rank[k]}
  IN  [k \in Key |-> IF Cardinality(after(k)) < MaxRows THEN rows[k] ELSE NoRow]

(* upsert_row, for each new row *)
Upserted(rows, new) == [k \in Key |-> IF new[k] # NoRow THEN new[k] ELSE rows[k]]

Holding(w) == ingest[w] # Idle /\ ingest[w].read # Idle

(* mutant: no lock around reading, changing and replacing the store *)
LockFreeAlways(w) == TRUE

(* WRITE_LOCK, which each process has for itself *)
LockFree(w) == \A v \in Writer : ProcessOf[v] = ProcessOf[w] => ~Holding(v)

(* A report of another source: rows for some keys of w, prepared before the *)
(* lock is taken.                                                           *)
Report(w) ==
  /\ w # Local /\ ingest[w] = Idle /\ reported < MaxReports
  /\ \E keys \in SUBSET KeysOf[w] \ {{}}, v \in Value :
       ingest' = [ingest EXCEPT ![w] =
                    [rows |-> [k \in Key |-> IF k \in keys THEN v ELSE NoRow], read |-> Idle]]
  /\ reported' = reported + 1
  /\ UNCHANGED <<disk, store, saved, cacheVars, workVars, faults>>

(* What an ingestion that ended says to its caller.                         *)
Return(w, ok) ==
  /\ ingest' = [ingest EXCEPT ![w] = Idle]
  /\ IF w = Local
     THEN step' = (IF ok THEN "serve" ELSE "idle") /\ asked' = (IF ok THEN asked ELSE Idle)
     ELSE UNCHANGED <<step, asked>>

(* The lock is taken and the store read. *)
ReadStore(w) ==
  /\ ingest[w] # Idle /\ ~Holding(w) /\ LockFree(w)
  /\ \/ ingest' = [ingest EXCEPT ![w].read = store] /\ UNCHANGED <<step, asked>>
     \/ Return(w, FALSE)
  /\ UNCHANGED <<disk, store, saved, cacheVars, todo, changed, scanning, boundVars>>

WriteStore(w) ==
  /\ Holding(w)
  /\ \/ store' = Pruned(Upserted(ingest[w].read, ingest[w].rows)) /\ Return(w, TRUE)
     \/ UNCHANGED store /\ Return(w, FALSE)
  /\ UNCHANGED <<disk, saved, cacheVars, todo, changed, scanning, boundVars>>

-----------------------------------------------------------------------------
(* The daemon's cache of the transcripts, under its mutex *)

Suffers(fault) == IF fault THEN faults < MaxFaults /\ faults' = faults + 1 ELSE UNCHANGED faults

(* A directory that cannot be read is passed over (collect_jsonl_files):    *)
(* the files in it are forgotten as if they were gone.                      *)
Lists(files) ==
  /\ Suffers(files # {f \in File : Present(f)})
  /\ step' = "visit" /\ todo' = files
  /\ cached' = [f \in File |-> IF f \in files THEN cached[f] ELSE NoEntry]
  /\ changed' = (cached' # cached)

(* mutant: the serialized reports outlive the refresh *)
AskKeeping(r) ==
  /\ step = "idle"
  /\ asked' = r
  /\ IF fresh
     THEN step' = "serve" /\ UNCHANGED <<cached, todo, changed, faults>>
     ELSE \E files \in SUBSET {f \in File : Present(f)} : Lists(files)
  /\ UNCHANGED <<disk, store, saved, fresh, reports, scanning, ingest, reported>>

(* The summarizer asks for the daily report, clients of the local API for   *)
(* any.  A refresh lists the files, forgets those that are gone and every   *)
(* serialized report.                                                       *)
Ask(r) ==
  /\ step = "idle"
  /\ asked' = r
  /\ IF fresh
     THEN step' = "serve" /\ UNCHANGED <<cached, reports, todo, changed, faults>>
     ELSE /\ \E files \in SUBSET {f \in File : Present(f)} : Lists(files)
          /\ reports' = NoReports
  /\ UNCHANGED <<disk, store, saved, fresh, scanning, ingest, reported>>

(* An error ends the refresh and the request: the next one starts over.     *)
GivesUp ==
  /\ step' = "idle" /\ asked' = Idle /\ scanning' = Idle
  /\ UNCHANGED <<cached, todo, changed>>

Unchanged(f) == cached[f] # NoEntry /\ cached[f].stamp = disk[f]
Passes(f) ==
  /\ Present(f) /\ Unchanged(f)
  /\ todo' = todo \ {f}
  /\ UNCHANGED <<asked, step, cached, changed, scanning>>
Stamps(f) ==
  /\ Present(f) /\ ~Unchanged(f)
  /\ scanning' = [file |-> f, stamp |-> disk[f]] /\ step' = "scan"
  /\ UNCHANGED <<asked, cached, todo, changed>>

(* Size and modification time first: a file that still has those of its     *)
(* entry is not scanned again.                                              *)
Visit(f) ==
  /\ step = "visit" /\ f \in todo
  /\ GivesUp \/ Passes(f) \/ Stamps(f)
  /\ UNCHANGED <<disk, store, saved, fresh, reports, ingest, boundVars>>

(* What a reading gives: all that is in the file, or what stands before an  *)
(* error in its middle, which ends the lines and is not told (map_while).   *)
(* Either is kept for the file as it was stamped; `whole`, which only the   *)
(* properties read, says which.                                             *)
(* mutant: size and modification time are read after the file *)
ScannedEarly(f, events) ==
  [stamp |-> disk[f], events |-> events \cap scanning.stamp, whole |-> events = disk[f]]

Scanned(f, events) ==
  [stamp |-> scanning.stamp, events |-> events, whole |-> events = disk[f]]

Read ==
  LET f == scanning.file
  IN  /\ step = "scan"
      /\ \/ GivesUp /\ UNCHANGED faults
         \/ /\ Present(f)
            /\ \E events \in SUBSET disk[f] :
                 /\ Suffers(events # disk[f])
                 /\ cached' = [cached EXCEPT ![f] = Scanned(f, events)]
            /\ changed' = TRUE /\ todo' = todo \ {f}
            /\ scanning' = Idle /\ step' = "visit"
            /\ UNCHANGED asked
      /\ UNCHANGED <<disk, store, saved, fresh, reports, ingest, reported>>

Refreshed ==
  /\ step = "visit" /\ todo = {}
  /\ fresh' = TRUE /\ step' = "persist"
  /\ UNCHANGED <<disk, store, saved, cached, reports, asked, todo, changed, scanning, ingest,
                 boundVars>>

Events == UNION {cached[f].events : f \in {g \in File : cached[g] # NoEntry}}

(* mutant: the rows are made of the files that this refresh has read *)
DailyRowsChanged ==
  LET read == {f \in File : cached[f] # NoEntry /\ cached[f] # saved[f]}
  IN  [k \in Key |->
         LET day == {e \in UNION {cached[f].events : f \in read} : LocalKey[DayOf[e]] = k}
         IN  IF day = {} THEN NoRow ELSE day]

(* The rows of the daily report: a row for each day with events.            *)
DailyRows ==
  [k \in Key |->
     LET day == {e \in Events : LocalKey[DayOf[e]] = k} IN IF day = {} THEN NoRow ELSE day]

(* Persisting the cache may fail.  The daily report is then serialized and  *)
(* ingested, changed or not.                                                *)
Persist ==
  /\ step = "persist"
  /\ saved' \in IF changed THEN {saved, cached} ELSE {saved}
  /\ reports' = [reports EXCEPT ![Daily] = Events]
  /\ IF DailyRows = NoStore
     THEN step' = "serve" /\ UNCHANGED ingest
     ELSE step' = "ingest" /\ ingest' = [ingest EXCEPT ![Local] = [rows |-> DailyRows, read |-> Idle]]
  /\ UNCHANGED <<disk, store, cached, fresh, asked, todo, changed, scanning, boundVars>>

Serve ==
  /\ step = "serve"
  /\ reports' =
       IF reports[asked] # NoReport THEN reports
       ELSE LET kept == IF Cardinality({r \in Kind : reports[r] # NoReport}) >= ReportLimit
                        THEN NoReports ELSE reports
            IN  [kept EXCEPT ![asked] = Events]
  /\ step' = "idle" /\ asked' = Idle
  /\ UNCHANGED <<disk, store, saved, cached, fresh, todo, changed, scanning, ingest, boundVars>>

(* The cache's time to live is over; only the beginning of a request looks  *)
(* at it.                                                                   *)
Expire ==
  /\ step = "idle" /\ fresh /\ fresh' = FALSE
  /\ UNCHANGED <<disk, store, saved, cached, reports, workVars, ingest, boundVars>>

-----------------------------------------------------------------------------
(* A process is killed; the daemon is started again. *)
Crash(p) ==
  /\ faults < MaxFaults /\ faults' = faults + 1
  /\ ingest' = [w \in Writer |-> IF ProcessOf[w] = p THEN Idle ELSE ingest[w]]
  /\ IF p = Daemon
     THEN /\ cached' = saved /\ fresh' = FALSE /\ reports' = NoReports
          /\ asked' = Idle /\ step' = "idle" /\ todo' = {} /\ changed' = FALSE /\ scanning' = Idle
     ELSE UNCHANGED <<cacheVars, workVars>>
  /\ UNCHANGED <<disk, store, saved, reported>>

Cache == (\E f \in File : Visit(f)) \/ Read \/ Refreshed \/ Persist \/ Serve

Next ==
  \/ \E f \in File : Delete(f) \/ \E e \in EventsOf[f] : Append(f, e)
  \/ \E w \in Writer : Report(w) \/ ReadStore(w) \/ WriteStore(w)
  \/ \E r \in Kind : Ask(r)
  \/ Cache \/ Expire
  \/ \E p \in Process : Crash(p)

Spec == Init /\ [][Next]_vars

(* The summarizer asks about once a minute, which is longer than the time   *)
(* to live: it always ends between two requests.  The mutexes are fair.     *)
Fairness ==
  /\ SF_vars(Ask(Daily)) /\ SF_vars(Expire) /\ WF_vars(Cache)
  /\ SF_vars(ReadStore(Local))
  /\ \A w \in Writer : WF_vars(WriteStore(w))
FairSpec == Spec /\ Fairness

-----------------------------------------------------------------------------
(* Properties *)

(* "All source rows remain retained for provenance": a row leaves the store *)
(* only when MaxRows newer ones are in it.                                  *)
RowsRetained ==
  [][\A k \in Key : store[k] # NoRow /\ store'[k] = NoRow =>
       Cardinality({j \in Key : store'[j] # NoRow /\ Rank[j] > Rank[k]}) >= MaxRows]_vars

(* A transcript the cache does not have whole, for whose directory or whose *)
(* lines could not be read.                                                 *)
Missed(f) == Present(f) /\ (cached[f] = NoEntry \/ ~cached[f].whole)

(* While the transcripts are there, what is saved of them only grows, also  *)
(* when files cannot be opened and the daemon dies between saving the cache *)
(* and the rows: an older reading never replaces a newer one.  A request    *)
(* can only go with the transcript it is in, when the refresh missed it or  *)
(* an error cut its reading short.                                          *)
HistoryGrows ==
  [][\A d \in Day :
       LET old == store[LocalKey[d]]  new == store'[LocalKey[d]]
       IN  (\A f \in File : disk[f] # Deleted) /\ old # NoRow /\ new # NoRow =>
             \A e \in old \ new : \E f \in File : Missed(f) /\ e \in disk[f]]_vars

(* "Clear serialized reports even when an I/O error interrupts a refresh":  *)
(* a report that is served again says what the cache now holds.             *)
ReportsAreCurrent == \A r \in Kind : reports[r] # NoReport => reports[r] = Events

(* "The worker refreshes about once a minute": when the transcripts rest    *)
(* and the disk works, each day is saved with all the requests on disk.     *)
(* An entry that was cut short is not read again before its file changes:   *)
(* the disk works once no such entry is left.                               *)
Requests(d) == {e \in UNION {disk[f] : f \in {g \in File : Present(g)}} : DayOf[e] = d}
Works ==
  /\ disk' = disk /\ (step \in {"visit", "scan", "ingest"} => step' # "idle")
  /\ step = "idle" /\ step' = "visit" => todo' = {f \in File : Present(f)}
  /\ \A f \in File : cached'[f] # NoEntry => cached'[f].whole
SettledIsSaved ==
  <>[][Works]_vars => <>[](\A d \in Day : Requests(d) # {} => store[LocalKey[d]] = Requests(d))

(* "Saved historical days remain available after their original logs are    *)
(* removed."  It does not hold of a day of which one transcript remains.    *)
SavedUsageRemains ==
  [][\A d \in Day :
       store[LocalKey[d]] # NoRow => store'[LocalKey[d]] # NoRow /\ store[LocalKey[d]] \subseteq store'[LocalKey[d]]]_vars
=============================================================================
