-------------------------- MODULE SessionRecordsProofs --------------------------
(***************************************************************************)
(* A dedupe key has one open item, whoever writes back which copy of the   *)
(* record; doctor archives nobody who lives, and what it reports as stale; *)
(* the types.                                                              *)
(***************************************************************************)
EXTENDS SessionRecords, WellFoundedInduction, TLAPS

Pids == {"worker", "child"}
States == State \cup {"none"}

OneOpen(items) ==
  \A i, j \in DOMAIN items :
    items[i].open /\ items[j].open /\ items[i].key = items[j].key /\ items[i].key # NoKey => i = j
Lists == {items \in Seq(Item) : OneOpen(items)}

\* A record as anybody ever has one in hand.
Copy == [state : States, pids : SUBSET Pids, items : Lists]
File == [state : States, pids : SUBSET Pids]

Copies ==
  /\ dirs \in [Place -> [meta : Copy, worker : File]]
  /\ starter \in [stage : {"launch", "read", "write", "done"}, hand : Copy]
  /\ work \in [stage : {"none", "spawned", "registering", "registered", "spawning", "recording",
                        "up", "exiting", "failing", "gone"},
               child : {"none", "alive", "dead"}, hand : Copy, parent : BOOLEAN]
  /\ call \in [Clients -> [stage : {"idle", "write", "loading", "loaded", "checked"},
                           at : Place, hand : Copy, issue : Judgement, taken : BOOLEAN]]
  /\ marks \in Nat

-----------------------------------------------------------------------------
\* What is made of a list of items.

LEMMA EntryList ==
  ASSUME NEW k \in Nat, NEW f \in [1 .. k -> Item]
  PROVE  f \in Seq(Item)
  OBVIOUS

LEMMA EmptyList == <<>> \in Lists
  BY DEF Lists, OneOpen

LEMMA NoSame ==
  ASSUME NEW items \in Seq(Item), NEW key, key # NoKey, Same(items, key) = 0,
         NEW i \in DOMAIN items, items[i].open
  PROVE  items[i].key # key
<1> DEFINE I == {k \in 1 .. Len(items) : items[k].open /\ items[k].key = key}
<1>1. Same(items, key) = IF I # {} THEN Min(I) ELSE 0
  BY DEF Same, SelectInSeq
<1>2. I \subseteq Nat \ {0}
  OBVIOUS
<1>3. ASSUME I # {} PROVE Min(I) \in I
  <2>1. \E n \in I : \A m \in I : ~ (<<m, n>> \in OpToRel(<, Nat))
    <3> HIDE DEF I
    <3>q. QED
      BY <1>2, <1>3, NatLessThanWellFounded, WFMin
  <2>2. \A m, n \in Nat : m < n => <<m, n>> \in OpToRel(<, Nat)
    BY DEF OpToRel
  <2>3. PICK n \in I : \A m \in I : ~ (<<m, n>> \in OpToRel(<, Nat))
    BY <2>1
  <2>4. ASSUME NEW m \in I PROVE n <= m
    <3>1. m \in Nat /\ n \in Nat /\ ~ (m < n)
      BY <1>2, <2>2, <2>3
    <3>q. QED
      BY <3>1
  <2>q. QED
    BY <2>4 DEF Min
<1>4. I = {}
  BY <1>1, <1>2, <1>3
<1>q. QED
  BY <1>4

\* A list whose entries were changed one by one.
LEMMA ChangedList ==
  ASSUME NEW items \in Lists, NEW now, now = [i \in DOMAIN items |-> now[i]],
         \A i \in DOMAIN items : /\ now[i] \in Item /\ now[i].key = items[i].key
                                 /\ now[i].open => items[i].open
  PROVE  now \in Lists
<1>1. items \in Seq(Item) /\ OneOpen(items)
  BY DEF Lists
<1>2. DOMAIN items = 1 .. Len(items) /\ Len(items) \in Nat /\ DOMAIN now = DOMAIN items
  BY <1>1
<1>3. now \in [DOMAIN items -> Item]
  OBVIOUS
<1>4. now \in Seq(Item)
  <2>1. PICK n \in Nat : n = Len(items)
    BY <1>2
  <2>2. now \in [1 .. n -> Item]
    BY <1>2, <1>3, <2>1
  <2>q. QED
    BY <2>2, EntryList
<1>5. OneOpen(now)
  BY <1>1, <1>2 DEF OneOpen
<1>q. QED
  BY <1>4, <1>5 DEF Lists

LEMMA MarkedList ==
  ASSUME NEW items \in Lists, NEW key \in Keys, NEW kind \in Kinds, marks \in Nat, marks < MaxMarks
  PROVE  Marked(items, key, kind) \in Lists
<1>1. items \in Seq(Item) /\ OneOpen(items)
  BY DEF Lists
<1>2. CASE Same(items, key) = 0
  <2>1. PICK new : new = NewItem(key, kind)
    OBVIOUS
  <2>2. new \in Item /\ new.key = key
    BY <2>1, RecordsAssumption DEF NewItem, Item
  <2>3. Append(items, new) \in Seq(Item)
    BY <1>1, <2>2
  <2>4. \A i \in DOMAIN items : items[i].open /\ items[i].key = key => key = NoKey
    BY <1>1, <1>2, NoSame
  <2>5. OneOpen(Append(items, new))
    <3>1. /\ DOMAIN Append(items, new) = 1 .. Len(items) + 1
          /\ DOMAIN items = 1 .. Len(items) /\ Len(items) \in Nat
          /\ \A i \in 1 .. Len(items) : Append(items, new)[i] = items[i]
          /\ Append(items, new)[Len(items) + 1] = new
      BY <1>1, <2>2
    <3>q. QED
      BY <1>1, <2>2, <2>4, <3>1 DEF OneOpen
  <2>q. QED
    BY <1>2, <2>1, <2>3, <2>5 DEF Marked, Lists
<1>3. CASE Same(items, key) # 0
  <2>1. PICK now : now = [items EXCEPT ![Same(items, key)] = [@ EXCEPT !.kind = kind, !.read = FALSE]]
    OBVIOUS
  <2>2. ASSUME NEW e \in Item
        PROVE  LET f == [e EXCEPT !.kind = kind, !.read = FALSE]
               IN  f \in Item /\ f.key = e.key /\ f.open = e.open
    BY DEF Item
  <2>3. \A i \in DOMAIN items : items[i] \in Item
    BY <1>1
  <2>4. now = [i \in DOMAIN items |-> now[i]]
    BY <2>1
  <2>5. \A i \in DOMAIN items : now[i] \in Item /\ now[i].key = items[i].key
                               /\ (now[i].open => items[i].open)
    BY <2>1, <2>2, <2>3
  <2>6. now \in Lists
    BY <2>4, <2>5, ChangedList
  <2>q. QED
    BY <1>3, <2>1, <2>6 DEF Marked
<1>q. QED
  BY <1>2, <1>3

LEMMA ReadList ==
  ASSUME NEW items \in Lists, NEW id, NEW kinds, NEW now,
         now = [i \in DOMAIN items |-> [items[i] EXCEPT !.read = @ \/ Matches(items[i], id, kinds)]]
  PROVE  now \in Lists
<1>1. ASSUME NEW e \in Item, NEW b
      PROVE  LET f == [e EXCEPT !.read = @ \/ b] IN f \in Item /\ f.key = e.key /\ f.open = e.open
  BY DEF Item
<1>2. \A i \in DOMAIN items : items[i] \in Item
  BY DEF Lists
<1>3. \A i \in DOMAIN items : now[i] \in Item /\ now[i].key = items[i].key
                             /\ (now[i].open => items[i].open)
  BY <1>1, <1>2
<1>q. QED
  BY <1>3, ChangedList

LEMMA ClearedList ==
  ASSUME NEW items \in Lists, NEW id, NEW kinds, NEW now,
         now = [i \in DOMAIN items |-> [items[i] EXCEPT !.open = @ /\ ~Matches(items[i], id, kinds)]]
  PROVE  now \in Lists
<1>1. ASSUME NEW e \in Item, NEW b
      PROVE  LET f == [e EXCEPT !.open = @ /\ ~b]
             IN  f \in Item /\ f.key = e.key /\ (f.open => e.open)
  BY DEF Item
<1>2. \A i \in DOMAIN items : items[i] \in Item
  BY DEF Lists
<1>3. \A i \in DOMAIN items : now[i] \in Item /\ now[i].key = items[i].key
                             /\ (now[i].open => items[i].open)
  BY <1>1, <1>2
<1>q. QED
  BY <1>3, ChangedList

-----------------------------------------------------------------------------
\* What is made of a copy of the record, and of the directory it is written to.

LEMMA CopyOf ==
  /\ NoMeta \in Copy /\ FirstMeta \in Copy /\ NoWorkerFile \in File
  /\ \A m \in Copy, s \in States : [m EXCEPT !.state = s] \in Copy
  /\ \A m \in Copy, p \in SUBSET Pids : [m EXCEPT !.pids = p] \in Copy
  /\ \A m \in Copy, p \in SUBSET Pids : [m EXCEPT !.pids = @ \cup p] \in Copy
  /\ \A m \in Copy, s \in States, p \in SUBSET Pids : [m EXCEPT !.state = s, !.pids = @ \cup p] \in Copy
  /\ \A m \in Copy, l \in Lists : [m EXCEPT !.items = l] \in Copy
<1>1. NoMeta \in Copy /\ FirstMeta \in Copy /\ NoWorkerFile \in File
  BY EmptyList DEF NoMeta, FirstMeta, NoWorkerFile, Copy, File, States, State, Active
<1>q. QED
  BY <1>1 DEF Copy

LEMMA DirsOf ==
  ASSUME Copies, NEW p \in Place
  PROVE  /\ dirs[p].meta \in Copy /\ dirs[p].worker \in File
         /\ dirs[p].meta.items \in Lists /\ dirs[p].worker.pids \subseteq Pids
         /\ \A m \in Copy : Put(p, m) \in [Place -> [meta : Copy, worker : File]]
  BY DEF Copies, Put, Copy, File

LEMMA CallsOf ==
  ASSUME Copies, NEW c \in Clients, NEW s \in {"idle", "write", "loading", "loaded", "checked"},
         NEW p \in Place, NEW m \in Copy, NEW j \in Judgement, NEW t \in BOOLEAN
  PROVE  [call EXCEPT ![c] = [stage |-> s, at |-> p, hand |-> m, issue |-> j, taken |-> t]]
           \in [Clients -> [stage : {"idle", "write", "loading", "loaded", "checked"},
                            at : Place, hand : Copy, issue : Judgement, taken : BOOLEAN]]
  BY DEF Copies

LEMMA StarterKeeps ==
  ASSUME Copies, Launch \/ LaunchFails \/ ReadRecord \/ WritePid
  PROVE  Copies'
<1>0. "sessions" \in Place
  BY DEF Place
<1>1. CASE Launch
  BY <1>1, CopyOf DEF Launch, StarterGoes, StarterAlone, Copies
<1>2. CASE LaunchFails
  <2>1. [FirstMeta EXCEPT !.state = "failed_start"] \in Copy
    BY CopyOf DEF States, State
  <2>2. dirs' \in [Place -> [meta : Copy, worker : File]]
    BY <1>0, <1>2, <2>1, DirsOf DEF LaunchFails
  <2>q. QED
    BY <1>2, <2>2, CopyOf DEF LaunchFails, StarterGoes, StarterAlone, Copies
<1>3. CASE ReadRecord
  <2>1. starter' \in [stage : {"launch", "read", "write", "done"}, hand : Copy]
    BY <1>0, <1>3, CopyOf, DirsOf DEF ReadRecord, StarterGoes
  <2>q. QED
    BY <1>3, <2>1 DEF ReadRecord, StarterAlone, Copies
<1>4. CASE WritePid
  <2>1. [starter.hand EXCEPT !.pids = @ \cup {"worker"}] \in Copy
    <3>1. starter.hand \in Copy /\ {"worker"} \in SUBSET Pids
      BY DEF Copies, Pids
    <3>q. QED
      BY <3>1, CopyOf
  <2>2. dirs' \in [Place -> [meta : Copy, worker : File]]
    BY <1>0, <1>4, <2>1, DirsOf DEF WritePid
  <2>q. QED
    BY <1>4, <2>2, CopyOf DEF WritePid, StarterGoes, StarterAlone, Copies
<1>q. QED
  BY <1>1, <1>2, <1>3, <1>4

WorkStages == {"none", "spawned", "registering", "registered", "spawning", "recording",
               "up", "exiting", "failing", "gone"}

LEMMA LoadsKeeps ==
  ASSUME Copies, NEW from, NEW to \in WorkStages, Loads(from, to)
  PROVE  Copies'
<1>1. dirs["sessions"].meta \in Copy
  BY DirsOf DEF Place
<1>2. work' \in [stage : WorkStages, child : {"none", "alive", "dead"}, hand : Copy, parent : BOOLEAN]
  BY <1>1 DEF Loads, Copies, WorkStages
<1>q. QED
  BY <1>2 DEF Loads, WorkerAlone, Copies, WorkStages

LEMMA SavesKeeps ==
  ASSUME Copies, NEW from, NEW to \in WorkStages, NEW m \in Copy, NEW f \in File, Saves(from, to, m, f)
  PROVE  Copies'
<1>1. dirs' \in [Place -> [meta : Copy, worker : File]]
  BY DEF Saves, Copies
<1>2. work' \in [stage : WorkStages, child : {"none", "alive", "dead"}, hand : Copy, parent : BOOLEAN]
  BY CopyOf DEF Saves, Copies, WorkStages
<1>q. QED
  BY <1>1, <1>2 DEF Saves, WorkerAlone, Copies, WorkStages

LEMMA WorkerKeeps ==
  ASSUME Copies, WorkerStep \/ WorkerCrashes
  PROVE  Copies'
<1>1. work.hand \in Copy /\ dirs["sessions"].worker.pids \in SUBSET Pids
  BY DirsOf DEF Copies, Place
<1>2. {"worker"} \in SUBSET Pids /\ {"child"} \in SUBSET Pids /\ {"worker", "child"} \in SUBSET Pids
  BY DEF Pids
<1>3. "running" \in States /\ "starting" \in States /\ "failed_start" \in States /\ "exited" \in States
  BY DEF States, State, Active
<1>4. \A s \in States, p \in SUBSET Pids : FileWith(s, p) \in File /\ [state |-> s, pids |-> p] \in File
  BY CopyOf DEF FileWith, File
<1>5. CASE LoadRecord \/ LoadForRunning \/ LoadForFailure \/ LoadForExit
  BY <1>5, LoadsKeeps DEF LoadRecord, LoadForRunning, LoadForFailure, LoadForExit, WorkStages
<1>6. CASE Register
  <2>1. [work.hand EXCEPT !.pids = {"worker"}] \in Copy
    BY <1>1, <1>2, CopyOf
  <2>q. QED
    BY <1>2, <1>3, <1>4, <1>6, <2>1, SavesKeeps DEF Register, WorkStages
<1>7. CASE RecordRunning
  <2>1. [work.hand EXCEPT !.state = "running", !.pids = @ \cup {"child"}] \in Copy
    BY <1>1, <1>2, <1>3, CopyOf
  <2>q. QED
    BY <1>2, <1>3, <1>4, <1>7, <2>1, SavesKeeps DEF RecordRunning, WorkStages
<1>8. CASE FailedStart
  <2>1. [work.hand EXCEPT !.state = "failed_start"] \in Copy
    BY <1>1, <1>3, CopyOf
  <2>q. QED
    BY <1>2, <1>3, <1>4, <1>8, <2>1, SavesKeeps DEF FailedStart, WorkStages
<1>9. CASE RecordExit
  <2>1. [work.hand EXCEPT !.state = "exited"] \in Copy
    BY <1>1, <1>3, CopyOf
  <2>q. QED
    BY <1>1, <1>3, <1>4, <1>9, <2>1, SavesKeeps DEF RecordExit, WorkStages
<1>10. CASE SpawnChild \/ ChildExits \/ WorkerCrashes
  BY <1>10, CopyOf DEF SpawnChild, ChildExits, WorkerCrashes, WorkerAlone, Copies
<1>q. QED
  BY <1>5, <1>6, <1>7, <1>8, <1>9, <1>10 DEF WorkerStep

LEMMA FoundPlace == Found \in Place
  BY DEF Found, Place

LEMMA BeginsKeeps ==
  ASSUME Copies, NEW c \in Clients, NEW m \in Copy, Begins(c, m), marks' \in Nat
  PROVE  Copies'
<1> DEFINE Calls == [stage : {"idle", "write", "loading", "loaded", "checked"},
                     at : Place, hand : Copy, issue : Judgement, taken : BOOLEAN]
<1>1. Idle \in Calls
  BY CopyOf DEF Idle, Place, Judgement
<1>2. [Idle EXCEPT !.stage = "write", !.at = Found, !.hand = m] \in Calls
  BY <1>1, FoundPlace
<1>3. call' \in [Clients -> Calls]
  BY <1>2 DEF Begins, Copies
<1>q. QED
  BY <1>3 DEF Begins, CallAlone, Copies

LEMMA AttentionKeeps ==
  ASSUME Copies, NEW c \in Clients,
         MarkAttention(c) \/ ReadAttention(c) \/ ClearAttention(c) \/ WriteAttention(c)
  PROVE  Copies'
<1>1. dirs[Found].meta \in Copy /\ Items \in Lists /\ marks \in Nat
  BY FoundPlace, DirsOf DEF Items, Copies
<1>2. CASE MarkAttention(c)
  <2>1. PICK key \in Keys, kind \in Kinds :
          Begins(c, [dirs[Found].meta EXCEPT !.items = Marked(@, key, kind)])
    BY <1>2 DEF MarkAttention
  <2>2. Marked(Items, key, kind) \in Lists
    BY <1>1, <1>2, MarkedList DEF MarkAttention
  <2>3. [dirs[Found].meta EXCEPT !.items = Marked(Items, key, kind)] \in Copy
    BY <1>1, <2>2, CopyOf
  <2>q. QED
    BY <1>1, <1>2, <2>1, <2>3, BeginsKeeps DEF MarkAttention, Items
<1>3. ASSUME NEW now \in Lists, Mutate(c, now) PROVE Copies'
  BY <1>1, <1>3, CopyOf, BeginsKeeps DEF Mutate
<1>4. CASE ReadAttention(c)
  <2>1. PICK id, kinds : Mutate(c,
          [i \in DOMAIN Items |-> [Items[i] EXCEPT !.read = @ \/ Matches(Items[i], id, kinds)]])
    BY <1>4 DEF ReadAttention
  <2>q. QED
    BY <1>1, <1>3, <2>1, ReadList
<1>5. CASE ClearAttention(c)
  <2>1. PICK id, kinds : Mutate(c,
          [i \in DOMAIN Items |-> [Items[i] EXCEPT !.open = @ /\ ~Matches(Items[i], id, kinds)]])
    BY <1>5 DEF ClearAttention
  <2>q. QED
    BY <1>1, <1>3, <2>1, ClearedList
<1>6. CASE WriteAttention(c)
  <2>1. call[c].at \in Place /\ call[c].hand \in Copy
    BY DEF Copies
  <2>2. dirs' \in [Place -> [meta : Copy, worker : File]]
    BY <1>6, <2>1, DirsOf DEF WriteAttention
  <2>3. call' \in [Clients -> [stage : {"idle", "write", "loading", "loaded", "checked"},
                              at : Place, hand : Copy, issue : Judgement, taken : BOOLEAN]]
    BY <1>6, CopyOf, CallsOf DEF WriteAttention, Idle, Place, Judgement
  <2>q. QED
    BY <1>6, <2>2, <2>3 DEF WriteAttention, CallAlone, Copies
<1>q. QED
  BY <1>2, <1>4, <1>5, <1>6

LEMMA DoctorKeeps ==
  ASSUME Copies, NEW c \in Clients,
         DoctorLoads(c) \/ DoctorReadsWorker(c) \/ DoctorChecks(c) \/ DoctorRepairs(c)
  PROVE  Copies'
<1> DEFINE Calls == [stage : {"idle", "write", "loading", "loaded", "checked"},
                     at : Place, hand : Copy, issue : Judgement, taken : BOOLEAN]
<1>1. call[c] \in Calls /\ Idle \in Calls /\ dirs["sessions"].meta \in Copy
      /\ dirs["sessions"].worker.pids \in SUBSET Pids
  BY CopyOf, DirsOf DEF Copies, Idle, Place, Judgement
<1>2. ASSUME NEW r \in Calls, NEW from, DoctorGoes(c, from, r), UNCHANGED dirs PROVE Copies'
  BY <1>2 DEF DoctorGoes, CallAlone, Copies
<1>3. CASE DoctorLoads(c)
  <2>1. [Idle EXCEPT !.stage = "loading", !.hand = dirs["sessions"].meta] \in Calls
    BY <1>1
  <2>q. QED
    BY <1>2, <1>3, <2>1 DEF DoctorLoads
<1>4. CASE DoctorReadsWorker(c)
  <2>1. [call[c].hand EXCEPT !.pids = @ \cup dirs["sessions"].worker.pids] \in Copy
    BY <1>1, CopyOf
  <2>2. [call[c] EXCEPT !.stage = "loaded", !.hand.pids = @ \cup dirs["sessions"].worker.pids] \in Calls
    BY <1>1, <2>1
  <2>q. QED
    BY <1>2, <1>4, <2>2 DEF DoctorReadsWorker
<1>5. CASE DoctorChecks(c)
  <2>1. Judged(call[c].hand) \in Judgement
    BY DEF Judged, Judgement
  <2>2. Exists("archive") \in BOOLEAN
    BY DEF Exists
  <2>3. [call[c] EXCEPT !.stage = "checked", !.issue = Judged(call[c].hand),
                        !.taken = Exists("archive")] \in Calls
    <3> DEFINE there == Exists("archive")
    <3> HIDE DEF there
    <3>q. QED
      BY <1>1, <2>1, <2>2 DEF there
  <2>q. QED
    BY <1>2, <1>5, <2>3 DEF DoctorChecks
<1>6. CASE DoctorRepairs(c)
  <2>1. [sessions |-> NoDir, archive |-> dirs["sessions"]] \in [Place -> [meta : Copy, worker : File]]
    <3> DEFINE now == [sessions |-> NoDir, archive |-> dirs["sessions"]]
    <3>1. NoDir \in [meta : Copy, worker : File]
      BY CopyOf DEF NoDir
    <3>2. dirs["sessions"] \in [meta : Copy, worker : File]
      BY DEF Copies, Place
    <3>3. now = [p \in Place |-> IF p = "sessions" THEN NoDir ELSE dirs["sessions"]]
      BY DEF Place
    <3>q. QED
      BY <3>1, <3>2, <3>3
  <2>2. dirs' \in [Place -> [meta : Copy, worker : File]]
    BY <1>6, <2>1 DEF DoctorRepairs, Copies
  <2>q. QED
    BY <1>1, <1>6, <2>2 DEF DoctorRepairs, DoctorGoes, CallAlone, Copies
<1>q. QED
  BY <1>3, <1>4, <1>5, <1>6

LEMMA RestartKeeps ==
  ASSUME Copies, HostRestarts PROVE Copies'
<1>1. "sessions" \in Place /\ dirs["sessions"] \in [meta : Copy, worker : File]
  BY DEF Copies, Place
<1>2. Reconciled \subseteq States
  <2>1. dirs["sessions"].meta.state \in States /\ Evidence \subseteq States
    BY <1>1 DEF Evidence, States, State, Active, Degraded, Copy, File
  <2>q. QED
    BY <2>1 DEF Reconciled, States, State, Degraded
<1>3. ASSUME NEW s \in States, NEW t \in States
      PROVE  [dirs EXCEPT !["sessions"].meta.state = s, !["sessions"].worker.state = t]
               \in [Place -> [meta : Copy, worker : File]]
  <2>1. [dirs["sessions"].meta EXCEPT !.state = s] \in Copy
        /\ [dirs["sessions"].worker EXCEPT !.state = t] \in File
    BY <1>1, CopyOf DEF File
  <2>q. QED
    BY <1>1, <2>1 DEF Copies
<1>4. dirs["sessions"].worker.state \in States
  BY <1>1 DEF File
<1>5. dirs' \in [Place -> [meta : Copy, worker : File]]
  <2>1. CASE dirs["sessions"].meta.state \notin Active
    BY <2>1 DEF HostRestarts, Copies
  <2>2. CASE dirs["sessions"].meta.state \in Active
    <3>1. PICK s \in Reconciled :
            dirs' = [dirs EXCEPT !["sessions"].meta.state = s,
                                 !["sessions"].worker.state =
                                   IF dirs["sessions"].worker.state \in Active THEN s
                                   ELSE dirs["sessions"].worker.state]
      BY <2>2 DEF HostRestarts
    <3>2. CASE dirs["sessions"].worker.state \in Active
      BY <1>2, <1>3, <3>1, <3>2
    <3>3. CASE dirs["sessions"].worker.state \notin Active
      BY <1>2, <1>3, <1>4, <3>1, <3>3
    <3>q. QED
      BY <3>2, <3>3
  <2>q. QED
    BY <2>1, <2>2
<1>6. call' \in [Clients -> [stage : {"idle", "write", "loading", "loaded", "checked"},
                            at : Place, hand : Copy, issue : Judgement, taken : BOOLEAN]]
  BY CopyOf DEF HostRestarts, Idle, Place, Judgement
<1>q. QED
  BY <1>5, <1>6, CopyOf DEF HostRestarts, Copies

LEMMA CopiesInit == Init => Copies
<1> SUFFICES ASSUME Init PROVE Copies
  OBVIOUS
<1>1. /\ NoDir \in [meta : Copy, worker : File]
      /\ [NoDir EXCEPT !.meta = FirstMeta] \in [meta : Copy, worker : File]
  BY CopyOf DEF NoDir
<1>2. dirs \in [Place -> [meta : Copy, worker : File]]
  BY <1>1 DEF Init
<1>3. Idle \in [stage : {"idle", "write", "loading", "loaded", "checked"},
                at : Place, hand : Copy, issue : Judgement, taken : BOOLEAN]
  BY CopyOf DEF Idle, Place, Judgement
<1>4. call \in [Clients -> [stage : {"idle", "write", "loading", "loaded", "checked"},
                           at : Place, hand : Copy, issue : Judgement, taken : BOOLEAN]]
  BY <1>3 DEF Init
<1>5. starter \in [stage : {"launch", "read", "write", "done"}, hand : Copy]
  BY CopyOf DEF Init
<1>6. work \in [stage : {"none", "spawned", "registering", "registered", "spawning", "recording",
                        "up", "exiting", "failing", "gone"},
                child : {"none", "alive", "dead"}, hand : Copy, parent : BOOLEAN]
  BY CopyOf DEF Init
<1>q. QED
  BY <1>2, <1>4, <1>5, <1>6 DEF Init, Copies

\* However marks, reads and clears overtake each other, the worker, a new host and doctor
\* rewrite the record, no record has two open items with one key (mark_attention).
THEOREM OneOpenItem == Spec => []DedupeIsUnique
<1>1. Copies /\ [Next]_vars => Copies'
  <2> SUFFICES ASSUME Copies, [Next]_vars PROVE Copies'
    OBVIOUS
  <2>1. CASE UNCHANGED vars
    BY <2>1 DEF vars, Copies
  <2>q. QED
    BY <2>1, StarterKeeps, WorkerKeeps, AttentionKeeps, DoctorKeeps, RestartKeeps DEF Next
<1>2. Copies => DedupeIsUnique
  <2>1. ASSUME Copies, NEW p \in Place PROVE OneOpen(dirs[p].meta.items)
    BY <2>1, DirsOf DEF Lists
  <2>q. QED
    BY <2>1 DEF OneOpen, DedupeIsUnique
<1>q. QED
  BY <1>1, <1>2, CopiesInit, PTL DEF Spec

-----------------------------------------------------------------------------
\* What doctor judges, and what becomes of the files it judged.

\* Pids in a record are of processes that were started.
Started(pids) ==
  /\ "worker" \in pids => work.stage # "none"
  /\ "child" \in pids => work.child # "none"

\* The record is in one of its two places.  Until doctor has archived it, worker.json names
\* the worker from its registration on.
Stored ==
  /\ Exists("sessions") \/ Exists("archive")
  /\ \A p \in Place : Started(dirs[p].meta.pids) /\ Started(dirs[p].worker.pids)
  /\ ~Exists("archive") /\ (work.child # "none" \/ work.stage \in {"registered", "failing"})
       => "worker" \in dirs["sessions"].worker.pids

\* Who has a copy in hand read it from a record that was there.
StarterKnows ==
  /\ starter.stage = "launch" => work.stage = "none"
  /\ starter.stage = "write" => starter.hand.state # "none"
  /\ starter.stage \in {"read", "write"} => work.stage # "none"
  /\ Started(starter.hand.pids)

WorkKnows ==
  /\ work.stage \in {"registering", "recording", "exiting", "failing"} => work.hand.state # "none"
  /\ work.stage \in {"none", "spawned", "registering", "registered", "failing"} => work.child = "none"
  /\ work.stage \in {"spawning", "recording", "up", "exiting"} => work.child # "none"
  /\ Started(work.hand.pids)

\* Doctor, which read both files, knows the worker if it knows the child; what it called
\* stale may be archived.
CallKnows(x) ==
  /\ x.stage # "idle" => x.hand.state # "none"
  /\ x.stage = "write" /\ x.at = "archive" => Exists("archive")
  /\ Started(x.hand.pids)
  /\ x.stage \in {"loaded", "checked"} /\ "child" \in x.hand.pids /\ ~Exists("archive")
       => "worker" \in x.hand.pids
  /\ x.stage = "checked" /\ x.issue = "stale_record" => Eligible(x.hand) /\ x.hand.pids # {}

Known == Stored /\ StarterKnows /\ WorkKnows /\ \A c \in Clients : CallKnows(call[c])

\* No process is started twice, one that is reaped stays so, and an archive stays.
Onward ==
  /\ work.stage # "none" => work'.stage # "none"
  /\ work.stage = "gone" => work'.stage = "gone"
  /\ work.child # "none" => work'.child # "none"
  /\ work.child = "dead" => work'.child = "dead"
  /\ work.stage # "none" /\ ~work.parent => ~work'.parent
  /\ work.child = "dead" /\ work'.stage \in {"spawning", "recording", "up"}
       => work.stage \in {"spawning", "recording", "up"}
  /\ Exists("archive") => Exists("archive")'

LEMMA StartedStays ==
  ASSUME Onward, NEW pids, Started(pids) PROVE Started(pids)'
  BY DEF Onward, Started

LEMMA EligibleStays ==
  ASSUME Copies, Onward, NEW m \in Copy, Started(m.pids), Eligible(m) PROVE Eligible(m)'
<1>1. m.pids \subseteq Pids /\ work.child \in {"none", "alive", "dead"}
  BY DEF Copy, Copies
<1>2. ASSUME NEW pid \in m.pids PROVE (~Alive(pid))'
  BY <1>1 DEF Onward, Started, Eligible, Alive, Runs, Lingers, Pids
<1>q. QED
  BY <1>2 DEF Eligible

LEMMA CallStays ==
  ASSUME Copies, Onward, NEW x, x.hand \in Copy, CallKnows(x) PROVE CallKnows(x)'
<1>1. Started(x.hand.pids)' /\ (Eligible(x.hand) => Eligible(x.hand)')
  BY StartedStays, EligibleStays DEF CallKnows
<1>q. QED
  BY <1>1 DEF CallKnows, Onward

LEMMA CallsStay ==
  ASSUME Copies, Known, Onward, \A c \in Clients : call'[c] = call[c] \/ CallKnows(call[c])'
  PROVE  \A c \in Clients : CallKnows(call[c])'
<1> SUFFICES ASSUME NEW c \in Clients, call'[c] = call[c] PROVE CallKnows(call[c])'
  OBVIOUS
<1>1. call[c].hand \in Copy /\ CallKnows(call[c])
  BY DEF Copies, Known
<1>2. PICK x : x = call[c]
  OBVIOUS
<1>3. CallKnows(x)'
  BY <1>1, <1>2, CallStays
<1>4. x = call'[c]
  BY <1>2
<1>q. QED
  BY <1>3, <1>4 DEF CallKnows, Started, Eligible, Alive, Runs, Lingers

LEMMA StarterStays ==
  ASSUME Known, Onward, UNCHANGED starter, work.stage = "none" => work'.stage = "none"
  PROVE  StarterKnows'
  BY StartedStays DEF Known, StarterKnows, Started, Onward

LEMMA WorkStays ==
  ASSUME Known, work'.stage = work.stage, work'.child = work.child, work'.hand = work.hand
  PROVE  WorkKnows'
  BY DEF Known, WorkKnows, Started

LEMMA StoredStays ==
  ASSUME Known, Onward, UNCHANGED dirs,
         work'.child = work.child, work'.stage \in {"registered", "failing"} => work.stage \in {"registered", "failing"}
  PROVE  Stored'
  BY DEF Known, Stored, Started, Onward, Exists

LEMMA IdleKnows == Started({}) /\ CallKnows(Idle) /\ CallKnows(Idle)'
  BY DEF CallKnows, Idle, Started, NoMeta

-----------------------------------------------------------------------------
\* The starter, the worker and its child.

LEMMA Shapes ==
  ASSUME Copies
  PROVE  /\ dirs \in [Place -> [meta : Copy, worker : File]]
         /\ "sessions" \in Place /\ "archive" \in Place /\ \A p \in Place : p \in {"sessions", "archive"}
         /\ starter.hand \in Copy /\ work.hand \in Copy /\ \A c \in Clients : call[c].hand \in Copy
         /\ work = [stage |-> work.stage, child |-> work.child, hand |-> work.hand, parent |-> work.parent]
  BY DEF Copies, Place

\* What is left to show of a step that writes the record.
LEMMA PutStored ==
  ASSUME Copies, Known, NEW p \in Place, NEW m \in Copy, m.state # "none", dirs' = Put(p, m),
         Started(m.pids)', Onward, work'.child = work.child, work'.stage = work.stage
  PROVE  Stored'
<1>1. /\ dirs'[p].meta = m /\ dirs'[p].worker = dirs[p].worker
      /\ \A q \in Place : q # p => dirs'[q] = dirs[q]
  BY Shapes DEF Put
<1>2. \A q \in Place : Started(dirs[q].meta.pids) /\ Started(dirs[q].worker.pids)
  BY DEF Known, Stored
<1>3. \A q \in Place : Started(dirs[q].meta.pids)' /\ Started(dirs[q].worker.pids)'
  BY <1>1, <1>2, StartedStays DEF Started, Onward
<1>q. QED
  BY <1>1, <1>3, Shapes DEF Known, Stored, Exists, Started

LEMMA StarterLearns ==
  ASSUME Copies, Known, Launch \/ LaunchFails \/ ReadRecord \/ WritePid
  PROVE  Known'
<1> USE Shapes
<1>1. UNCHANGED call
  BY DEF Launch, LaunchFails, ReadRecord, WritePid, StarterAlone
<1>2. CASE Launch
  <2>1. /\ starter' = [stage |-> "read", hand |-> NoMeta] /\ UNCHANGED dirs
        /\ work'.stage = "spawned" /\ work'.child = work.child /\ work'.hand = work.hand
    BY <1>2 DEF Launch, StarterGoes
  <2>2. work.stage = "none" /\ work.child = "none"
    BY <1>2 DEF Launch, StarterGoes, Known, StarterKnows, WorkKnows
  <2>3. Onward
    BY <2>1, <2>2 DEF Onward, Exists
  <2>4. StarterKnows'
    BY <2>1 DEF StarterKnows, Started, NoMeta
  <2>5. WorkKnows'
    BY <2>1, <2>2 DEF Known, WorkKnows, Started
  <2>q. QED
    BY <1>1, <2>1, <2>3, <2>4, <2>5, StoredStays, CallsStay DEF Known
<1>3. CASE LaunchFails \/ WritePid
  <2>1. UNCHANGED work /\ starter' = [stage |-> "done", hand |-> NoMeta]
    BY <1>3 DEF LaunchFails, WritePid, StarterGoes, StarterAlone
  <2>2. PICK m \in Copy : dirs' = Put("sessions", m) /\ m.state # "none" /\ Started(m.pids)
    <3>1. CASE LaunchFails
      <4> DEFINE n == [FirstMeta EXCEPT !.state = "failed_start"]
      <4>1. n \in Copy
        BY CopyOf DEF States, State
      <4>2. n.state # "none" /\ n.pids = {}
        BY DEF FirstMeta
      <4>q. QED
        BY <3>1, <4>1, <4>2, IdleKnows DEF LaunchFails
    <3>2. CASE WritePid
      <4> DEFINE n == [starter.hand EXCEPT !.pids = @ \cup {"worker"}]
      <4>1. n \in Copy
        <5>1. {"worker"} \in SUBSET Pids
          BY DEF Pids
        <5>q. QED
          BY <5>1, CopyOf
      <4>2. n.state = starter.hand.state /\ n.pids = starter.hand.pids \cup {"worker"}
        BY DEF Copy
      <4>3. starter.stage = "write"
        BY <3>2 DEF WritePid, StarterGoes
      <4>4. n.state # "none" /\ Started(n.pids)
        BY <4>2, <4>3 DEF Known, StarterKnows, Started
      <4>q. QED
        BY <3>2, <4>1, <4>4 DEF WritePid
    <3>q. QED
      BY <1>3, <3>1, <3>2
  <2>3. Onward
    BY <2>1, <2>2 DEF Onward, Put, Exists
  <2>4. Stored'
    BY <2>1, <2>2, <2>3, StartedStays, PutStored
  <2>5. StarterKnows'
    BY <2>1 DEF StarterKnows, Started, NoMeta
  <2>q. QED
    BY <1>1, <2>1, <2>3, <2>4, <2>5, WorkStays, CallsStay DEF Known
<1>4. CASE ReadRecord
  <2>1. UNCHANGED <<dirs, work>> /\ starter.stage = "read" /\ starter'.stage = "write"
        /\ starter'.hand = IF Exists("sessions") THEN dirs["sessions"].meta ELSE FirstMeta
    BY <1>4 DEF ReadRecord, StarterGoes, StarterAlone
  <2>2. Onward
    BY <2>1 DEF Onward, Exists
  <2>3. StarterKnows'
    BY <2>1 DEF StarterKnows, Known, Stored, Exists, Started, FirstMeta
  <2>q. QED
    BY <1>1, <2>1, <2>2, <2>3, WorkStays, StoredStays, CallsStay DEF Known
<1>q. QED
  BY <1>2, <1>3, <1>4

LEMMA LoadLearns ==
  ASSUME Copies, Known, LoadRecord \/ LoadForRunning \/ LoadForFailure \/ LoadForExit
  PROVE  Known'
<1> USE Shapes
<1>1. UNCHANGED <<dirs, starter, call>>
  BY DEF LoadRecord, LoadForRunning, LoadForFailure, LoadForExit, Loads, WorkerAlone
<1>2. PICK from, to : /\ <<from, to>> \in {<<"spawned", "registering">>, <<"spawning", "recording">>,
                                         <<"registered", "failing">>, <<"up", "exiting">>}
                      /\ Loads(from, to)
  BY DEF LoadRecord, LoadForRunning, LoadForFailure, LoadForExit
<1>3. /\ work.stage = from /\ work'.child = work.child /\ work'.parent = work.parent
      /\ \/ work'.stage = "gone" /\ work'.hand = work.hand
         \/ work'.stage = to /\ work'.hand = dirs["sessions"].meta /\ Exists("sessions")
  BY <1>2 DEF Loads
<1>4. Onward
  <2>1. work.child = "dead" => from \notin {"spawned", "registered"}
    BY <1>3 DEF Known, WorkKnows
  <2>q. QED
    BY <1>1, <1>2, <1>3, <2>1 DEF Onward, Exists
<1>5. WorkKnows'
  BY <1>2, <1>3 DEF Known, WorkKnows, Stored, Exists, Started
<1>6. StarterKnows'
  BY <1>1, <1>2, <1>3, <1>4, StarterStays
<1>7. Stored'
  BY <1>1, <1>2, <1>3, <1>4, StoredStays
<1>q. QED
  BY <1>1, <1>4, <1>5, <1>6, <1>7, CallsStay DEF Known

LEMMA SaveLearns ==
  ASSUME Copies, Known, NEW from, NEW to, NEW m, NEW f, Saves(from, to, m, f),
         to \in {"registered", "up", "gone"}, from \in {"registering", "recording", "exiting", "failing"},
         to = "registered" => from = "registering", to # "registered" => from # "registering",
         to = "up" => from = "recording",
         m.state # "none", m.pids \subseteq work.hand.pids \cup {"worker", "child"},
         "child" \in m.pids \cup f.pids => work.child # "none",
         ~Exists("archive") /\ (work.child # "none" \/ to = "registered") => "worker" \in f.pids
  PROVE  Known'
<1> USE Shapes
<1>1. /\ UNCHANGED <<starter, call>>
      /\ work.stage = from /\ work'.child = work.child /\ work'.stage = to /\ work'.hand = NoMeta
      /\ work'.parent = work.parent
      /\ dirs'["sessions"].meta = m /\ dirs'["sessions"].worker = f /\ dirs'["archive"] = dirs["archive"]
  BY DEF Saves, WorkerAlone
<1>2. Onward
  BY <1>1 DEF Onward, Exists, Known, WorkKnows
<1>3. WorkKnows'
  <2>1. Started(work.hand.pids)'
    BY <1>1 DEF Started, NoMeta
  <2>2. from # "registering" => work.child # "none" \/ from = "failing"
    BY <1>1 DEF Known, WorkKnows
  <2>3. from \in {"registering", "failing"} => work.child = "none"
    BY <1>1 DEF Known, WorkKnows
  <2>q. QED
    BY <1>1, <2>1, <2>2, <2>3 DEF WorkKnows
<1>4. StarterKnows'
  BY <1>1, <1>2, StarterStays
<1>5. Stored'
  BY <1>1, <1>2 DEF Known, Stored, Started, Onward, Exists
<1>q. QED
  BY <1>1, <1>2, <1>3, <1>4, <1>5, CallsStay DEF Known


LEMMA WorkerLearns ==
  ASSUME Copies, Known, WorkerStep \/ WorkerCrashes
  PROVE  Known'
<1> USE Shapes
<1>1. CASE LoadRecord \/ LoadForRunning \/ LoadForFailure \/ LoadForExit
  BY <1>1, LoadLearns
<1>2. work.hand.pids \subseteq Pids /\ Started(work.hand.pids)
  BY DEF Copy, Known, WorkKnows
<1>3. CASE Register
  <2> DEFINE m == [work.hand EXCEPT !.pids = {"worker"}]
             f == [state |-> "starting", pids |-> {"worker"}]
  <2>1. Saves("registering", "registered", m, f)
    BY <1>3 DEF Register
  <2>2. m.state = work.hand.state /\ m.pids = {"worker"} /\ f.pids = {"worker"}
    BY DEF Copy
  <2>3. m.state # "none"
    BY <2>1, <2>2 DEF Saves, Known, WorkKnows
  <2> HIDE DEF m, f
  <2>q. QED
    BY <2>1, <2>2, <2>3, SaveLearns
<1>4. CASE RecordRunning
  <2> DEFINE m == [work.hand EXCEPT !.state = "running", !.pids = @ \cup {"child"}]
             f == FileWith("running", {"worker", "child"})
  <2>1. Saves("recording", "up", m, f)
    BY <1>4 DEF RecordRunning
  <2>2. m.state # "none" /\ m.pids = work.hand.pids \cup {"child"}
    BY DEF Copy
  <2>3. work.stage = "recording"
    BY <2>1 DEF Saves
  <2>4. "child" \in m.pids \cup f.pids => work.child # "none"
    BY <2>3 DEF Known, WorkKnows
  <2>5. ~Exists("archive") /\ work.child # "none" => "worker" \in f.pids
    BY DEF FileWith, NoWorkerFile, Known, Stored
  <2> HIDE DEF m, f
  <2>q. QED
    BY <1>2, <2>1, <2>2, <2>4, <2>5, SaveLearns DEF Pids
<1>5. CASE FailedStart
  <2> DEFINE m == [work.hand EXCEPT !.state = "failed_start"]
             f == FileWith("failed_start", {"worker"})
  <2>1. Saves("failing", "gone", m, f)
    BY <1>5 DEF FailedStart
  <2>2. m.state # "none" /\ m.pids = work.hand.pids /\ f.pids \subseteq {"worker"}
    BY DEF Copy, FileWith, NoWorkerFile
  <2>3. "child" \in m.pids \cup f.pids => work.child # "none"
    BY <1>2, <2>2 DEF Started
  <2>4. ~Exists("archive") /\ work.child # "none" => "worker" \in f.pids
    BY DEF FileWith, NoWorkerFile, Known, Stored
  <2> HIDE DEF m, f
  <2>q. QED
    BY <1>2, <2>1, <2>2, <2>3, <2>4, SaveLearns DEF Pids
<1>6. CASE RecordExit
  <2> DEFINE m == [work.hand EXCEPT !.state = "exited"]
             f == FileWith("exited", dirs["sessions"].worker.pids)
  <2>1. Saves("exiting", "gone", m, f)
    BY <1>6 DEF RecordExit
  <2>2. m.state # "none" /\ m.pids = work.hand.pids /\ f.pids = dirs["sessions"].worker.pids
    BY DEF Copy, FileWith, NoWorkerFile
  <2>3. "child" \in m.pids \cup f.pids => work.child # "none"
    BY <1>2, <2>2 DEF Started, Known, Stored
  <2>4. ~Exists("archive") /\ work.child # "none" => "worker" \in f.pids
    BY <2>2 DEF Known, Stored
  <2> HIDE DEF m, f
  <2>q. QED
    BY <1>2, <2>1, <2>2, <2>3, <2>4, SaveLearns DEF Pids
<1>7. CASE SpawnChild \/ ChildExits \/ WorkerCrashes
  <2>1. UNCHANGED <<dirs, starter, call>>
    BY <1>7 DEF SpawnChild, ChildExits, WorkerCrashes, WorkerAlone
  <2>0. work'.parent = work.parent
    BY <1>7 DEF SpawnChild, ChildExits, WorkerCrashes
  <2>2. \/ work.stage = "registered" /\ work'.stage = "spawning" /\ work'.child = "alive"
           /\ work'.hand = work.hand
        \/ work.child = "alive" /\ work'.stage = work.stage /\ work'.child = "dead"
           /\ work'.hand = work.hand
        \/ work.stage # "none" /\ work'.stage = "gone" /\ work'.child = work.child
           /\ work'.hand = NoMeta
    <3>1. ASSUME SpawnChild
          PROVE  /\ work.stage = "registered" /\ work'.stage = "spawning" /\ work'.child = "alive"
                 /\ work'.hand = work.hand
      BY <3>1 DEF SpawnChild
    <3>2. ASSUME ChildExits
          PROVE  /\ work.child = "alive" /\ work'.stage = work.stage /\ work'.child = "dead"
                 /\ work'.hand = work.hand
      BY <3>2 DEF ChildExits
    <3>3. ASSUME WorkerCrashes
          PROVE  /\ work.stage # "none" /\ work'.stage = "gone" /\ work'.child = work.child
                 /\ work'.hand = NoMeta
      BY <3>3 DEF WorkerCrashes
    <3>q. QED
      BY <1>7, <3>1, <3>2, <3>3
  <2>3. Onward
    BY <2>0, <2>1, <2>2 DEF Onward, Exists, Known, WorkKnows
  <2>4. WorkKnows'
    BY <2>1, <2>2 DEF Known, WorkKnows, Started, NoMeta
  <2>5. StarterKnows'
    BY <2>1, <2>2, <2>3, StarterStays DEF Known, WorkKnows
  <2>6. Stored'
    BY <2>1, <2>2, <2>3 DEF Known, Stored, Started, Onward, Exists
  <2>q. QED
    BY <2>1, <2>3, <2>4, <2>5, <2>6, CallsStay DEF Known
<1>q. QED
  BY <1>1, <1>3, <1>4, <1>5, <1>6, <1>7 DEF WorkerStep

-----------------------------------------------------------------------------
\* The requests.

\* A step of a handler that leaves the files alone.
LEMMA HandlerLearns ==
  ASSUME Copies, Known, NEW c \in Clients, UNCHANGED <<dirs, starter, work>>,
         NEW x, call' = [call EXCEPT ![c] = x], CallKnows(x)
  PROVE  Known'
<1>1. Onward
  BY DEF Onward, Exists
<1>2. \A d \in Clients : call'[d] = call[d] \/ call'[d] = x
  BY DEF Copies
<1>3. CallKnows(x)'
  BY DEF CallKnows, Started, Eligible, Alive, Runs, Lingers, Exists
<1>4. \A d \in Clients : call'[d] = call[d] \/ CallKnows(call[d])'
  BY <1>2, <1>3 DEF CallKnows, Started, Eligible, Alive, Runs, Lingers
<1>q. QED
  BY <1>1, <1>4, CallsStay, StarterStays, WorkStays, StoredStays DEF Known

LEMMA BeginLearns ==
  ASSUME Copies, Known, NEW c \in Clients, NEW m, Begins(c, m),
         m.state = dirs[Found].meta.state, m.pids = dirs[Found].meta.pids
  PROVE  Known'
<1> DEFINE x == [Idle EXCEPT !.stage = "write", !.at = Found, !.hand = m]
<1>1. x.stage = "write" /\ x.at = Found /\ x.hand = m
  BY DEF Idle
<1>2. UNCHANGED <<dirs, starter, work>> /\ call' = [call EXCEPT ![c] = x]
  BY DEF Begins, CallAlone
<1> HIDE DEF x
<1>3. Exists(Found) /\ Found \in Place
  BY FoundPlace DEF Begins
<1>4. m.state # "none" /\ Started(m.pids)
  BY <1>3 DEF Exists, Known, Stored
<1>5. CallKnows(x)
  BY <1>1, <1>3, <1>4 DEF CallKnows
<1>q. QED
  BY <1>2, <1>5, HandlerLearns

LEMMA AttentionLearns ==
  ASSUME Copies, Known, NEW c \in Clients,
         MarkAttention(c) \/ ReadAttention(c) \/ ClearAttention(c) \/ WriteAttention(c)
  PROVE  Known'
<1> USE Shapes
<1>1. dirs[Found].meta \in Copy
  BY FoundPlace
<1>2. ASSUME NEW l, Begins(c, [dirs[Found].meta EXCEPT !.items = l]) PROVE Known'
  BY <1>1, <1>2, BeginLearns DEF Copy
<1>3. CASE MarkAttention(c)
  BY <1>2, <1>3 DEF MarkAttention
<1>4. CASE ReadAttention(c)
  BY <1>2, <1>4 DEF ReadAttention, Mutate
<1>5. CASE ClearAttention(c)
  BY <1>2, <1>5 DEF ClearAttention, Mutate
<1>6. CASE WriteAttention(c)
  <2> DEFINE p == call[c].at
             m == call[c].hand
  <2>1. p \in Place /\ m \in Copy /\ CallKnows(call[c]) /\ call[c].stage = "write"
    BY <1>6 DEF Copies, Known, WriteAttention
  <2>2. dirs' = Put(p, m) /\ UNCHANGED <<starter, work>> /\ call' = [call EXCEPT ![c] = Idle]
    BY <1>6 DEF WriteAttention, CallAlone
  <2>3. m.state # "none" /\ Started(m.pids) /\ (p = "archive" => Exists("archive"))
    BY <2>1 DEF CallKnows
  <2>4. \A d \in Clients : call'[d] = call[d] \/ call'[d] = Idle
    BY <2>2 DEF Copies
  <2> HIDE DEF p, m
  <2>5. Onward
    BY <2>1, <2>2, <2>3 DEF Onward, Exists, Put
  <2>6. Stored'
    BY <2>1, <2>2, <2>3, <2>5, StartedStays, PutStored
  <2>7. \A d \in Clients : call'[d] = call[d] \/ CallKnows(call[d])'
    BY <2>4, IdleKnows DEF CallKnows, Started, Eligible, Alive, Runs, Lingers
  <2>q. QED
    BY <2>2, <2>5, <2>6, <2>7, CallsStay, StarterStays, WorkStays DEF Known
<1>q. QED
  BY <1>3, <1>4, <1>5, <1>6

LEMMA DoctorLearns ==
  ASSUME Copies, Known, NEW c \in Clients,
         DoctorLoads(c) \/ DoctorReadsWorker(c) \/ DoctorChecks(c) \/ DoctorRepairs(c)
  PROVE  Known'
<1> USE Shapes
<1>1. /\ call[c].hand \in Copy /\ CallKnows(call[c])
      /\ call[c] = [stage |-> call[c].stage, at |-> call[c].at, hand |-> call[c].hand,
                    issue |-> call[c].issue, taken |-> call[c].taken]
  BY DEF Copies, Known
<1>2. CASE DoctorLoads(c)
  <2> DEFINE x == [Idle EXCEPT !.stage = "loading", !.hand = dirs["sessions"].meta]
  <2>1. x.stage = "loading" /\ x.hand = dirs["sessions"].meta
    BY DEF Idle
  <2>2. Exists("sessions") /\ UNCHANGED <<dirs, starter, work>> /\ call' = [call EXCEPT ![c] = x]
    BY <1>2 DEF DoctorLoads, DoctorGoes, CallAlone
  <2> HIDE DEF x
  <2>3. CallKnows(x)
    BY <2>1, <2>2 DEF CallKnows, Exists, Known, Stored
  <2>q. QED
    BY <2>2, <2>3, HandlerLearns
<1>3. CASE DoctorReadsWorker(c)
  <2> DEFINE x == [call[c] EXCEPT !.stage = "loaded", !.hand.pids = @ \cup dirs["sessions"].worker.pids]
  <2>1. /\ x.stage = "loaded" /\ x.hand.state = call[c].hand.state
        /\ x.hand.pids = call[c].hand.pids \cup dirs["sessions"].worker.pids
    BY <1>1 DEF Copy
  <2>2. /\ UNCHANGED <<dirs, starter, work>> /\ call' = [call EXCEPT ![c] = x]
        /\ call[c].stage = "loading"
    BY <1>3 DEF DoctorReadsWorker, DoctorGoes, CallAlone
  <2> HIDE DEF x
  <2>3. Started(x.hand.pids)
    BY <1>1, <2>1 DEF CallKnows, Started, Known, Stored
  <2>4. "child" \in x.hand.pids /\ ~Exists("archive") => "worker" \in x.hand.pids
    BY <2>1, <2>3 DEF Started, Known, Stored
  <2>5. CallKnows(x)
    BY <1>1, <2>1, <2>2, <2>3, <2>4 DEF CallKnows
  <2>q. QED
    BY <2>2, <2>5, HandlerLearns
<1>4. CASE DoctorChecks(c)
  <2> DEFINE x == [call[c] EXCEPT !.stage = "checked", !.issue = Judged(call[c].hand),
                               !.taken = Exists("archive")]
  <2>1. x.stage = "checked" /\ x.hand = call[c].hand /\ x.issue = Judged(call[c].hand)
    BY <1>1
  <2>2. /\ UNCHANGED <<dirs, starter, work>> /\ call' = [call EXCEPT ![c] = x]
        /\ call[c].stage = "loaded"
    BY <1>4 DEF DoctorChecks, DoctorGoes, CallAlone
  <2> HIDE DEF x
  <2>3. ASSUME NEW m \in Copy, Judged(m) = "stale_record" PROVE Eligible(m) /\ m.pids # {}
    <3>1. m.state \in Active \cup {"orphaned", "stale"} /\ m.pids # {}
      BY <2>3 DEF Judged
    <3>2. \A pid \in m.pids : ~Alive(pid)
      BY <2>3 DEF Judged
    <3>q. QED
      BY <3>1, <3>2 DEF Eligible, Degraded
  <2>4. CallKnows(x)
    BY <1>1, <2>1, <2>2, <2>3 DEF CallKnows
  <2>q. QED
    BY <2>2, <2>4, HandlerLearns
<1>5. CASE DoctorRepairs(c)
  <2>1. UNCHANGED <<starter, work>> /\ call' = [call EXCEPT ![c] = Idle]
    BY <1>5 DEF DoctorRepairs, DoctorGoes, CallAlone
  <2>2. CASE ~Archives(c)
    BY <1>5, <2>1, <2>2, IdleKnows, HandlerLearns DEF DoctorRepairs
  <2>3. CASE Archives(c)
    <3>1. ~Exists("archive") /\ Exists("sessions") /\ Exists("archive")'
          /\ dirs'["sessions"] = NoDir /\ dirs'["archive"] = dirs["sessions"]
      BY <1>5, <2>3 DEF DoctorRepairs, Archives, Exists, Known, Stored
    <3>2. Onward
      BY <2>1, <3>1 DEF Onward
    <3>3. Stored'
      BY <2>1, <3>1 DEF Known, Stored, Started, Exists, NoDir, NoMeta, NoWorkerFile
    <3>4. \A d \in Clients : call'[d] = call[d] \/ call'[d] = Idle
      BY <2>1 DEF Copies
    <3>5. \A d \in Clients : call'[d] = call[d] \/ CallKnows(call[d])'
      BY <3>4, IdleKnows DEF CallKnows, Started, Eligible, Alive, Runs, Lingers
    <3>q. QED
      BY <2>1, <3>2, <3>3, <3>5, CallsStay, StarterStays, WorkStays DEF Known
  <2>q. QED
    BY <2>2, <2>3
<1>q. QED
  BY <1>2, <1>3, <1>4, <1>5

LEMMA RestartLearns ==
  ASSUME Copies, Known, HostRestarts PROVE Known'
<1> USE Shapes
<1>1. /\ work'.stage = work.stage /\ work'.child = work.child /\ work'.hand = work.hand /\ ~work'.parent
      /\ starter' = [stage |-> "done", hand |-> NoMeta] /\ call' = [d \in Clients |-> Idle]
  BY DEF HostRestarts
<1>2. Onward
  <2>1. dirs'["archive"] = dirs["archive"]
    BY DEF HostRestarts
  <2>q. QED
    BY <1>1, <2>1 DEF Onward, Exists
<1>3. Stored'
  <2>1. CASE dirs["sessions"].meta.state \notin Active
    <3>1. UNCHANGED dirs
      BY <2>1 DEF HostRestarts
    <3>q. QED
      BY <1>1, <1>2, <3>1, StoredStays
  <2>2. CASE dirs["sessions"].meta.state \in Active
    <3>1. \A state \in Reconciled : state # "none"
      <4>1. \A state \in Evidence : state # "none"
        BY DEF Evidence, State, Active, Degraded
      <4>q. QED
        BY <2>2, <4>1 DEF Reconciled, Active
    <3> DEFINE now(state) == IF dirs["sessions"].worker.state \in Active THEN state
                             ELSE dirs["sessions"].worker.state
    <3>2. PICK state \in Reconciled :
            dirs' = [dirs EXCEPT !["sessions"].meta.state = state, !["sessions"].worker.state = now(state)]
      BY <2>2 DEF HostRestarts
    <3> HIDE DEF now
    <3>3. /\ dirs'["sessions"].meta.state = state /\ dirs'["sessions"].meta.pids = dirs["sessions"].meta.pids
          /\ dirs'["sessions"].worker.pids = dirs["sessions"].worker.pids
          /\ dirs'["archive"] = dirs["archive"]
      BY <3>2 DEF Copy, File
    <3>q. QED
      BY <1>1, <3>1, <3>3 DEF Known, Stored, Started, Exists
  <2>q. QED
    BY <2>1, <2>2
<1>4. StarterKnows'
  BY <1>1 DEF StarterKnows, Started, NoMeta
<1>5. \A d \in Clients : CallKnows(call[d])'
  BY <1>1, IdleKnows DEF CallKnows, Started, Eligible, Alive, Runs, Lingers
<1>q. QED
  BY <1>1, <1>3, <1>4, <1>5, WorkStays DEF Known

LEMMA KnownInit == Init => Known
<1> SUFFICES ASSUME Init PROVE Known
  OBVIOUS
<1>1. /\ dirs["sessions"].meta = FirstMeta /\ dirs["archive"] = NoDir /\ dirs["sessions"].worker = NoWorkerFile
  BY DEF Init, Place, NoDir
<1>2. Stored
  BY <1>1 DEF Init, Stored, Exists, Started, FirstMeta, NoDir, NoMeta, NoWorkerFile, Place
<1>3. StarterKnows /\ WorkKnows
  BY DEF Init, StarterKnows, WorkKnows, Started, NoMeta
<1>q. QED
  BY <1>2, <1>3, IdleKnows DEF Init, Known

LEMMA KnownAlways == Spec => [](Copies /\ Known)
<1>1. Init => Copies /\ Known
  BY CopiesInit, KnownInit
<1>2. Copies /\ Known /\ [Next]_vars => (Copies /\ Known)'
  <2> SUFFICES ASSUME Copies, Known, [Next]_vars PROVE (Copies /\ Known)'
    OBVIOUS
  <2>1. CASE UNCHANGED vars
    <3>1. UNCHANGED <<dirs, starter, work, call, marks>>
      BY <2>1 DEF vars
    <3>2. Copies'
      BY <3>1 DEF Copies
    <3>3. Onward
      BY <3>1 DEF Onward, Exists
    <3>4. Known'
      BY <3>1, <3>3, CallsStay, StarterStays, WorkStays, StoredStays DEF Known
    <3>q. QED
      BY <3>2, <3>4
  <2>q. QED
    BY <2>1, StarterKeeps, WorkerKeeps, AttentionKeeps, DoctorKeeps, RestartKeeps,
       StarterLearns, WorkerLearns, AttentionLearns, DoctorLearns, RestartLearns DEF Next
<1>q. QED
  BY <1>1, <1>2, PTL DEF Spec

\* However stale the copies that the starter and the worker write, and whoever dies, doctor
\* archives no session whose worker is alive if what it read names a process
\* (archive_eligible): who knows the child knows the worker.
THEOREM SparesTheLiving == Spec => DoctorSparesLive
<1>1. Copies /\ Known /\ [Next]_vars =>
        [\A c \in Clients :
           Archives(c) /\ DoctorRepairs(c) /\ call[c].hand.pids # {} => work.stage = "gone"]_vars
  <2> SUFFICES ASSUME Copies, Known, NEW c \in Clients, Archives(c), call[c].hand.pids # {}
               PROVE  work.stage = "gone"
    OBVIOUS
  <2>1. call[c].hand.pids \subseteq Pids /\ CallKnows(call[c])
    BY Shapes DEF Copy, Known
  <2>2. "worker" \in call[c].hand.pids
    BY <2>1 DEF Archives, CallKnows, Pids
  <2>q. QED
    BY <2>1, <2>2 DEF Archives, CallKnows, Started, Eligible, Alive, Runs, Lingers
<1>q. QED
  BY <1>1, KnownAlways, PTL DEF Spec, DoctorSparesLive

\* What doctor's check called a stale record, with no archive of it there, its repair finds
\* eligible and moves, unless another doctor has since: between the check and the repair
\* processes only die, and none is started that the copy names (check_session_record,
\* archive_eligible).
THEOREM RepairsWhatItReports == Spec => RepairableIsRepaired
<1>1. Copies /\ Known /\ [Next]_vars =>
        [\A c \in Clients :
           call[c].issue = "stale_record" /\ ~call[c].taken /\ DoctorRepairs(c)
             => Eligible(call[c].hand) /\ Exists("archive")']_vars
  <2> SUFFICES ASSUME Copies, Known, NEW c \in Clients, call[c].issue = "stale_record", DoctorRepairs(c)
               PROVE  Eligible(call[c].hand) /\ Exists("archive")'
    OBVIOUS
  <2>1. Eligible(call[c].hand) /\ (Exists("sessions") \/ Exists("archive"))
    BY DEF Known, CallKnows, Stored, DoctorRepairs, DoctorGoes
  <2>q. QED
    BY <2>1 DEF DoctorRepairs, DoctorGoes, Archives, Exists
<1>q. QED
  BY <1>1, KnownAlways, PTL DEF Spec, RepairableIsRepaired

-----------------------------------------------------------------------------
\* Types.  What is left of them: the counters.

Counted == marks \in 0 .. MaxMarks /\ calls \in 0 .. MaxCalls /\ crashes \in 0 .. MaxCrashes

Bumps(n, now, max) == now = n \/ (n < max /\ now = n + 1)

LEMMA BumpBounded ==
  ASSUME NEW max \in Nat, NEW n \in 0 .. max, NEW now, Bumps(n, now, max)
  PROVE  now \in 0 .. max
BY DEF Bumps

LEMMA CountedNext == Counted /\ [Next]_vars => Counted'
<1> SUFFICES ASSUME Counted, [Next]_vars PROVE Counted'
  OBVIOUS
<1> DEFINE Counts == /\ Bumps(marks, marks', MaxMarks) /\ Bumps(calls, calls', MaxCalls)
                     /\ Bumps(crashes, crashes', MaxCrashes)
<1> SUFFICES Counts
  BY BumpBounded, RecordsAssumption DEF Counted
<1>1. CASE Launch \/ LaunchFails \/ ReadRecord \/ WritePid
  BY <1>1 DEF Launch, LaunchFails, ReadRecord, WritePid, StarterAlone, Bumps
<1>2. CASE WorkerStep
  BY <1>2 DEF WorkerStep, LoadRecord, Register, SpawnChild, LoadForRunning, RecordRunning,
     LoadForFailure, FailedStart, ChildExits, LoadForExit, RecordExit, Loads, Saves, WorkerAlone,
     Bumps
<1>3. CASE WorkerCrashes \/ HostRestarts
  BY <1>3 DEF WorkerCrashes, HostRestarts, WorkerAlone, Bumps
<1>4. ASSUME NEW c \in Clients, \/ MarkAttention(c) \/ ReadAttention(c) \/ ClearAttention(c)
                                \/ WriteAttention(c)
      PROVE  Counts
  BY <1>4 DEF MarkAttention, ReadAttention, ClearAttention, WriteAttention, Mutate, Begins,
     CallAlone, Bumps
<1>5. ASSUME NEW c \in Clients, \/ DoctorLoads(c) \/ DoctorReadsWorker(c) \/ DoctorChecks(c)
                                \/ DoctorRepairs(c)
      PROVE  Counts
  BY <1>5 DEF DoctorLoads, DoctorReadsWorker, DoctorChecks, DoctorRepairs, DoctorGoes, CallAlone,
     Bumps
<1>6. CASE UNCHANGED vars
  BY <1>6 DEF vars, Bumps
<1>q. QED
  BY <1>1, <1>2, <1>3, <1>4, <1>5, <1>6 DEF Next

LEMMA CopyIsMeta ==
  ASSUME NEW m \in Copy PROVE IsMeta(m)
<1>1. m.items \in Seq(Item)
  BY DEF Copy, Lists
<1>2. \A i \in DOMAIN m.items : m.items[i] \in Item
  BY <1>1
<1>q. QED
  BY <1>2 DEF Copy, IsMeta, States, Pids

LEMMA CopiesTyped == Copies /\ Counted => TypeOK
<1> SUFFICES ASSUME Copies, Counted PROVE TypeOK
  OBVIOUS
<1>1. ASSUME NEW p \in Place PROVE dirs[p].meta \in Copy /\ dirs[p].worker.state \in States
  BY <1>1 DEF Copies, File
<1>2. starter.stage \in {"launch", "read", "write", "done"} /\ starter.hand \in Copy
  BY DEF Copies
<1>3. /\ work.stage \in {"none", "spawned", "registering", "registered", "spawning", "recording",
                         "up", "exiting", "failing", "gone"}
      /\ work.child \in {"none", "alive", "dead"} /\ work.hand \in Copy /\ work.parent \in BOOLEAN
  BY DEF Copies
<1>4. ASSUME NEW c \in Clients
      PROVE  /\ call[c].stage \in {"idle", "write", "loading", "loaded", "checked"}
             /\ call[c].at \in Place /\ call[c].hand \in Copy /\ call[c].issue \in Judgement
             /\ call[c].taken \in BOOLEAN
  BY <1>4 DEF Copies
<1>q. QED
  BY <1>1, <1>2, <1>3, <1>4, CopyIsMeta DEF TypeOK, Counted, States

\* Every copy of the record, on disk or in anybody's hands, is one: its state, its pids and each
\* of its items, whose ids are those of the items that were made.
THEOREM TypeCorrect == Spec => []TypeOK
<1>1. Init => Counted
  BY RecordsAssumption DEF Init, Counted
<1>2. Copies /\ Counted => TypeOK
  BY CopiesTyped
<1>q. QED
  BY <1>1, <1>2, KnownAlways, CountedNext, PTL DEF Spec
=============================================================================
