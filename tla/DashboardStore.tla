--------------------------- MODULE DashboardStore ---------------------------
(***************************************************************************)
(* The store of dashboard generations: gen_dashboard.py renders four       *)
(* artifacts from the inputs and publishes them as a directory of their    *)
(* own, which the file current.json names once it is complete; readers pin *)
(* the named directory by opening its files; the writer removes old        *)
(* directories before it adds one.  Two kernel locks order them: the       *)
(* generation lock among writers, and the catalog gate between removal and *)
(* the opening of files.  Either is released when its holder dies.         *)
(*                                                                         *)
(* A file appears complete or not at all (atomic_write_text replaces it    *)
(* after a complete write).  Sizes are counted in blocks of 4096 bytes;    *)
(* the temporary file of a writer killed in the middle of one is not.  The *)
(* exports outside the store, which the generator also writes, are left    *)
(* out.                                                                    *)
(***************************************************************************)
EXTENDS Naturals, FiniteSets, SequencesExt

CONSTANTS
  Generations,      \* names of directories (uuids), reused in the model once forgotten
  Artifacts,        \* the rendered files
  Writers, Readers, None,
  KeepRecent,       \* collect_snapshots(keep_recent)
  MaxGenerations,   \* MAX_SNAPSHOT_GENERATIONS
  MaxBytes,         \* MAX_SNAPSHOT_STORAGE_BYTES
  Size,             \* the sizes of the files rendered from a version of the inputs
  MaxInput          \* bound: versions of the inputs

ASSUME RetentionAssumption == KeepRecent \in Nat /\ KeepRecent >= 2
ASSUME CapacityAssumption ==
  MaxGenerations \in Nat /\ MaxBytes \in Nat /\ MaxInput \in Nat \ {0}
ASSUME SizeAssumption ==
  Size \in [0 .. MaxInput -> [Artifacts \cup {"manifest"} -> 0 .. MaxBytes]]
ASSUME ManifestAssumption == "manifest" \notin Artifacts
ASSUME NoneAssumption ==
  /\ None \notin Generations \cup Writers \cup Readers
  /\ None \notin Nat
  /\ Writers \cap Readers = {}

VARIABLES
  windows,   \* whether an open file refuses to be unlinked
  input,     \* version of what is rendered
  lock,      \* holder of the generation lock, None
  catalog,   \* holder of the catalog gate, None
  stored,    \* the existing directories
  order,     \* these, by time of modification, newest last
  files,     \* the files in each directory
  made,      \* the version of the inputs they were rendered from
  pointer,   \* current.json: the generation it names and, as the hash of its
             \* manifest fixes every file, the version of the inputs it shows
  writer, reader

vars ==
  <<windows, input, lock, catalog, stored, order, files, made, pointer, writer, reader>>

Files == Artifacts \cup {"manifest"}

Versions == 0 .. MaxInput

Writer == [pc: {"idle", "gather", "collect", "remove", "check", "write", "refused"},
           gen: Generations \cup {None}, version: Versions, todo: SUBSET Generations]

Reader == [pc: {"idle", "gate", "open", "pinned", "failed"},
           gen: Generations \cup {None}, version: Versions, opened: SUBSET Artifacts]

IdleWriter == [pc |-> "idle", gen |-> None, version |-> 0, todo |-> {}]

IdleReader == [pc |-> "idle", gen |-> None, version |-> 0, opened |-> {}]

NoPointer == [gen |-> None, version |-> 0]

TypeOK ==
  /\ windows \in BOOLEAN
  /\ input \in Versions
  /\ lock \in Writers \cup {None}
  /\ catalog \in Writers \cup Readers \cup {None}
  /\ stored \in SUBSET Generations
  /\ order \in Seq(Generations)
  /\ files \in [Generations -> SUBSET Files]
  /\ made \in [Generations -> Versions]
  /\ pointer \in [gen: Generations, version: Versions] \cup {NoPointer}
  /\ writer \in [Writers -> Writer]
  /\ reader \in [Readers -> Reader]

Init ==
  /\ windows \in BOOLEAN
  /\ input = 1
  /\ lock = None /\ catalog = None
  /\ stored = {} /\ order = <<>>
  /\ files = [g \in Generations |-> {}]
  /\ made = [g \in Generations |-> 0]
  /\ pointer = NoPointer
  /\ writer = [w \in Writers |-> IdleWriter]
  /\ reader = [r \in Readers |-> IdleReader]

-----------------------------------------------------------------------------
Has(g, f) == g \in stored /\ f \in files[g]

Complete(g) == g \in stored /\ files[g] = Files

(* A directory is as old as its last change.                               *)
Touched(g) == Append(Remove(order, g), g)

Newest(n) == {order[Len(order) - i] : i \in {j \in 0 .. n - 1 : j < Len(order)}}

Reads(r, g) == reader[r].pc \in {"open", "pinned"} /\ reader[r].gen = g

IsOpen(g) == \E r \in Readers : Reads(r, g) /\ reader[r].opened # {}

Fresh(g) ==
  /\ g \notin stored /\ g # pointer.gen
  /\ \A r \in Readers : ~Reads(r, g)

Step(w, pc) == writer' = [writer EXCEPT ![w].pc = pc]

-----------------------------------------------------------------------------
(* The generator.                                                          *)

InputChanges ==
  /\ input < MaxInput
  /\ input' = input + 1
  /\ UNCHANGED <<windows, lock, catalog, stored, order, files, made, pointer, writer, reader>>

(* DashboardLock: a caller that finds it taken fails, at once or after     *)
(* thirty seconds, and has done nothing.                                   *)
Begin(w) ==
  /\ writer[w].pc = "idle"
  /\ lock = None
  /\ lock' = w
  /\ Step(w, "gather")
  /\ UNCHANGED <<windows, input, catalog, stored, order, files, made, pointer, reader>>

(* The inputs are read and rendered under the lock.                        *)
Gather(w) ==
  /\ writer[w].pc = "gather"
  /\ writer' = [writer EXCEPT ![w].pc = "collect", ![w].version = input]
  /\ UNCHANGED <<windows, input, lock, catalog, stored, order, files, made, pointer, reader>>

Retained_NewestOnly == Newest(KeepRecent)

Retained_Unfinished ==
  Newest(KeepRecent) \cup {pointer.gen} \cup {g \in stored : ~Has(g, "manifest")}

(* What collect_snapshots protects.                                        *)
Retained == Newest(KeepRecent) \cup {pointer.gen}

SkipCollection(w) ==
  /\ writer[w].pc = "collect"
  /\ pointer = NoPointer
  /\ Step(w, "check")
  /\ UNCHANGED <<windows, input, lock, catalog, stored, order, files, made, pointer, reader>>

BeginCollection_Ungated(w) ==
  /\ writer[w].pc = "collect"
  /\ pointer # NoPointer
  /\ writer' = [writer EXCEPT ![w].pc = "remove", ![w].todo = stored \ Retained]
  /\ UNCHANGED <<windows, input, lock, catalog, stored, order, files, made, pointer, reader>>

(* The candidates are chosen behind the catalog gate.  A collection that   *)
(* cannot have the gate within a second ends the generation (Abort).       *)
BeginCollection(w) ==
  /\ writer[w].pc = "collect"
  /\ pointer # NoPointer
  /\ catalog = None
  /\ catalog' = w
  /\ writer' = [writer EXCEPT ![w].pc = "remove", ![w].todo = stored \ Retained]
  /\ UNCHANGED <<windows, input, lock, stored, order, files, made, pointer, reader>>

(* The candidates are taken newest first, file by file, the manifest last. *)
Candidate(w, g) ==
  /\ writer[w].pc = "remove"
  /\ g \in writer[w].todo
  /\ \A h \in writer[w].todo : SelectInSeq(order, LAMBDA x : x = h)
                                 <= SelectInSeq(order, LAMBDA x : x = g)

RemoveFile(w, g, f) ==
  /\ Candidate(w, g)
  /\ ~(windows /\ IsOpen(g))
  /\ Has(g, f)
  /\ f = "manifest" => files[g] = {"manifest"}
  /\ files' = [files EXCEPT ![g] = @ \ {f}]
  /\ order' = Touched(g)
  /\ UNCHANGED <<windows, input, lock, catalog, stored, made, pointer, writer, reader>>

RemoveDirectory(w, g) ==
  /\ Candidate(w, g)
  /\ files[g] = {}
  /\ order' = Remove(order, g)
  /\ stored' = stored \ {g}
  /\ made' = [made EXCEPT ![g] = 0]
  /\ writer' = [writer EXCEPT ![w].todo = @ \ {g}]
  /\ UNCHANGED <<windows, input, lock, catalog, files, pointer, reader>>

(* unlink fails: the directory is left for a later collection.             *)
Defer(w, g) ==
  /\ Candidate(w, g)
  /\ windows /\ IsOpen(g)
  /\ writer' = [writer EXCEPT ![w].todo = @ \ {g}]
  /\ UNCHANGED <<windows, input, lock, catalog, stored, order, files, made, pointer, reader>>

EndCollection(w) ==
  /\ writer[w].pc = "remove"
  /\ writer[w].todo = {}
  /\ catalog' = IF catalog = w THEN None ELSE catalog
  /\ Step(w, "check")
  /\ UNCHANGED <<windows, input, lock, stored, order, files, made, pointer, reader>>

Blocks(fs, v) == {b \in fs \X (1 .. MaxBytes) : b[2] <= Size[v][b[1]]}

(* The blocks in use, those of unfinished directories included.            *)
Used ==
  Cardinality({x \in stored \X (Files \X (1 .. MaxBytes)) :
                 x[2] \in Blocks(files[x[1]], made[x[1]])})

(* What check_snapshot_capacity wants to be free: the artifacts, once more *)
(* the largest of them for its temporary file, and three blocks of         *)
(* metadata.                                                               *)
Reserve(v) ==
  Cardinality(Blocks(Artifacts, v))
    + Cardinality({i \in 1 .. MaxBytes : \E f \in Artifacts : i <= Size[v][f]})
    + 3

HasRoom(v) ==
  /\ Cardinality(stored) < MaxGenerations
  /\ Used + Reserve(v) <= MaxBytes

(* check_snapshot_capacity, then the new directory.                        *)
Stage(w, g) ==
  /\ writer[w].pc = "check"
  /\ HasRoom(writer[w].version)
  /\ Fresh(g)
  /\ order' = Append(order, g)
  /\ stored' = stored \cup {g}
  /\ made' = [made EXCEPT ![g] = writer[w].version]
  /\ writer' = [writer EXCEPT ![w].pc = "write", ![w].gen = g]
  /\ UNCHANGED <<windows, input, lock, catalog, files, pointer, reader>>

RefuseCapacity(w) ==
  /\ writer[w].pc = "check"
  /\ ~HasRoom(writer[w].version)
  /\ Step(w, "refused")
  /\ UNCHANGED <<windows, input, lock, catalog, stored, order, files, made, pointer, reader>>

WriteFile(w, f) ==
  LET g == writer[w].gen IN
  /\ writer[w].pc = "write"
  /\ f \notin files[g]
  /\ f = "manifest" => Artifacts \subseteq files[g]
  /\ files' = [files EXCEPT ![g] = @ \cup {f}]
  /\ UNCHANGED <<windows, input, lock, catalog, stored, order, made, pointer, writer, reader>>

Commit(w) ==
  /\ writer[w].pc = "write"
  /\ files[writer[w].gen] = Files
  /\ pointer' = [gen |-> writer[w].gen, version |-> writer[w].version]
  /\ writer' = [writer EXCEPT ![w] = IdleWriter]
  /\ lock' = None
  /\ UNCHANGED <<windows, input, catalog, stored, order, files, made, reader>>

(* An exception, the time limit of the caller, or a crash, anywhere: the   *)
(* locks go with the process and what it did to the store stays.           *)
Abort(w) ==
  /\ writer[w].pc # "idle"
  /\ writer' = [writer EXCEPT ![w] = IdleWriter]
  /\ lock' = IF lock = w THEN None ELSE lock
  /\ catalog' = IF catalog = w THEN None ELSE catalog
  /\ UNCHANGED <<windows, input, stored, order, files, made, pointer, reader>>

-----------------------------------------------------------------------------
(* A reader: pin_snapshot.                                                 *)

EnterGate(r) ==
  /\ reader[r].pc = "idle"
  /\ pointer # NoPointer
  /\ catalog = None
  /\ catalog' = r
  /\ reader' = [reader EXCEPT ![r].pc = "gate"]
  /\ UNCHANGED <<windows, input, lock, stored, order, files, made, pointer, writer>>

(* resolve_snapshot: pointer and manifest must be there and agree.         *)
Resolve(r) ==
  /\ reader[r].pc = "gate"
  /\ reader' = [reader EXCEPT ![r].pc = IF Has(pointer.gen, "manifest") THEN "open"
                                        ELSE "failed",
                              ![r].gen = pointer.gen, ![r].version = pointer.version]
  /\ UNCHANGED <<windows, input, lock, catalog, stored, order, files, made, pointer, writer>>

Open(r, f) ==
  /\ reader[r].pc = "open"
  /\ f \notin reader[r].opened
  /\ reader' = IF Has(reader[r].gen, f)
               THEN [reader EXCEPT ![r].opened = @ \cup {f}]
               ELSE [reader EXCEPT ![r].pc = "failed"]
  /\ UNCHANGED <<windows, input, lock, catalog, stored, order, files, made, pointer, writer>>

(* With every file open the gate is left; from here on the files are read. *)
LeaveGate(r) ==
  /\ reader[r].pc = "open"
  /\ reader[r].opened = Artifacts
  /\ reader' = [reader EXCEPT ![r].pc = "pinned"]
  /\ catalog' = None
  /\ UNCHANGED <<windows, input, lock, stored, order, files, made, pointer, writer>>

(* The end of the with block, an error, or the death of the reader.        *)
CloseFiles(r) ==
  /\ reader[r].pc # "idle"
  /\ reader' = [reader EXCEPT ![r] = IdleReader]
  /\ catalog' = IF catalog = r THEN None ELSE catalog
  /\ UNCHANGED <<windows, input, lock, stored, order, files, made, pointer, writer>>

-----------------------------------------------------------------------------
Collection(w) ==
  \/ SkipCollection(w) \/ BeginCollection(w) \/ EndCollection(w)
  \/ \E g \in Generations : RemoveDirectory(w, g) \/ Defer(w, g)
  \/ \E g \in Generations, f \in Files : RemoveFile(w, g, f)

Publication(w) ==
  \/ \E g \in Generations : Stage(w, g)
  \/ RefuseCapacity(w)
  \/ \E f \in Files : WriteFile(w, f)
  \/ Commit(w)

Next ==
  \/ InputChanges
  \/ \E w \in Writers : Begin(w) \/ Gather(w) \/ Collection(w) \/ Publication(w) \/ Abort(w)
  \/ \E r \in Readers : EnterGate(r) \/ Resolve(r) \/ LeaveGate(r) \/ CloseFiles(r)
  \/ \E r \in Readers, f \in Artifacts : Open(r, f)

Spec == Init /\ [][Next]_vars

-----------------------------------------------------------------------------
(* Whatever a writer was doing when it died, and however many unfinished   *)
(* directories newer than the published one are about, what current.json   *)
(* names is there and complete.                                            *)
PublishedIsComplete == pointer # NoPointer => Complete(pointer.gen)

(* What a collection may leave: the newest, the published one and, where   *)
(* an open file cannot be unlinked, what readers have open.                *)
KeptAtMost == KeepRecent + 1 + Cardinality({r \in Readers : windows})

(* A generation is refused for lack of room only when nothing more can be  *)
(* removed.  However many writers died and left their directories behind,  *)
(* and whatever was open when they were collected, the collection before   *)
(* the refusal has brought the store down to what it has to keep; so from  *)
(* the first publication on, where the limit on directories is above that, *)
(* it is the bytes of the kept ones that stand in the way.                 *)
RefusedAsLastResort ==
  pointer # NoPointer =>
    \A w \in Writers : writer[w].pc = "refused" => Cardinality(stored) <= KeptAtMost

(* The store is a register: a reader that has found the published          *)
(* generation reads it to the end, whatever is published and removed       *)
(* meanwhile, and the published version of the inputs never goes back.     *)
View ==
  [r \in Readers |->
     IF reader[r].pc = "failed" THEN 0
     ELSE IF reader[r].pc \in {"open", "pinned"} THEN reader[r].version
     ELSE None]

Register == INSTANCE SnapshotRegister WITH current <- pointer.version, view <- View

ImplementsRegister == Register!Spec
=============================================================================
