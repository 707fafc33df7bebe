------------------------ MODULE DashboardStoreProofs ------------------------
(* Proofs about DashboardStore, for any numbers of writers, readers and    *)
(* directories: the published generation is always complete, the store     *)
(* implements the register, and it refuses a generation only when no       *)
(* collection could have made room for it.                                 *)
EXTENDS DashboardStore, FiniteSetTheorems, TLAPS

USE NoneAssumption, ManifestAssumption, CapacityAssumption

-----------------------------------------------------------------------------
(* The inductive invariant.                                                *)

(* The part of TypeOK that the proofs need: not the order of directories.  *)
Typed ==
  /\ input \in Versions
  /\ stored \in SUBSET Generations
  /\ files \in [Generations -> SUBSET Files]
  /\ made \in [Generations -> Versions]
  /\ pointer \in [gen: Generations, version: Versions] \cup {NoPointer}
  /\ writer \in [Writers -> Writer]
  /\ reader \in [Readers -> Reader]

(* The generation lock is held from the beginning to the end of a writer's *)
(* work, the catalog gate while directories are removed or files opened.   *)
Locked ==
  /\ \A w \in Writers : writer[w].pc # "idle" => lock = w
  /\ \A w \in Writers : writer[w].pc = "remove" => catalog = w
  /\ \A r \in Readers : reader[r].pc \in {"gate", "open"} => catalog = r

(* Nobody removes or writes the published generation.                      *)
Apart ==
  \A w \in Writers :
    /\ writer[w].pc = "remove" => pointer.gen \notin writer[w].todo
    /\ writer[w].pc = "write" => /\ writer[w].gen \in stored
                                 /\ writer[w].gen # pointer.gen

(* A writer that has gathered holds inputs no older than those published.  *)
Current ==
  /\ pointer # NoPointer => pointer.version \in 1 .. input
  /\ input >= 1
  /\ \A w \in Writers : writer[w].pc \in {"collect", "remove", "check", "write", "refused"}
       => writer[w].version \in 1 .. input /\ writer[w].version >= pointer.version

(* A reader that enters the gate finds a pointer, and the generation whose *)
(* files it opens stays whole while it does.                               *)
Served ==
  \A r \in Readers :
    /\ reader[r].pc = "gate" => pointer # NoPointer
    /\ reader[r].pc = "open" => Complete(reader[r].gen)
    /\ reader[r].pc \in {"open", "pinned"} => reader[r].version \in 1 .. MaxInput
    /\ reader[r].pc # "failed"

IInv == Typed /\ Locked /\ Apart /\ Current /\ PublishedIsComplete /\ Served

LEMMA InitIInv == Init => IInv
  BY DEF Init, IInv, Typed, Locked, Apart, Current, PublishedIsComplete, Served, Versions, Writer,
         Reader, IdleWriter, IdleReader, NoPointer, Complete, Files

-----------------------------------------------------------------------------
(* Every action preserves it.                                              *)

LEMMA TypedStep == IInv /\ [Next]_vars => Typed'
<1> SUFFICES ASSUME IInv, [Next]_vars PROVE Typed'
  OBVIOUS
<1> USE DEF IInv, Typed, Versions, Writer, Reader, IdleWriter, IdleReader, NoPointer, Step, Files
<1>1. CASE InputChanges
  BY <1>1 DEF InputChanges
<1>2. ASSUME NEW w \in Writers, Begin(w) \/ Gather(w) \/ Abort(w) PROVE Typed'
  <2>1. CASE Begin(w)
    BY <2>1 DEF Begin
  <2>2. CASE Gather(w)
    <3> DEFINE x == [writer EXCEPT ![w].pc = "collect"]
    <3>1. x \in [Writers -> Writer]
      OBVIOUS
    <3>2. [x EXCEPT ![w].version = input] \in [Writers -> Writer]
      <4>1. \A k \in Writer : [k EXCEPT !.version = input] \in Writer
        OBVIOUS
      <4> HIDE DEF x, Writer
      <4> QED BY <3>1, <4>1
    <3>3. writer' = [x EXCEPT ![w].version = input]
      BY <2>2 DEF Gather
    <3>4. writer' \in [Writers -> Writer]
      BY <3>2, <3>3
    <3> HIDE DEF x, Writer
    <3> QED BY <2>2, <3>4 DEF Gather
  <2>3. CASE Abort(w)
    BY <2>3 DEF Abort
  <2> QED BY <1>2, <2>1, <2>2, <2>3
<1>3. ASSUME NEW w \in Writers, Collection(w) PROVE Typed'
  <2>1. CASE SkipCollection(w)
    BY <2>1 DEF SkipCollection
  <2>2. CASE BeginCollection(w)
    <3> DEFINE x == [writer EXCEPT ![w].pc = "remove"]
    <3>1. x \in [Writers -> Writer]
      OBVIOUS
    <3>2. [x EXCEPT ![w].todo = stored \ Retained] \in [Writers -> Writer]
      <4>1. \A k \in Writer : [k EXCEPT !.todo = stored \ Retained] \in Writer
        OBVIOUS
      <4> HIDE DEF x, Writer
      <4> QED BY <3>1, <4>1
    <3>3. writer' = [x EXCEPT ![w].todo = stored \ Retained]
      BY <2>2 DEF BeginCollection
    <3>4. writer' \in [Writers -> Writer]
      BY <3>2, <3>3
    <3> HIDE DEF x, Writer
    <3> QED BY <2>2, <3>4 DEF BeginCollection
  <2>3. CASE EndCollection(w)
    BY <2>3 DEF EndCollection
  <2>4. CASE \E g \in Generations : RemoveDirectory(w, g)
    BY <2>4 DEF RemoveDirectory, Candidate
  <2>5. CASE \E g \in Generations : Defer(w, g)
    BY <2>5 DEF Defer, Candidate
  <2>6. CASE \E g \in Generations, f \in Files : RemoveFile(w, g, f)
    BY <2>6 DEF RemoveFile
  <2> QED BY <1>3, <2>1, <2>2, <2>3, <2>4, <2>5, <2>6 DEF Collection
<1>4. ASSUME NEW w \in Writers, Publication(w) PROVE Typed'
  <2>1. CASE \E g \in Generations : Stage(w, g)
    <3> PICK g \in Generations : Stage(w, g)
      BY <2>1
    <3> DEFINE x == [writer EXCEPT ![w].pc = "write"]
    <3>1. x \in [Writers -> Writer]
      OBVIOUS
    <3>2. [x EXCEPT ![w].gen = g] \in [Writers -> Writer]
      <4>1. \A k \in Writer : [k EXCEPT !.gen = g] \in Writer
        OBVIOUS
      <4> HIDE DEF x, Writer
      <4> QED BY <3>1, <4>1
    <3>3. writer' = [x EXCEPT ![w].gen = g]
      BY DEF Stage
    <3>4. writer' \in [Writers -> Writer]
      BY <3>2, <3>3
    <3>5. writer[w].version \in Versions
      OBVIOUS
    <3> HIDE DEF x, Writer
    <3> QED BY <3>4, <3>5 DEF Stage
  <2>2. CASE RefuseCapacity(w)
    BY <2>2 DEF RefuseCapacity
  <2>3. CASE \E f \in Files : WriteFile(w, f)
    <3> PICK f \in Files : WriteFile(w, f)
      BY <2>3
    <3>1. writer[w].gen \in Generations
      BY DEF WriteFile, Apart
    <3>2. files[writer[w].gen] \cup {f} \in SUBSET Files
      BY <3>1
    <3> QED BY <3>1, <3>2 DEF WriteFile
  <2>4. CASE Commit(w)
    BY <2>4 DEF Commit, Apart
  <2> QED BY <1>4, <2>1, <2>2, <2>3, <2>4 DEF Publication
<1>5. ASSUME NEW r \in Readers, EnterGate(r) \/ Resolve(r) \/ LeaveGate(r) \/ CloseFiles(r)
      PROVE Typed'
  BY <1>5 DEF EnterGate, Resolve, LeaveGate, CloseFiles
<1>6. ASSUME NEW r \in Readers, NEW f \in Artifacts, Open(r, f) PROVE Typed'
  BY <1>6 DEF Open
<1>7. CASE UNCHANGED vars
  BY <1>7 DEF vars
<1> QED BY <1>1, <1>2, <1>3, <1>4, <1>5, <1>6, <1>7 DEF Next

LEMMA LockedStep == IInv /\ [Next]_vars => Locked'
<1> SUFFICES ASSUME IInv, [Next]_vars PROVE Locked'
  OBVIOUS
<1> USE DEF IInv, Typed, Locked, IdleWriter, IdleReader, Step
<1>1. CASE InputChanges
  BY <1>1 DEF InputChanges
<1>2. ASSUME NEW w \in Writers, Begin(w) \/ Gather(w) \/ Abort(w) PROVE Locked'
  <2>1. CASE Begin(w)
    BY <2>1 DEF Begin
  <2>2. CASE Gather(w)
    BY <2>2 DEF Gather
  <2>3. CASE Abort(w)
    BY <2>3 DEF Abort
  <2> QED BY <1>2, <2>1, <2>2, <2>3
<1>3. ASSUME NEW w \in Writers, Collection(w) PROVE Locked'
  <2>1. CASE SkipCollection(w)
    BY <2>1 DEF SkipCollection
  <2>2. CASE BeginCollection(w)
    BY <2>2 DEF BeginCollection
  <2>3. CASE EndCollection(w)
    BY <2>3 DEF EndCollection
  <2>4. CASE \E g \in Generations : RemoveDirectory(w, g)
    BY <2>4 DEF RemoveDirectory, Candidate
  <2>5. CASE \E g \in Generations : Defer(w, g)
    BY <2>5 DEF Defer, Candidate
  <2>6. CASE \E g \in Generations, f \in Files : RemoveFile(w, g, f)
    BY <2>6 DEF RemoveFile
  <2> QED BY <1>3, <2>1, <2>2, <2>3, <2>4, <2>5, <2>6 DEF Collection
<1>4. ASSUME NEW w \in Writers, Publication(w) PROVE Locked'
  <2>1. CASE \E g \in Generations : Stage(w, g)
    BY <2>1 DEF Stage
  <2>2. CASE RefuseCapacity(w)
    BY <2>2 DEF RefuseCapacity
  <2>3. CASE \E f \in Files : WriteFile(w, f)
    BY <2>3 DEF WriteFile
  <2>4. CASE Commit(w)
    BY <2>4 DEF Commit
  <2> QED BY <1>4, <2>1, <2>2, <2>3, <2>4 DEF Publication
<1>5. ASSUME NEW r \in Readers, EnterGate(r) \/ Resolve(r) \/ LeaveGate(r) \/ CloseFiles(r)
      PROVE Locked'
  <2>1. CASE EnterGate(r)
    BY <2>1 DEF EnterGate
  <2>2. CASE Resolve(r)
    BY <2>2 DEF Resolve
  <2>3. CASE LeaveGate(r)
    BY <2>3 DEF LeaveGate
  <2>4. CASE CloseFiles(r)
    BY <2>4 DEF CloseFiles
  <2> QED BY <1>5, <2>1, <2>2, <2>3, <2>4
<1>6. ASSUME NEW r \in Readers, NEW f \in Artifacts, Open(r, f) PROVE Locked'
  BY <1>6 DEF Open
<1>7. CASE UNCHANGED vars
  BY <1>7 DEF vars
<1> QED BY <1>1, <1>2, <1>3, <1>4, <1>5, <1>6, <1>7 DEF Next

LEMMA ApartStep == IInv /\ [Next]_vars => Apart'
<1> SUFFICES ASSUME IInv, [Next]_vars PROVE Apart'
  OBVIOUS
<1> USE DEF IInv, Step, IdleWriter, IdleReader, NoPointer, Typed, Apart, Writer
<1>1. CASE InputChanges
  BY <1>1 DEF InputChanges
<1>2. ASSUME NEW w \in Writers, Begin(w) \/ Gather(w) \/ Abort(w) PROVE Apart'
  <2>1. CASE Begin(w)
    BY <2>1 DEF Begin, Locked
  <2>2. CASE Gather(w)
    BY <2>2 DEF Gather, Locked
  <2>3. CASE Abort(w)
    BY <2>3 DEF Abort
  <2> QED BY <1>2, <2>1, <2>2, <2>3
<1>3. ASSUME NEW w \in Writers, Collection(w) PROVE Apart'
  <2>1. CASE SkipCollection(w)
    BY <2>1 DEF SkipCollection
  <2>2. CASE BeginCollection(w)
    BY <2>2 DEF BeginCollection, Retained
  <2>3. CASE EndCollection(w)
    BY <2>3 DEF EndCollection
  <2>4. CASE \E g \in Generations : RemoveDirectory(w, g)
    BY <2>4 DEF RemoveDirectory, Candidate, Locked
  <2>5. CASE \E g \in Generations : Defer(w, g)
    BY <2>5 DEF Defer, Candidate
  <2>6. CASE \E g \in Generations, f \in Files : RemoveFile(w, g, f)
    BY <2>6 DEF RemoveFile, Candidate, Locked
  <2> QED BY <1>3, <2>1, <2>2, <2>3, <2>4, <2>5, <2>6 DEF Collection
<1>4. ASSUME NEW w \in Writers, Publication(w) PROVE Apart'
  <2>1. CASE \E g \in Generations : Stage(w, g)
    BY <2>1 DEF Stage, Locked, Fresh
  <2>2. CASE RefuseCapacity(w)
    BY <2>2 DEF RefuseCapacity
  <2>3. CASE \E f \in Files : WriteFile(w, f)
    BY <2>3 DEF WriteFile
  <2>4. CASE Commit(w)
    BY <2>4 DEF Commit, Locked
  <2> QED BY <1>4, <2>1, <2>2, <2>3, <2>4 DEF Publication
<1>5. ASSUME NEW r \in Readers, EnterGate(r) \/ Resolve(r) \/ LeaveGate(r) \/ CloseFiles(r)
      PROVE Apart'
  <2>1. CASE EnterGate(r)
    BY <2>1 DEF EnterGate
  <2>2. CASE Resolve(r)
    BY <2>2 DEF Resolve
  <2>3. CASE LeaveGate(r)
    BY <2>3 DEF LeaveGate
  <2>4. CASE CloseFiles(r)
    BY <2>4 DEF CloseFiles
  <2> QED BY <1>5, <2>1, <2>2, <2>3, <2>4
<1>6. ASSUME NEW r \in Readers, NEW f \in Artifacts, Open(r, f) PROVE Apart'
  BY <1>6 DEF Open
<1>7. CASE UNCHANGED vars
  BY <1>7 DEF vars
<1> QED BY <1>1, <1>2, <1>3, <1>4, <1>5, <1>6, <1>7 DEF Next

LEMMA CurrentStep == IInv /\ [Next]_vars => Current'
<1> SUFFICES ASSUME IInv, [Next]_vars PROVE Current'
  OBVIOUS
<1> USE DEF IInv, Step, IdleWriter, IdleReader, NoPointer, Typed, Current, Versions
<1>1. CASE InputChanges
  BY <1>1 DEF InputChanges
<1>2. ASSUME NEW w \in Writers, Begin(w) \/ Gather(w) \/ Abort(w) PROVE Current'
  <2>1. CASE Begin(w)
    BY <2>1 DEF Begin
  <2>2. CASE Gather(w)
    BY <2>2 DEF Gather
  <2>3. CASE Abort(w)
    BY <2>3 DEF Abort
  <2> QED BY <1>2, <2>1, <2>2, <2>3
<1>3. ASSUME NEW w \in Writers, Collection(w) PROVE Current'
  <2>1. CASE SkipCollection(w)
    BY <2>1 DEF SkipCollection
  <2>2. CASE BeginCollection(w)
    BY <2>2 DEF BeginCollection
  <2>3. CASE EndCollection(w)
    BY <2>3 DEF EndCollection
  <2>4. CASE \E g \in Generations : RemoveDirectory(w, g)
    BY <2>4 DEF RemoveDirectory, Candidate
  <2>5. CASE \E g \in Generations : Defer(w, g)
    BY <2>5 DEF Defer, Candidate
  <2>6. CASE \E g \in Generations, f \in Files : RemoveFile(w, g, f)
    BY <2>6 DEF RemoveFile, Candidate
  <2> QED BY <1>3, <2>1, <2>2, <2>3, <2>4, <2>5, <2>6 DEF Collection
<1>4. ASSUME NEW w \in Writers, Publication(w) PROVE Current'
  <2>1. CASE \E g \in Generations : Stage(w, g)
    BY <2>1 DEF Stage
  <2>2. CASE RefuseCapacity(w)
    BY <2>2 DEF RefuseCapacity
  <2>3. CASE \E f \in Files : WriteFile(w, f)
    BY <2>3 DEF WriteFile
  <2>4. CASE Commit(w)
    BY <2>4 DEF Commit, Locked, Writer
  <2> QED BY <1>4, <2>1, <2>2, <2>3, <2>4 DEF Publication
<1>5. ASSUME NEW r \in Readers, EnterGate(r) \/ Resolve(r) \/ LeaveGate(r) \/ CloseFiles(r)
      PROVE Current'
  <2>1. CASE EnterGate(r)
    BY <2>1 DEF EnterGate
  <2>2. CASE Resolve(r)
    BY <2>2 DEF Resolve
  <2>3. CASE LeaveGate(r)
    BY <2>3 DEF LeaveGate
  <2>4. CASE CloseFiles(r)
    BY <2>4 DEF CloseFiles
  <2> QED BY <1>5, <2>1, <2>2, <2>3, <2>4
<1>6. ASSUME NEW r \in Readers, NEW f \in Artifacts, Open(r, f) PROVE Current'
  BY <1>6 DEF Open
<1>7. CASE UNCHANGED vars
  BY <1>7 DEF vars
<1> QED BY <1>1, <1>2, <1>3, <1>4, <1>5, <1>6, <1>7 DEF Next

LEMMA PublishedIsCompleteStep == IInv /\ [Next]_vars => PublishedIsComplete'
<1> SUFFICES ASSUME IInv, [Next]_vars PROVE PublishedIsComplete'
  OBVIOUS
<1> USE DEF IInv, Step, IdleWriter, IdleReader, NoPointer, Typed, PublishedIsComplete, Complete, Files
<1>1. CASE InputChanges
  BY <1>1 DEF InputChanges
<1>2. ASSUME NEW w \in Writers, Begin(w) \/ Gather(w) \/ Abort(w) PROVE PublishedIsComplete'
  <2>1. CASE Begin(w)
    BY <2>1 DEF Begin
  <2>2. CASE Gather(w)
    BY <2>2 DEF Gather
  <2>3. CASE Abort(w)
    BY <2>3 DEF Abort
  <2> QED BY <1>2, <2>1, <2>2, <2>3
<1>3. ASSUME NEW w \in Writers, Collection(w) PROVE PublishedIsComplete'
  <2>1. CASE SkipCollection(w)
    BY <2>1 DEF SkipCollection
  <2>2. CASE BeginCollection(w)
    BY <2>2 DEF BeginCollection
  <2>3. CASE EndCollection(w)
    BY <2>3 DEF EndCollection
  <2>4. CASE \E g \in Generations : RemoveDirectory(w, g)
    BY <2>4 DEF RemoveDirectory, Candidate, Apart
  <2>5. CASE \E g \in Generations : Defer(w, g)
    BY <2>5 DEF Defer, Candidate
  <2>6. CASE \E g \in Generations, f \in Files : RemoveFile(w, g, f)
    BY <2>6 DEF RemoveFile, Candidate, Apart
  <2> QED BY <1>3, <2>1, <2>2, <2>3, <2>4, <2>5, <2>6 DEF Collection
<1>4. ASSUME NEW w \in Writers, Publication(w) PROVE PublishedIsComplete'
  <2>1. CASE \E g \in Generations : Stage(w, g)
    BY <2>1 DEF Stage, Fresh
  <2>2. CASE RefuseCapacity(w)
    BY <2>2 DEF RefuseCapacity
  <2>3. CASE \E f \in Files : WriteFile(w, f)
    BY <2>3 DEF WriteFile, Apart
  <2>4. CASE Commit(w)
    BY <2>4 DEF Commit, Apart
  <2> QED BY <1>4, <2>1, <2>2, <2>3, <2>4 DEF Publication
<1>5. ASSUME NEW r \in Readers, EnterGate(r) \/ Resolve(r) \/ LeaveGate(r) \/ CloseFiles(r)
      PROVE PublishedIsComplete'
  <2>1. CASE EnterGate(r)
    BY <2>1 DEF EnterGate
  <2>2. CASE Resolve(r)
    BY <2>2 DEF Resolve
  <2>3. CASE LeaveGate(r)
    BY <2>3 DEF LeaveGate
  <2>4. CASE CloseFiles(r)
    BY <2>4 DEF CloseFiles
  <2> QED BY <1>5, <2>1, <2>2, <2>3, <2>4
<1>6. ASSUME NEW r \in Readers, NEW f \in Artifacts, Open(r, f) PROVE PublishedIsComplete'
  BY <1>6 DEF Open
<1>7. CASE UNCHANGED vars
  BY <1>7 DEF vars
<1> QED BY <1>1, <1>2, <1>3, <1>4, <1>5, <1>6, <1>7 DEF Next

LEMMA ServedStep == IInv /\ [Next]_vars => Served'
<1> SUFFICES ASSUME IInv, [Next]_vars PROVE Served'
  OBVIOUS
<1> USE DEF IInv, Step, IdleWriter, IdleReader, NoPointer, Typed, Served, Complete, Files
<1>1. CASE InputChanges
  BY <1>1 DEF InputChanges
<1>2. ASSUME NEW w \in Writers, Begin(w) \/ Gather(w) \/ Abort(w) PROVE Served'
  <2>1. CASE Begin(w)
    BY <2>1 DEF Begin
  <2>2. CASE Gather(w)
    BY <2>2 DEF Gather
  <2>3. CASE Abort(w)
    BY <2>3 DEF Abort
  <2> QED BY <1>2, <2>1, <2>2, <2>3
<1>3. ASSUME NEW w \in Writers, Collection(w) PROVE Served'
  <2>1. CASE SkipCollection(w)
    BY <2>1 DEF SkipCollection
  <2>2. CASE BeginCollection(w)
    BY <2>2 DEF BeginCollection
  <2>3. CASE EndCollection(w)
    BY <2>3 DEF EndCollection
  <2>4. CASE \E g \in Generations : RemoveDirectory(w, g)
    BY <2>4 DEF RemoveDirectory, Candidate, Locked
  <2>5. CASE \E g \in Generations : Defer(w, g)
    BY <2>5 DEF Defer, Candidate
  <2>6. CASE \E g \in Generations, f \in Files : RemoveFile(w, g, f)
    BY <2>6 DEF RemoveFile, Candidate, Locked
  <2> QED BY <1>3, <2>1, <2>2, <2>3, <2>4, <2>5, <2>6 DEF Collection
<1>4. ASSUME NEW w \in Writers, Publication(w) PROVE Served'
  <2>1. CASE \E g \in Generations : Stage(w, g)
    BY <2>1 DEF Stage, Fresh, Reads
  <2>2. CASE RefuseCapacity(w)
    BY <2>2 DEF RefuseCapacity
  <2>3. CASE \E f \in Files : WriteFile(w, f)
    <3> PICK f \in Files : WriteFile(w, f)
      BY <2>3
    <3>1. \A g \in Generations : files[g] = Files => files'[g] = Files
      BY DEF WriteFile
    <3>2. reader' = reader /\ stored' = stored /\ pointer' = pointer
      BY DEF WriteFile
    <3> HIDE DEF Files, NoPointer
    <3> QED BY <3>1, <3>2
  <2>4. CASE Commit(w)
    <3>1. pointer' # NoPointer
      BY <2>4 DEF Commit, Apart
    <3>2. reader' = reader /\ stored' = stored /\ files' = files
      BY <2>4 DEF Commit
    <3> HIDE DEF Files, NoPointer
    <3> QED BY <3>1, <3>2
  <2> QED BY <1>4, <2>1, <2>2, <2>3, <2>4 DEF Publication
<1>5. ASSUME NEW r \in Readers, EnterGate(r) \/ Resolve(r) \/ LeaveGate(r) \/ CloseFiles(r)
      PROVE Served'
  <2>1. CASE EnterGate(r)
    <3>1. /\ pointer # NoPointer /\ pointer' = pointer
          /\ stored' = stored /\ files' = files
          /\ reader' = [reader EXCEPT ![r].pc = "gate"]
      BY <2>1 DEF EnterGate
    <3> HIDE DEF NoPointer, Files
    <3> QED BY <3>1
  <2>2. CASE Resolve(r)
    <3>1. /\ pointer # NoPointer /\ pointer' = pointer
          /\ stored' = stored /\ files' = files
      BY <2>2 DEF Resolve
    <3>2. Complete(pointer.gen) /\ Has(pointer.gen, "manifest")
      BY <3>1 DEF PublishedIsComplete, Has
    <3>3. pointer.version \in 1 .. MaxInput
      BY <3>1 DEF Current, Versions
    <3>4. /\ reader'[r].pc = "open" /\ reader'[r].gen = pointer.gen
          /\ reader'[r].version = pointer.version
          /\ \A q \in Readers \ {r} : reader'[q] = reader[q]
      BY <2>2, <3>2 DEF Resolve, Reader
    <3> HIDE DEF NoPointer, Files
    <3> QED BY <3>1, <3>2, <3>3, <3>4
  <2>3. CASE LeaveGate(r)
    BY <2>3 DEF LeaveGate
  <2>4. CASE CloseFiles(r)
    BY <2>4 DEF CloseFiles
  <2> QED BY <1>5, <2>1, <2>2, <2>3, <2>4
<1>6. ASSUME NEW r \in Readers, NEW f \in Artifacts, Open(r, f) PROVE Served'
  BY <1>6 DEF Open, Has
<1>7. CASE UNCHANGED vars
  BY <1>7 DEF vars
<1> QED BY <1>1, <1>2, <1>3, <1>4, <1>5, <1>6, <1>7 DEF Next

LEMMA AlwaysIInv == Spec => []IInv
<1>1. IInv /\ [Next]_vars => IInv'
  BY TypedStep, LockedStep, ApartStep, CurrentStep, PublishedIsCompleteStep, ServedStep DEF IInv
<1> QED BY InitIInv, <1>1, PTL DEF Spec

-----------------------------------------------------------------------------
(* The published generation is there, with all its files.                  *)
THEOREM AlwaysComplete == Spec => []PublishedIsComplete
  BY AlwaysIInv, PTL DEF IInv

-----------------------------------------------------------------------------
(* The store implements the register.                                      *)

LEMMA RegisterInit == Init => Register!Init
  BY DEF Init, Register!Init, NoPointer, IdleReader, View

(* Only Commit changes what is published, and never to older inputs.       *)
LEMMA PublicationSteps ==
  ASSUME IInv, NEW w \in Writers, Commit(w)
  PROVE  Register!Publish
<1>1. pointer'.version = writer[w].version
  BY DEF Commit
<1>2. writer[w].version \in Nat /\ writer[w].version >= pointer.version
  BY DEF Commit, IInv, Current
<1> QED BY <1>1, <1>2 DEF Commit, Register!Publish, View

(* What a reader does is to look, to leave, or nothing.                    *)
LEMMA ReadingSteps ==
  ASSUME IInv, IInv', NEW r \in Readers,
         EnterGate(r) \/ Resolve(r) \/ LeaveGate(r) \/ CloseFiles(r)
           \/ \E f \in Artifacts : Open(r, f)
  PROVE  Register!Next \/ (pointer' = pointer /\ View' = View)
<1> USE DEF IInv, Typed
<1>1. CASE EnterGate(r)
  BY <1>1 DEF EnterGate, View
<1>2. CASE Resolve(r)
  <2>1. reader'[r].pc = "open" /\ reader'[r].version = pointer.version
    BY <1>2 DEF Resolve, Served, Reader
  <2>2. \A q \in Readers \ {r} : reader'[q] = reader[q]
    BY <1>2 DEF Resolve
  <2>3. View[r] = None
    BY <1>2 DEF Resolve, View
  <2>4. View' = [View EXCEPT ![r] = pointer.version]
    BY <2>1, <2>2 DEF View
  <2>5. pointer.version # 0 /\ pointer' = pointer
    BY <1>2 DEF Resolve, Served, Current
  <2> QED BY <2>3, <2>4, <2>5 DEF Register!Next, Register!Look
<1>3. CASE LeaveGate(r)
  BY <1>3 DEF LeaveGate, View
<1>4. CASE CloseFiles(r)
  <2>1. View' = [View EXCEPT ![r] = None]
    BY <1>4 DEF CloseFiles, View, IdleReader
  <2> QED BY <1>4, <2>1 DEF CloseFiles, Register!Next, Register!Leave
<1>5. CASE \E f \in Artifacts : Open(r, f)
  BY <1>5 DEF Open, View, Served
<1> QED BY <1>1, <1>2, <1>3, <1>4, <1>5

LEMMA RegisterStep ==
  IInv /\ IInv' /\ [Next]_vars => [Register!Next]_<<pointer.version, View>>
<1> SUFFICES ASSUME IInv, IInv', [Next]_vars
             PROVE  Register!Next \/ (pointer' = pointer /\ View' = View)
  OBVIOUS
<1>1. CASE InputChanges \/ UNCHANGED vars
  BY <1>1 DEF InputChanges, vars, View
<1>2. ASSUME NEW w \in Writers, Begin(w) \/ Gather(w) \/ Collection(w) \/ Publication(w) \/ Abort(w)
      PROVE  Register!Next \/ (pointer' = pointer /\ View' = View)
  <2>1. CASE Commit(w)
    BY <2>1, PublicationSteps DEF Register!Next
  <2>2. CASE Begin(w) \/ Gather(w) \/ Collection(w) \/ Abort(w)
    BY <2>2 DEF Begin, Gather, Abort, Collection, SkipCollection, BeginCollection, EndCollection,
                RemoveDirectory, Defer, RemoveFile, View
  <2>3. CASE Publication(w) /\ ~Commit(w)
    BY <2>3 DEF Publication, Stage, RefuseCapacity, WriteFile, View
  <2> QED BY <1>2, <2>1, <2>2, <2>3
<1>3. ASSUME NEW r \in Readers,
             EnterGate(r) \/ Resolve(r) \/ LeaveGate(r) \/ CloseFiles(r)
               \/ \E f \in Artifacts : Open(r, f)
      PROVE  Register!Next \/ (pointer' = pointer /\ View' = View)
  BY <1>3, ReadingSteps
<1> QED BY <1>1, <1>2, <1>3 DEF Next

(* What readers are served is what was published when they looked, and     *)
(* what is published never goes back.                                      *)
THEOREM Implements == Spec => ImplementsRegister
  BY RegisterInit, RegisterStep, AlwaysIInv, PTL DEF Spec, ImplementsRegister, Register!Spec

-----------------------------------------------------------------------------
(* A generation is refused as the last resort.                             *)

(* The readers that may yet keep a candidate of the collection from being  *)
(* removed.  None is added while the gate is held.                         *)
Keeping(w) == {r \in Readers : /\ windows
                               /\ Reads(r, reader[r].gen) /\ reader[r].gen \in writer[w].todo
                               /\ reader[r].opened # {}}

RoomOf(w) ==
  /\ writer[w].pc = "remove" =>
       Cardinality(stored \ writer[w].todo) + Cardinality(Keeping(w)) <= KeptAtMost
  /\ writer[w].pc \in {"check", "refused"} =>
       pointer = NoPointer \/ Cardinality(stored) <= KeptAtMost

Roomy ==
  /\ IsFiniteSet(stored)
  /\ \A w \in Writers : RoomOf(w)

LEMMA NewestIsSmall ==
  ASSUME NEW n \in Nat
  PROVE  IsFiniteSet(Newest(n)) /\ Cardinality(Newest(n)) <= n
<1> DEFINE I == {j \in 0 .. n - 1 : j < Len(order)}
           f == [i \in I |-> order[Len(order) - i]]
<1>1. f \in Surjection(I, Newest(n))
  BY DEF Surjection, Newest
<1>2. IsFiniteSet(0 .. n - 1) /\ Cardinality(0 .. n - 1) = n
  BY FS_Interval
<1>3. I \in SUBSET (0 .. n - 1)
  OBVIOUS
<1>4. IsFiniteSet(I) /\ Cardinality(I) <= n
  <2> HIDE DEF I
  <2>1. IsFiniteSet(I) /\ Cardinality(I) <= Cardinality(0 .. n - 1)
    BY <1>2, <1>3, FS_Subset
  <2> QED BY <1>2, <2>1
<1>5. IsFiniteSet(Newest(n)) /\ Cardinality(Newest(n)) <= Cardinality(I)
  <2> HIDE DEF I, f
  <2> QED BY <1>1, <1>4, FS_Surjection
<1>6. Cardinality(I) \in Nat /\ Cardinality(Newest(n)) \in Nat
  BY <1>4, <1>5, FS_CardinalityType
<1> QED BY <1>4, <1>5, <1>6

LEMMA RetainedIsSmall == IsFiniteSet(Retained) /\ Cardinality(Retained) <= KeepRecent + 1
<1> USE RetentionAssumption
<1>1. IsFiniteSet(Newest(KeepRecent)) /\ Cardinality(Newest(KeepRecent)) <= KeepRecent
  BY NewestIsSmall
<1>2. Cardinality(Newest(KeepRecent)) \in Nat
  BY <1>1, FS_CardinalityType
<1>3. IsFiniteSet(Retained)
      /\ Cardinality(Retained) <= Cardinality(Newest(KeepRecent)) + 1
  <2>1. /\ IsFiniteSet(Newest(KeepRecent) \cup {pointer.gen})
        /\ Cardinality(Newest(KeepRecent) \cup {pointer.gen})
             = IF pointer.gen \in Newest(KeepRecent) THEN Cardinality(Newest(KeepRecent))
               ELSE Cardinality(Newest(KeepRecent)) + 1
    BY <1>1, FS_AddElement
  <2> QED BY <1>2, <2>1 DEF Retained
<1>4. Cardinality(Retained) \in Nat
  BY <1>3, FS_CardinalityType
<1> QED BY <1>1, <1>2, <1>3, <1>4

(* Fewer directories and fewer readers, no less room.                      *)
LEMMA LessIsRoom ==
  ASSUME NEW S, NEW T \in SUBSET S, NEW U, NEW V \in SUBSET U,
         IsFiniteSet(S), IsFiniteSet(U), NEW n \in Nat, Cardinality(S) + Cardinality(U) <= n
  PROVE  Cardinality(T) + Cardinality(V) <= n
<1>1. IsFiniteSet(T) /\ Cardinality(T) <= Cardinality(S)
  BY FS_Subset
<1>2. IsFiniteSet(V) /\ Cardinality(V) <= Cardinality(U)
  BY FS_Subset
<1>3. /\ Cardinality(S) \in Nat /\ Cardinality(T) \in Nat
      /\ Cardinality(U) \in Nat /\ Cardinality(V) \in Nat
  BY <1>1, <1>2, FS_CardinalityType
<1> QED BY <1>1, <1>2, <1>3

LEMMA KeptIsNumber ==
  ASSUME IsFiniteSet(Readers)
  PROVE  /\ IsFiniteSet({r \in Readers : windows})
         /\ Cardinality({r \in Readers : windows}) \in Nat
         /\ Cardinality({r \in Readers : windows}) <= Cardinality(Readers)
         /\ KeptAtMost \in Nat
<1>1. {r \in Readers : windows} \in SUBSET Readers
  OBVIOUS
<1>2. /\ IsFiniteSet({r \in Readers : windows})
      /\ Cardinality({r \in Readers : windows}) <= Cardinality(Readers)
  BY <1>1, FS_Subset
<1>3. Cardinality({r \in Readers : windows}) \in Nat
  BY <1>2, FS_CardinalityType
<1> QED BY <1>2, <1>3, RetentionAssumption DEF KeptAtMost

LEMMA KeepingIsFinite ==
  ASSUME IsFiniteSet(Readers), NEW w \in Writers
  PROVE  IsFiniteSet(Keeping(w))
<1>1. Keeping(w) \in SUBSET Readers
  BY DEF Keeping
<1> QED BY <1>1, FS_Subset

(* What the system does with open files does not change.                   *)
LEMMA KeptStays == [Next]_vars => windows' = windows /\ KeptAtMost' = KeptAtMost
<1>1. [Next]_vars => windows' = windows
  BY DEF Next, vars, InputChanges, Begin, Gather, Abort, Collection, SkipCollection,
         BeginCollection, EndCollection, RemoveDirectory, Defer, RemoveFile, Publication, Stage,
         RefuseCapacity, WriteFile, Commit, EnterGate, Resolve, LeaveGate, CloseFiles, Open
<1> QED BY <1>1 DEF KeptAtMost

(* The collection starts from what it keeps, and a directory it has to     *)
(* leave takes the place of a reader of it.                                *)
LEMMA CollectionLeavesRoom ==
  ASSUME IInv, Roomy, IsFiniteSet(Readers), NEW w \in Writers, Collection(w)
  PROVE  IsFiniteSet(stored') /\ RoomOf(w)'
<1> USE DEF IInv, Typed, Step, RoomOf
<1>0. /\ IsFiniteSet(stored) /\ RoomOf(w) /\ KeptAtMost \in Nat
      /\ IsFiniteSet(stored \ writer[w].todo) /\ IsFiniteSet(Keeping(w))
      /\ windows' = windows /\ KeptAtMost' = KeptAtMost
  BY KeptIsNumber, KeepingIsFinite, KeptStays, FS_Subset DEF Roomy, Next
<1>1. CASE SkipCollection(w)
  BY <1>0, <1>1 DEF SkipCollection
<1>2. CASE BeginCollection(w)
  <2>1. /\ writer'[w].pc = "remove" /\ writer'[w].todo = stored \ Retained
        /\ stored' = stored /\ reader' = reader /\ windows' = windows
    BY <1>2 DEF BeginCollection, Writer
  <2>2. stored' \ writer'[w].todo \in SUBSET Retained
    BY <2>1
  <2>3. Keeping(w)' \in SUBSET {r \in Readers : windows}
    BY <2>1 DEF Keeping
  <2>4. IsFiniteSet(Retained) /\ IsFiniteSet({r \in Readers : windows})
        /\ Cardinality(Retained) + Cardinality({r \in Readers : windows}) <= KeptAtMost
    <3>1. Cardinality(Retained) \in Nat
      BY RetainedIsSmall, FS_CardinalityType
    <3> QED BY <3>1, RetainedIsSmall, RetentionAssumption, KeptIsNumber DEF KeptAtMost
  <2>5. Cardinality(stored' \ writer'[w].todo) + Cardinality(Keeping(w)') <= KeptAtMost
    BY <1>0, <2>2, <2>3, <2>4, LessIsRoom
  <2> QED BY <1>0, <2>1, <2>5
<1>3. CASE EndCollection(w)
  <2>1. /\ stored' = stored /\ stored \ writer[w].todo = stored
        /\ writer[w].pc = "remove" /\ writer'[w].pc = "check"
    BY <1>3 DEF EndCollection
  <2>2. Cardinality(stored) \in Nat /\ Cardinality(Keeping(w)) \in Nat
    BY <1>0, FS_CardinalityType
  <2>3. Cardinality(stored \ writer[w].todo) + Cardinality(Keeping(w)) <= KeptAtMost
    BY <1>0, <2>1
  <2>4. Cardinality(stored \ writer[w].todo) = Cardinality(stored)
    BY <2>1
  <2>5. Cardinality(stored) <= KeptAtMost
    BY <1>0, <2>2, <2>3, <2>4
  <2> QED BY <1>0, <2>1, <2>5
<1>4. ASSUME NEW g \in Generations, RemoveDirectory(w, g)
      PROVE  IsFiniteSet(stored') /\ RoomOf(w)'
  <2>1. /\ writer[w].pc = "remove" /\ writer'[w].pc = "remove"
        /\ writer'[w].todo = writer[w].todo \ {g}
        /\ stored' = stored \ {g} /\ reader' = reader
    BY <1>4 DEF RemoveDirectory, Candidate
  <2>2. stored' \ writer'[w].todo \in SUBSET (stored \ writer[w].todo)
    BY <2>1
  <2>3. Keeping(w)' \in SUBSET Keeping(w)
    BY <1>0, <2>1 DEF Keeping, Reads
  <2>4. Cardinality(stored' \ writer'[w].todo) + Cardinality(Keeping(w)') <= KeptAtMost
    BY <1>0, <2>1, <2>2, <2>3, LessIsRoom
  <2>5. IsFiniteSet(stored')
    BY <1>0, <2>1, FS_RemoveElement
  <2> QED BY <1>0, <2>1, <2>4, <2>5
<1>5. ASSUME NEW g \in Generations, Defer(w, g)
      PROVE  IsFiniteSet(stored') /\ RoomOf(w)'
  <2>1. /\ writer[w].pc = "remove" /\ writer'[w].pc = "remove"
        /\ writer'[w].todo = writer[w].todo \ {g} /\ g \in writer[w].todo
        /\ stored' = stored /\ reader' = reader
    BY <1>5 DEF Defer, Candidate
  <2>2. PICK r \in Readers : windows /\ Reads(r, g) /\ reader[r].opened # {}
    BY <1>5 DEF Defer, IsOpen
  <2>3. r \in Keeping(w) /\ Keeping(w)' \in SUBSET (Keeping(w) \ {r})
    BY <1>0, <2>1, <2>2 DEF Keeping, Reads
  <2>4. stored' \ writer'[w].todo \in SUBSET ((stored \ writer[w].todo) \cup {g})
    BY <2>1
  <2> DEFINE S == stored \ writer[w].todo
             K == Keeping(w)
  <2>5. /\ IsFiniteSet(S \cup {g}) /\ IsFiniteSet(K \ {r})
        /\ Cardinality(S \cup {g}) <= Cardinality(S) + 1
        /\ Cardinality(K \ {r}) = Cardinality(K) - 1
        /\ Cardinality(S \cup {g}) \in Nat /\ Cardinality(K \ {r}) \in Nat
        /\ Cardinality(S) \in Nat /\ Cardinality(K) \in Nat
    <3>1. IsFiniteSet(S) /\ IsFiniteSet(K) /\ r \in K
      BY <1>0, <2>3
    <3> HIDE DEF S, K
    <3>2. Cardinality(S) \in Nat /\ Cardinality(K) \in Nat
      BY <3>1, FS_CardinalityType
    <3>3. /\ IsFiniteSet(S \cup {g})
          /\ Cardinality(S \cup {g}) = IF g \in S THEN Cardinality(S) ELSE Cardinality(S) + 1
      BY <3>1, FS_AddElement
    <3>4. IsFiniteSet(K \ {r}) /\ Cardinality(K \ {r}) = Cardinality(K) - 1
      BY <3>1, FS_RemoveElement
    <3>5. Cardinality(S \cup {g}) \in Nat /\ Cardinality(K \ {r}) \in Nat
      BY <3>3, <3>4, FS_CardinalityType
    <3> QED BY <3>2, <3>3, <3>4, <3>5
  <2>6. Cardinality(S) + Cardinality(K) <= KeptAtMost
    BY <1>0, <2>1
  <2>7. Cardinality(S \cup {g}) + Cardinality(K \ {r}) <= KeptAtMost
    <3> HIDE DEF S, K
    <3> QED BY <1>0, <2>5, <2>6
  <2>8. Cardinality(stored' \ writer'[w].todo) + Cardinality(Keeping(w)') <= KeptAtMost
    BY <1>0, <2>3, <2>4, <2>5, <2>7, LessIsRoom
  <2> QED BY <1>0, <2>1, <2>8
<1>6. ASSUME NEW g \in Generations, NEW f \in Files, RemoveFile(w, g, f)
      PROVE  IsFiniteSet(stored') /\ RoomOf(w)'
  BY <1>0, <1>6 DEF RemoveFile, Candidate, Keeping, Reads
<1> QED BY <1>1, <1>2, <1>3, <1>4, <1>5, <1>6 DEF Collection

(* Nothing is added between the collection and a refusal.                  *)
LEMMA PublicationKeepsRoom ==
  ASSUME IInv, Roomy, IsFiniteSet(Readers), NEW w \in Writers, Publication(w)
  PROVE  IsFiniteSet(stored') /\ RoomOf(w)'
<1> USE DEF IInv, Typed, Step, RoomOf
<1>0. IsFiniteSet(stored) /\ RoomOf(w) /\ KeptAtMost' = KeptAtMost
  BY KeptStays DEF Roomy, Next
<1>1. ASSUME NEW g \in Generations, Stage(w, g)
      PROVE  IsFiniteSet(stored') /\ RoomOf(w)'
  <2>1. stored' = stored \cup {g} /\ writer'[w].pc = "write"
    BY <1>1 DEF Stage, Writer
  <2>2. IsFiniteSet(stored \cup {g})
    BY <1>0, FS_AddElement
  <2> QED BY <2>1, <2>2
<1>2. CASE RefuseCapacity(w)
  BY <1>0, <1>2 DEF RefuseCapacity, Writer
<1>3. ASSUME NEW f \in Files, WriteFile(w, f)
      PROVE  IsFiniteSet(stored') /\ RoomOf(w)'
  BY <1>0, <1>3 DEF WriteFile
<1>4. CASE Commit(w)
  BY <1>0, <1>4 DEF Commit, IdleWriter
<1> QED BY <1>1, <1>2, <1>3, <1>4 DEF Publication

(* While a collection has the gate no reader can find a directory.         *)
LEMMA ReadersLeaveRoom ==
  ASSUME IInv, Roomy, IsFiniteSet(Readers), NEW r \in Readers,
         EnterGate(r) \/ Resolve(r) \/ LeaveGate(r) \/ CloseFiles(r)
           \/ \E f \in Artifacts : Open(r, f)
  PROVE  Roomy'
<1> USE DEF IInv, Typed
<1>1. /\ stored' = stored /\ writer' = writer /\ pointer' = pointer
      /\ windows' = windows /\ KeptAtMost' = KeptAtMost
  BY KeptStays DEF EnterGate, Resolve, LeaveGate, CloseFiles, Open, Next
<1>2. ASSUME NEW w \in Writers, writer[w].pc = "remove"
      PROVE  Cardinality(stored' \ writer'[w].todo) + Cardinality(Keeping(w)') <= KeptAtMost
  <2>1. catalog = w /\ w # r /\ w # None
    BY <1>2 DEF Locked
  <2>2. ~(reader[r].pc \in {"gate", "open"}) /\ ~EnterGate(r)
    BY <2>1 DEF Locked, EnterGate
  <2>3. CloseFiles(r)
    BY <2>2 DEF Resolve, LeaveGate, Open
  <2>4. Keeping(w)' \in SUBSET Keeping(w)
    BY <1>1, <2>3 DEF CloseFiles, IdleReader, Keeping, Reads
  <2>5. IsFiniteSet(stored \ writer[w].todo) /\ IsFiniteSet(Keeping(w))
    BY KeepingIsFinite, FS_Subset DEF Roomy
  <2>6. Cardinality(stored \ writer[w].todo) + Cardinality(Keeping(w)) <= KeptAtMost
    BY <1>2 DEF Roomy, RoomOf
  <2>7. stored' \ writer'[w].todo \in SUBSET (stored \ writer[w].todo)
    BY <1>1
  <2> QED BY <2>4, <2>5, <2>6, <2>7, LessIsRoom, KeptIsNumber
<1> QED BY <1>1, <1>2 DEF Roomy, RoomOf

LEMMA RoomyStep == IInv /\ IsFiniteSet(Readers) /\ Roomy /\ [Next]_vars => Roomy'
<1> SUFFICES ASSUME IInv, IsFiniteSet(Readers), Roomy, [Next]_vars PROVE Roomy'
  OBVIOUS
<1>0. windows' = windows /\ KeptAtMost' = KeptAtMost
  BY KeptStays
<1>1. CASE InputChanges \/ UNCHANGED vars
  BY <1>0, <1>1 DEF InputChanges, vars, Roomy, RoomOf, Keeping, Reads
<1>2. ASSUME NEW w \in Writers, Begin(w) \/ Gather(w) \/ Collection(w) \/ Publication(w) \/ Abort(w)
      PROVE  Roomy'
  <2>1. IsFiniteSet(stored') /\ RoomOf(w)'
    <3>1. CASE Begin(w) \/ Gather(w) \/ Abort(w)
      BY <1>0, <3>1 DEF Begin, Gather, Abort, Step, IdleWriter, Roomy, RoomOf, IInv, Typed, Writer
    <3> QED BY <1>2, <3>1, CollectionLeavesRoom, PublicationKeepsRoom
  <2>2. ASSUME NEW v \in Writers, v # w PROVE RoomOf(v)'
    <3>1. writer'[v] = writer[v]
      BY <1>2, <2>2 DEF Begin, Gather, Abort, Step, Collection, SkipCollection, BeginCollection,
         EndCollection, RemoveDirectory, Defer, RemoveFile, Publication, Stage, RefuseCapacity,
         WriteFile, Commit, IInv, Typed
    <3>2. writer[w].pc # "idle" \/ lock = None
      BY <1>2 DEF Begin, Gather, Abort, Collection, SkipCollection, BeginCollection, EndCollection,
         RemoveDirectory, Defer, RemoveFile, Candidate, Publication, Stage, RefuseCapacity,
         WriteFile, Commit
    <3>3. writer[v].pc = "idle"
      BY <2>2, <3>2 DEF IInv, Locked
    <3> QED BY <3>1, <3>3 DEF RoomOf
  <2> QED BY <2>1, <2>2 DEF Roomy
<1>3. ASSUME NEW r \in Readers,
             EnterGate(r) \/ Resolve(r) \/ LeaveGate(r) \/ CloseFiles(r)
               \/ \E f \in Artifacts : Open(r, f)
      PROVE  Roomy'
  BY <1>3, ReadersLeaveRoom
<1> QED BY <1>1, <1>2, <1>3 DEF Next

LEMMA AlwaysRoomy == ASSUME IsFiniteSet(Readers) PROVE Spec => []Roomy
<1>1. Init => Roomy
  BY FS_EmptySet DEF Init, Roomy, RoomOf, IdleWriter
<1>2. IInv /\ Roomy /\ [Next]_vars => Roomy'
  BY RoomyStep
<1> QED BY <1>1, <1>2, AlwaysIInv, PTL DEF Spec

(* A generation is refused only when the collection before it has left no  *)
(* more than the newest few directories, the published one and what the    *)
(* readers of the moment have open: what writers that died left behind,    *)
(* and what an earlier collection had to leave, is gone by then.           *)
THEOREM RefusesAsLastResort == ASSUME IsFiniteSet(Readers) PROVE Spec => []RefusedAsLastResort
<1>1. Roomy => RefusedAsLastResort
  BY DEF Roomy, RoomOf, RefusedAsLastResort
<1> QED BY <1>1, AlwaysRoomy, PTL

-----------------------------------------------------------------------------
(* Where what is kept fits, nothing is refused.                            *)

MaxKept == KeepRecent + 1 + Cardinality(Readers)

(* The kept directories, none of their files larger than L, leave both the *)
(* directory and the blocks that a generation wants.                       *)
Fits(L) ==
  /\ IsFiniteSet(Readers) /\ IsFiniteSet(Artifacts)
  /\ MaxKept < MaxGenerations
  /\ \A v \in Versions, f \in Files : Size[v][f] <= L
  /\ \A v \in Versions : MaxKept * (Cardinality(Files) * L) + Reserve(v) <= MaxBytes

NeverRefused == pointer # NoPointer => \A w \in Writers : writer[w].pc # "refused"

LEMMA ReserveIsNumber ==
  ASSUME IsFiniteSet(Artifacts), NEW v \in Versions
  PROVE  Reserve(v) \in Nat
<1>1. IsFiniteSet(1 .. MaxBytes)
  BY FS_Interval
<1>2. IsFiniteSet(Blocks(Artifacts, v))
  <2>1. IsFiniteSet(Artifacts \X (1 .. MaxBytes))
    BY <1>1, FS_Product
  <2>2. Blocks(Artifacts, v) \in SUBSET (Artifacts \X (1 .. MaxBytes))
    BY DEF Blocks
  <2> QED BY <2>1, <2>2, FS_Subset
<1>3. IsFiniteSet({i \in 1 .. MaxBytes : \E f \in Artifacts : i <= Size[v][f]})
  <2>1. {i \in 1 .. MaxBytes : \E f \in Artifacts : i <= Size[v][f]} \in SUBSET (1 .. MaxBytes)
    OBVIOUS
  <2> QED BY <1>1, <2>1, FS_Subset
<1> QED BY <1>2, <1>3, FS_CardinalityType DEF Reserve

(* Of n things, m for each is no less than of fewer.                       *)
LEMMA ProductGrows ==
  ASSUME NEW n \in Nat, NEW k \in 0 .. n, NEW m \in Nat
  PROVE  k * m <= n * m
<1>1. \A j \in Nat : IsFiniteSet(1 .. j) /\ Cardinality(1 .. j) = j
  BY FS_Interval
<1>2. \A j \in Nat : /\ IsFiniteSet((1 .. j) \X (1 .. m))
                     /\ Cardinality((1 .. j) \X (1 .. m)) = j * m
  <2> SUFFICES ASSUME NEW j \in Nat
               PROVE  /\ IsFiniteSet((1 .. j) \X (1 .. m))
                      /\ Cardinality((1 .. j) \X (1 .. m)) = j * m
    OBVIOUS
  <2>1. /\ IsFiniteSet(1 .. j) /\ Cardinality(1 .. j) = j
        /\ IsFiniteSet(1 .. m) /\ Cardinality(1 .. m) = m
    BY <1>1
  <2>2. /\ IsFiniteSet((1 .. j) \X (1 .. m))
        /\ Cardinality((1 .. j) \X (1 .. m)) = Cardinality(1 .. j) * Cardinality(1 .. m)
    BY <2>1, FS_Product
  <2> QED BY <2>1, <2>2
<1>3. (1 .. k) \X (1 .. m) \in SUBSET ((1 .. n) \X (1 .. m))
  OBVIOUS
<1>4. Cardinality((1 .. k) \X (1 .. m)) <= Cardinality((1 .. n) \X (1 .. m))
  BY <1>2, <1>3, FS_Subset
<1> QED BY <1>2, <1>4

LEMMA FilesAreFinite ==
  ASSUME IsFiniteSet(Artifacts)
  PROVE  IsFiniteSet(Files) /\ Cardinality(Files) \in Nat
<1>1. IsFiniteSet(Files)
  BY FS_AddElement DEF Files
<1> QED BY <1>1, FS_CardinalityType

(* No file takes more than L blocks.                                       *)
LEMMA UsedIsBounded ==
  ASSUME Typed, NEW L \in Nat, Fits(L), IsFiniteSet(stored)
  PROVE  Used \in Nat /\ Used <= Cardinality(stored) * (Cardinality(Files) * L)
<1> DEFINE All == stored \X (Files \X (1 .. L))
           U == {x \in stored \X (Files \X (1 .. MaxBytes)) :
                   x[2] \in Blocks(files[x[1]], made[x[1]])}
<1>1. IsFiniteSet(Files) /\ IsFiniteSet(1 .. L) /\ Cardinality(1 .. L) = L
  <2>1. IsFiniteSet(Files)
    BY FilesAreFinite DEF Fits
  <2>2. IsFiniteSet(1 .. L) /\ Cardinality(1 .. L) = L
    <3>1. 1 \in Int /\ L \in Int
      OBVIOUS
    <3>2. /\ IsFiniteSet(1 .. L)
          /\ Cardinality(1 .. L) = IF 1 > L THEN 0 ELSE L - 1 + 1
      BY ONLY <3>1, FS_Interval
    <3> QED BY ONLY <3>2, L \in Nat
  <2> QED BY <2>1, <2>2
<1>2. /\ IsFiniteSet(Files \X (1 .. L))
      /\ Cardinality(Files \X (1 .. L)) = Cardinality(Files) * L
  BY <1>1, FS_Product
<1>3. IsFiniteSet(All) /\ Cardinality(All) = Cardinality(stored) * (Cardinality(Files) * L)
  BY <1>2, FS_Product
<1>4. U \in SUBSET All
  <2> SUFFICES ASSUME NEW g \in stored, NEW f \in Files, NEW i \in 1 .. MaxBytes,
                      <<f, i>> \in Blocks(files[g], made[g])
               PROVE  i \in 1 .. L
    OBVIOUS
  <2>1. made[g] \in Versions /\ i <= Size[made[g]][f]
    BY DEF Typed, Blocks
  <2>2. Size[made[g]][f] <= L /\ Size[made[g]][f] \in Nat
    BY <2>1, SizeAssumption DEF Fits, Versions, Files
  <2> QED BY <2>1, <2>2
<1>5. IsFiniteSet(U) /\ Cardinality(U) <= Cardinality(All)
  BY <1>3, <1>4, FS_Subset
<1>6. Cardinality(U) \in Nat
  BY <1>5, FS_CardinalityType
<1> QED BY <1>3, <1>5, <1>6 DEF Used

(* So with no more than what is kept there is room.                        *)
LEMMA KeptLeavesRoom ==
  ASSUME Typed, NEW L \in Nat, Fits(L), IsFiniteSet(stored), Cardinality(stored) <= KeptAtMost,
         NEW v \in Versions
  PROVE  HasRoom(v)
<1>1. MaxKept \in Nat /\ KeptAtMost <= MaxKept /\ KeptAtMost \in Nat
  BY KeptIsNumber, RetentionAssumption, FS_CardinalityType DEF MaxKept, KeptAtMost, Fits
<1>2. Cardinality(stored) \in 0 .. MaxKept
  BY <1>1, FS_CardinalityType
<1>3. Cardinality(Files) * L \in Nat
  BY FilesAreFinite DEF Fits
<1> DEFINE m == Cardinality(Files) * L
<1>4. /\ Cardinality(stored) * m <= MaxKept * m
      /\ Cardinality(stored) * m \in Nat /\ MaxKept * m \in Nat
  <2> HIDE DEF m
  <2> QED BY <1>1, <1>2, <1>3, ProductGrows DEF m
<1>5. Used \in Nat /\ Used <= Cardinality(stored) * m
  BY UsedIsBounded
<1>6. Reserve(v) \in Nat /\ MaxKept * m + Reserve(v) <= MaxBytes
  BY ReserveIsNumber DEF Fits
<1>7. Used + Reserve(v) <= MaxBytes
  <2> HIDE DEF m
  <2> QED BY <1>4, <1>5, <1>6
<1> QED BY <1>1, <1>2, <1>7 DEF HasRoom, Fits

(* Once something is published no generation is refused, provided that     *)
(* what a collection keeps at most, and the generation to come, fit in the *)
(* store: a dead writer's directories cannot fill it.                      *)
THEOREM AlwaysRoom == ASSUME NEW L \in Nat, Fits(L) PROVE Spec => []NeverRefused
<1>1. Init => NeverRefused
  BY DEF Init, NeverRefused, IdleWriter
<1>2. IInv /\ Roomy /\ NeverRefused /\ [Next]_vars => NeverRefused'
  <2> SUFFICES ASSUME IInv, Roomy, NeverRefused, [Next]_vars PROVE NeverRefused'
    OBVIOUS
  <2> USE DEF IInv, Typed, NeverRefused
  <2>1. ASSUME NEW w \in Writers, RefuseCapacity(w), pointer # NoPointer PROVE FALSE
    <3>1. Cardinality(stored) <= KeptAtMost /\ IsFiniteSet(stored)
      BY <2>1 DEF RefuseCapacity, Roomy, RoomOf
    <3>2. writer[w].version \in Versions
      BY DEF Writer
    <3> QED BY <2>1, <3>1, <3>2, KeptLeavesRoom DEF RefuseCapacity
  <2>2. ASSUME NEW w \in Writers, RefuseCapacity(w) PROVE NeverRefused'
    BY <2>1, <2>2 DEF RefuseCapacity
  <2>3. ASSUME NEW w \in Writers, Commit(w) PROVE NeverRefused'
    <3>1. \A v \in Writers : writer'[v].pc = "idle"
      BY <2>3 DEF Commit, Locked, IdleWriter
    <3> QED BY <3>1
  <2>4. ASSUME NEW w \in Writers,
               \/ Begin(w) \/ Gather(w) \/ Abort(w) \/ Collection(w)
               \/ \E g \in Generations : Stage(w, g)
               \/ \E f \in Files : WriteFile(w, f)
        PROVE  NeverRefused'
    <3>1. pointer' = pointer
      BY <2>4 DEF Begin, Gather, Abort, Collection, SkipCollection, BeginCollection,
         EndCollection, RemoveDirectory, Defer, RemoveFile, Stage, WriteFile
    <3>2. \A v \in Writers : writer'[v].pc = "refused" => writer[v].pc = "refused"
      <4>1. CASE Begin(w) \/ Gather(w) \/ Abort(w)
        <5>1. CASE Begin(w)
          BY <5>1 DEF Begin, Step, Writer
        <5>2. CASE Gather(w)
          BY <5>2 DEF Gather, Writer
        <5>3. CASE Abort(w)
          BY <5>3 DEF Abort, IdleWriter
        <5> QED BY <4>1, <5>1, <5>2, <5>3
      <4>2. CASE Collection(w)
        <5>1. CASE SkipCollection(w) \/ EndCollection(w)
          BY <5>1 DEF SkipCollection, EndCollection, Step, Writer
        <5>2. CASE BeginCollection(w)
          BY <5>2 DEF BeginCollection, Writer
        <5>3. CASE \E g \in Generations : RemoveDirectory(w, g) \/ Defer(w, g)
          BY <5>3 DEF RemoveDirectory, Defer, Writer
        <5>4. CASE \E g \in Generations, f \in Files : RemoveFile(w, g, f)
          BY <5>4 DEF RemoveFile
        <5> QED BY <4>2, <5>1, <5>2, <5>3, <5>4 DEF Collection
      <4>3. CASE \/ \E g \in Generations : Stage(w, g)
                 \/ \E f \in Files : WriteFile(w, f)
        BY <4>3 DEF Stage, WriteFile, Writer
      <4> QED BY <2>4, <4>1, <4>2, <4>3
    <3> QED BY <3>1, <3>2
  <2>5. CASE \/ InputChanges
             \/ \E r \in Readers :
                  \/ EnterGate(r) \/ Resolve(r) \/ LeaveGate(r) \/ CloseFiles(r)
                  \/ \E f \in Artifacts : Open(r, f)
             \/ UNCHANGED vars
    BY <2>5 DEF InputChanges, EnterGate, Resolve, LeaveGate, CloseFiles, Open, vars
  <2> QED BY <2>2, <2>3, <2>4, <2>5 DEF Next, Publication
<1>3. IsFiniteSet(Readers)
  BY DEF Fits
<1>4. Spec => []Roomy
  BY <1>3, AlwaysRoomy
<1> QED BY <1>1, <1>2, <1>4, AlwaysIInv, PTL DEF Spec

=============================================================================
