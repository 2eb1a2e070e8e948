------------------------------ MODULE Vm_proof ------------------------------
(***************************************************************************)
(* Theorems about Vm, for any number of harts, files, regions, pages and   *)
(* calls: the reference counts stay exact, a page gets the contents and the *)
(* rights its program asked for and keeps what was stored, a growing heap  *)
(* replaces no other mapping, and a read moves the bytes at its offset.    *)
(* VmInv, which they follow from, has one part for the file table (FilePart) *)
(* and one for the pages (VmPart); a step of the table leaves the second   *)
(* alone.                                                                  *)
(***************************************************************************)
EXTENDS Vm, FiniteSetTheorems, TLAPS

-----------------------------------------------------------------------------
(* The invariant.                                                          *)

Places == {"idle", "opening", "closing", "read", "pread", "fault", "vm", "dead"}
Ops == {"none", "map", "unmap", "fill", "read", "drop", "install"}
Contents == [kind : {"old", "stored", "filled"}, file : Files \cup {NoFile}, index : Nat]
Filled == [kind : {"filled"}, file : Files \cup {NoFile}, index : Nat]
Entries == [kind : {"none", "region", "kernel", "user"},
            region : Regions \cup {NoRegion}, prot : SUBSET Rights]

\* The variables of the file table keep their types.
FileTypes ==
  /\ refcnt \in [Files -> Nat]
  /\ offset \in [Files -> 0 .. FilePages]
  /\ fd \in [Files -> [open : BOOLEAN, pos : 0 .. FilePages]]
  /\ file_lock \in Harts \cup {NoHart} /\ refcnt_lock \in Harts \cup {NoHart}
  /\ pc \in [Harts -> [at : Places, file : Files \cup {NoFile}]]
  /\ holder \in [Files -> Harts \cup {NoHart}]

\* The variables of the memory manager keep theirs.
VmTypes ==
  /\ pte \in [Pages -> Entries]
  /\ \A a \in Pages : pte[a].kind = "region" <=> pte[a].region # NoRegion
  /\ \A a \in Pages : pte[a].kind \in {"none", "region", "kernel"} => pte[a].prot = {}
  /\ vmrs \in [Regions -> [refcnt : Nat, addr : Nat, file : Files \cup {NoFile},
                           offset : Nat, prot : SUBSET Rights]]
  /\ brk \in 0 .. Top /\ brk_max \in KernelPages .. Top
  /\ brk = 0 \/ brk >= KernelPages
  /\ vm_lock \in Harts \cup {NoHart}
  /\ job \in [op : Ops, by : {"none", "mmap", "brk"}, at : Nat, from : Nat, end : 0 .. Top,
              region : Regions \cup {NoRegion}, populate : BOOLEAN,
              prot : SUBSET Rights, closing : Files \cup {NoFile}]
  /\ want \in [Harts -> Pages]
  /\ mem \in [Pages -> Contents]
  /\ asked \in [Pages -> [by : {"none", "boot", "mmap", "brk"}, part : Filled,
                          prot : SUBSET Rights]]

\* Which hart holds which lock, and which file, at each place.
Locks ==
  /\ \A p \in Harts : pc[p].at = "vm" => vm_lock = p
  /\ vm_lock = NoHart => job = NoJob
  /\ \A p \in Harts : pc[p].at \in {"read", "pread"} => file_lock = p
  /\ \A p \in Harts : pc[p].at \in {"opening", "read", "pread"} =>
       pc[p].file \in Files /\ holder[pc[p].file] = p
  /\ \A p \in Harts : pc[p].at = "closing" => pc[p].file \in Files

\* The page being filled carries the kernel's entry.
Halfway == job.op \in {"read", "drop", "install"}

\* How far a job is: the pages behind it are done, those before it untouched.
JobAt ==
  /\ job.op # "none" =>
       KernelPages <= job.from /\ job.from <= job.at /\ job.at <= job.end
  /\ job.op \in {"map", "read", "drop"} <=> job.region # NoRegion
  /\ job.op = "map" => \A i \in job.from .. job.at - 1 : pte[i] = ToRegion(job.region)
  /\ job.op = "fill" => \A i \in job.at .. job.end - 1 : pte[i].kind = "region"
  /\ Halfway => job.at < job.end /\ pte[job.at] = KernelEntry
  /\ Halfway => \A i \in job.at + 1 .. job.end - 1 : pte[i].kind = "region"

\* A region counts the entries that point at it and the references in hand.
RegionCounts == \A v \in Regions : vmrs[v].refcnt = Cardinality(Untouched(v)) + InHand(v)

\* What a file counts: itself while used, a hart that works on it, its mappings.
FileCount(f) ==
  IF holder[f] = NoHart /\ Mapped(f) = {} THEN 0
  ELSE 1 + (IF holder[f] = NoHart THEN 0 ELSE 1) + Cardinality(Mapped(f))
FileCounts == \A f \in Files : refcnt[f] = FileCount(f)

\* What a region says a page is to hold.
Part(v, a) == IF v.file = NoFile THEN Zeroes ELSE PartOf(v.file, v.offset + (a - v.addr))

\* An entry stands for what was asked; what is read and not yet installed does too.
ContentsInv ==
  /\ \A a \in Pages : a >= KernelPages /\ pte[a].kind = "kernel" => Halfway /\ a = job.at
  /\ \A a \in Pages : pte[a].kind = "region" => asked[a].part = Part(vmrs[pte[a].region], a)
  /\ job.op = "map" => vmrs[job.region].addr <= job.from
  /\ job.op = "read" => asked[job.at].part = Part(vmrs[job.region], job.at)
  /\ job.op \in {"drop", "install"} => mem[job.at] = asked[job.at].part
  /\ \A a \in Pages : mem[a] = Stored => pte[a].kind = "user"

\* The rights a job has in hand are among those asked for.
RightsInv ==
  /\ job.op \in {"read", "drop"} =>
       vmrs[job.region].prot \cap {"W", "X"} \subseteq asked[job.at].prot
  /\ job.op = "install" => job.prot \cap {"W", "X"} \subseteq asked[job.at].prot

\* brk_max lies below whatever do_mmap has placed.
GrowthInv ==
  /\ \A a \in Pages : asked[a].by = "mmap" => brk_max <= a
  /\ job.op = "map" /\ job.by = "mmap" => brk_max <= job.from
  /\ job.op = "map" /\ job.by = "brk" => job.end <= brk_max \/ job.end <= BrkMin
  /\ job.op = "map" => job.by # "none"

\* The two parts.
FilePart == FileTypes /\ Locks /\ FileCounts /\ ReadsAtOffset
VmPart ==
  /\ VmTypes /\ JobAt /\ RegionCounts
  /\ ContentsInv /\ ContentsAsAsked
  /\ RightsInv /\ RightsAsAsked
  /\ GrowthInv

-----------------------------------------------------------------------------
\* A file has finitely many mappings.
LEMMA MappedFinite ==
  ASSUME NEW f \in Files
  PROVE  IsFiniteSet(Mapped(f)) /\ Cardinality(Mapped(f)) \in Nat
  <1>1. Mapped(f) \in SUBSET Regions
    BY DEF Mapped
  <1>2. IsFiniteSet(Regions)
    BY VmAssumption
  <1>3. IsFiniteSet(Mapped(f))
    BY <1>1, <1>2, FS_Subset
  <1>4. QED
    BY <1>3, FS_CardinalityType

\* A file somebody counts on is not free.
LEMMA HeldCounts ==
  ASSUME FileCounts, NEW f \in Files
  PROVE  /\ refcnt[f] = 0 <=> holder[f] = NoHart /\ Mapped(f) = {}
         /\ refcnt[f] = 2 => holder[f] = NoHart \/ Mapped(f) = {}
         /\ refcnt[f] # 0 => refcnt[f] >= 2
  <1>1. IsFiniteSet(Mapped(f)) /\ Cardinality(Mapped(f)) \in Nat
    BY MappedFinite
  <1>2. Cardinality(Mapped(f)) = 0 <=> Mapped(f) = {}
    BY <1>1, FS_EmptySet
  <1>3. QED
    BY <1>1, <1>2 DEF FileCounts, FileCount

-----------------------------------------------------------------------------
\* Taking a free file and opening it.
LEMMA OpenStep ==
  ASSUME FilePart, UNCHANGED vmVars, NEW p \in Harts, file_get_free(p) \/ file_openat(p)
  PROVE  FilePart'
  <1>1. CASE file_get_free(p)
    <2>1. pc[p].at = "idle" /\ UNCHANGED <<offset, fd, file_lock, refcnt_lock, vm_lock, job, vmrs>>
      BY <1>1 DEF file_get_free, Call, Idle, vmVars
    <2>2. CASE \E f \in Files : /\ refcnt[f] = 0
                               /\ refcnt' = [refcnt EXCEPT ![f] = 2]
                               /\ holder' = [holder EXCEPT ![f] = p]
                               /\ Go(p, "opening", f)
      <3> PICK f \in Files : /\ refcnt[f] = 0
                             /\ refcnt' = [refcnt EXCEPT ![f] = 2]
                             /\ holder' = [holder EXCEPT ![f] = p]
                             /\ Go(p, "opening", f)
        BY <2>2
      <3>1. pc' = [pc EXCEPT ![p] = [at |-> "opening", file |-> f]]
        BY DEF Go
      <3>2. holder[f] = NoHart /\ Mapped(f) = {}
        BY HeldCounts DEF FilePart
      <3>3. FileTypes'
        BY <2>1, <3>1 DEF FilePart, FileTypes, Places
      <3>4. Locks'
        BY <2>1, <3>1, <3>2, FileAssumption DEF FilePart, FileTypes, Locks
      <3>5. FileCounts'
        <4>1. \A g \in Files : Mapped(g)' = Mapped(g)
          BY <2>1 DEF Mapped
        <4>2. Cardinality(Mapped(f)) = 0
          BY <3>2, FS_EmptySet
        <4>3. refcnt'[f] = FileCount(f)'
          <5>1. refcnt'[f] = 2 /\ holder'[f] # NoHart
            BY FileAssumption DEF FilePart, FileTypes
          <5>2. Cardinality(Mapped(f)') = 0
            BY <4>1, <4>2
          <5>3. QED
            BY <5>1, <5>2 DEF FileCount
        <4>4. \A g \in Files \ {f} : refcnt'[g] = FileCount(g)'
          BY <4>1 DEF FileCount, FilePart, FileTypes, FileCounts
        <4>5. QED
          BY <4>3, <4>4 DEF FileCounts
      <3>6. ReadsAtOffset'
        BY <2>1, <3>1 DEF FilePart, FileTypes, ReadsAtOffset
      <3>7. QED
        BY <3>3, <3>4, <3>5, <3>6 DEF FilePart
    <2>3. CASE Panic(p) /\ UNCHANGED <<refcnt, holder>>
      <3>1. pc' = [pc EXCEPT ![p] = [at |-> "dead", file |-> NoFile]]
        BY <2>3 DEF Panic, Go
      <3>2. FileTypes'
        BY <2>1, <2>3, <3>1 DEF FilePart, FileTypes, Places
      <3>3. Locks'
        BY <2>1, <2>3, <3>1 DEF FilePart, FileTypes, Locks
      <3>4. FileCounts'
        BY <2>1, <2>3 DEF FilePart, FileCounts, FileCount, Mapped
      <3>5. ReadsAtOffset'
        BY <2>1, <3>1 DEF FilePart, FileTypes, ReadsAtOffset
      <3>6. QED
        BY <3>2, <3>3, <3>4, <3>5 DEF FilePart
    <2>4. QED
      BY <1>1, <2>2, <2>3 DEF file_get_free
  <1>2. CASE file_openat(p)
    <2> DEFINE f == pc[p].file
    <2>1. /\ pc[p].at = "opening"
          /\ UNCHANGED <<refcnt, offset, file_lock, refcnt_lock, holder, vm_lock, job, vmrs>>
      BY <1>2 DEF file_openat, vmVars
    <2>2. f \in Files /\ holder[f] = p
      BY <2>1 DEF FilePart, Locks
    <2>3. /\ fd' = [fd EXCEPT ![f] = [open |-> TRUE, pos |-> 0]] \/ UNCHANGED fd
          /\ \/ pc' = [pc EXCEPT ![p] = [at |-> "idle", file |-> NoFile]]
             \/ pc' = [pc EXCEPT ![p] = [at |-> "dead", file |-> NoFile]]
      BY <1>2 DEF file_openat, Panic, Return, Go
    <2>a. /\ \A q \in Harts \ {p} : pc'[q] = pc[q]
          /\ pc'[p].at \in {"idle", "dead"} /\ pc'[p].file = NoFile
          /\ pc' \in [Harts -> [at : Places, file : Files \cup {NoFile}]]
      BY <2>3 DEF FilePart, FileTypes, Places
    <2>4. FileTypes'
      <3>1. [open |-> TRUE, pos |-> 0] \in [open : BOOLEAN, pos : 0 .. FilePages]
        BY FileAssumption
      <3>2. fd' \in [Files -> [open : BOOLEAN, pos : 0 .. FilePages]]
        BY <2>3, <3>1 DEF FilePart, FileTypes
      <3>3. QED
        BY <2>1, <2>a, <3>2 DEF FilePart, FileTypes
    <2>5. Locks'
      BY <2>1, <2>a DEF FilePart, Locks
    <2>6. FileCounts'
      BY <2>1 DEF FilePart, FileCounts, FileCount, Mapped
    <2>7. ReadsAtOffset'
      <3> SUFFICES ASSUME NEW q \in Harts, pc'[q].at = "read", fd'[pc'[q].file].open
                   PROVE  fd'[pc'[q].file].pos = offset'[pc'[q].file]
        BY DEF ReadsAtOffset
      <3>1. q # p /\ pc'[q] = pc[q]
        BY <2>3 DEF FilePart, FileTypes
      <3>2. pc[q].file \in Files /\ holder[pc[q].file] = q
        BY <3>1 DEF FilePart, Locks
      <3>3. fd'[pc[q].file] = fd[pc[q].file]
        BY <2>2, <2>3, <3>1, <3>2 DEF FilePart, FileTypes
      <3>4. QED
        BY <2>1, <3>1, <3>3 DEF FilePart, ReadsAtOffset
    <2>8. QED
      BY <2>4, <2>5, <2>6, <2>7 DEF FilePart
  <1>3. QED
    BY <1>1, <1>2

\* A hart gives up the file it opened.
LEMMA CloseStep ==
  ASSUME FilePart, UNCHANGED vmVars, NEW p \in Harts, Close(p)
  PROVE  FilePart'
  <1> PICK f \in Files :
        /\ holder[f] = p
        /\ file_decref(p, f)
        /\ holder' = [holder EXCEPT ![f] = NoHart]
        /\ IF refcnt[f] = 2 THEN Go(p, "closing", f) ELSE UNCHANGED pc
    BY DEF Close
  <1>1. pc[p].at = "idle" /\ UNCHANGED <<fd, file_lock, vm_lock, job, vmrs>>
    BY DEF Close, Idle, vmVars
  <1>2. CASE refcnt[f] = 2
    <2>1. /\ refcnt' = [refcnt EXCEPT ![f] = 0]
          /\ offset' = [offset EXCEPT ![f] = 0]
          /\ refcnt_lock' = p
          /\ pc' = [pc EXCEPT ![p] = [at |-> "closing", file |-> f]]
      BY <1>2 DEF file_decref, Go
    <2>2. /\ \A q \in Harts \ {p} : pc'[q] = pc[q]
          /\ pc'[p] = [at |-> "closing", file |-> f]
      BY <2>1 DEF FilePart, FileTypes
    <2>3. FileTypes'
      BY <1>1, <2>1, FileAssumption DEF FilePart, FileTypes, Places
    <2>4. \A q \in Harts \ {p}, g \in Files : holder[g] = q => holder'[g] = q /\ g # f
      BY DEF FilePart, FileTypes
    <2>5. Locks'
      BY <1>1, <2>2, <2>4 DEF FilePart, Locks
    <2>6. FileCounts'
      <3>1. \A g \in Files : Mapped(g)' = Mapped(g)
        BY <1>1 DEF Mapped
      <3>2. Mapped(f) = {}
        BY <1>2, HeldCounts, FileAssumption DEF FilePart
      <3>3. refcnt'[f] = FileCount(f)'
        BY <2>1, <3>1, <3>2 DEF FilePart, FileTypes, FileCount
      <3>4. \A g \in Files \ {f} : refcnt'[g] = FileCount(g)'
        BY <2>1, <3>1 DEF FileCount, FilePart, FileTypes, FileCounts
      <3>5. QED
        BY <3>3, <3>4 DEF FileCounts
    <2>7. ReadsAtOffset'
      <3> SUFFICES ASSUME NEW q \in Harts, pc'[q].at = "read", fd'[pc'[q].file].open
                   PROVE  fd'[pc'[q].file].pos = offset'[pc'[q].file]
        BY DEF ReadsAtOffset
      <3>1. q # p /\ pc'[q] = pc[q]
        BY <2>2
      <3>2. pc[q].file \in Files /\ holder[pc[q].file] = q
        BY <3>1 DEF FilePart, Locks
      <3>3. offset'[pc[q].file] = offset[pc[q].file]
        BY <2>1, <2>4, <3>1, <3>2 DEF FilePart, FileTypes
      <3>4. QED
        BY <1>1, <3>1, <3>3 DEF FilePart, ReadsAtOffset
    <2>8. QED
      BY <2>3, <2>5, <2>6, <2>7 DEF FilePart
  <1>3. CASE refcnt[f] # 2
    <2>1. /\ refcnt' = [refcnt EXCEPT ![f] = @ - 1]
          /\ UNCHANGED <<offset, refcnt_lock, pc>>
      BY <1>3 DEF file_decref
    <2>2. refcnt[f] \in Nat /\ refcnt[f] > 2
      BY <1>3, HeldCounts, FileAssumption DEF FilePart, FileTypes
    <2>3. FileTypes'
      BY <1>1, <2>1, <2>2 DEF FilePart, FileTypes
    <2>4. Locks'
      BY <1>1, <2>1 DEF FilePart, FileTypes, Locks
    <2>5. FileCounts'
      <3>1. \A g \in Files : Mapped(g)' = Mapped(g)
        BY <1>1 DEF Mapped
      <3>2. Cardinality(Mapped(f)) \in Nat /\ (Mapped(f) = {} => Cardinality(Mapped(f)) = 0)
        BY MappedFinite, FS_EmptySet
      <3>3. refcnt[f] = 2 + Cardinality(Mapped(f)) /\ Mapped(f) # {}
        BY <2>2, <3>2, FileAssumption DEF FilePart, FileCounts, FileCount
      <3>4. refcnt'[f] = 1 + Cardinality(Mapped(f)) /\ holder'[f] = NoHart
        BY <2>1, <3>2, <3>3 DEF FilePart, FileTypes
      <3>5. refcnt'[f] = FileCount(f)'
        BY <3>1, <3>2, <3>3, <3>4 DEF FileCount
      <3>6. \A g \in Files \ {f} : refcnt'[g] = FileCount(g)'
        BY <2>1, <3>1 DEF FileCount, FilePart, FileTypes, FileCounts
      <3>7. QED
        BY <3>5, <3>6 DEF FileCounts
    <2>6. ReadsAtOffset'
      BY <1>1, <2>1 DEF FilePart, ReadsAtOffset
    <2>7. QED
      BY <2>3, <2>4, <2>5, <2>6 DEF FilePart
  <1>4. QED
    BY <1>2, <1>3

\* The f_close of a file whose slot has been given up.
LEMMA CloseEndStep ==
  ASSUME FilePart, UNCHANGED vmVars, NEW p \in Harts, CloseEnd(p)
  PROVE  FilePart'
  <1> DEFINE f == pc[p].file
  <1>1. /\ pc[p].at = "closing"
        /\ fd' = [fd EXCEPT ![f].open = FALSE]
        /\ refcnt_lock' = NoHart
        /\ pc' = [pc EXCEPT ![p] = [at |-> "idle", file |-> NoFile]]
        /\ UNCHANGED <<refcnt, offset, file_lock, holder, vm_lock, job, vmrs>>
    BY DEF CloseEnd, f_close, Return, Go, vmVars
  <1>2. f \in Files
    BY <1>1 DEF FilePart, Locks
  <1>3. /\ \A q \in Harts \ {p} : pc'[q] = pc[q]
        /\ pc'[p].at = "idle"
    BY <1>1 DEF FilePart, FileTypes
  <1>4. FileTypes'
    <2>1. fd' \in [Files -> [open : BOOLEAN, pos : 0 .. FilePages]]
      BY <1>1, <1>2 DEF FilePart, FileTypes
    <2>2. pc' \in [Harts -> [at : Places, file : Files \cup {NoFile}]]
      BY <1>1 DEF FilePart, FileTypes, Places
    <2>3. QED
      BY <1>1, <2>1, <2>2 DEF FilePart, FileTypes
  <1>5. Locks'
    BY <1>1, <1>3 DEF FilePart, Locks
  <1>6. FileCounts'
    BY <1>1 DEF FilePart, FileCounts, FileCount, Mapped
  <1>7. \A g \in Files : fd'[g].pos = fd[g].pos /\ (fd'[g].open => fd[g].open)
    BY <1>1, <1>2 DEF FilePart, FileTypes
  <1>8. ReadsAtOffset'
    <2> SUFFICES ASSUME NEW q \in Harts, pc'[q].at = "read", fd'[pc'[q].file].open
                 PROVE  fd'[pc'[q].file].pos = offset'[pc'[q].file]
      BY DEF ReadsAtOffset
    <2>1. pc'[q] = pc[q]
      BY <1>3
    <2>2. pc[q].file \in Files
      BY <2>1 DEF FilePart, Locks
    <2>3. QED
      BY <1>1, <1>7, <2>1, <2>2 DEF FilePart, ReadsAtOffset
  <1>9. QED
    BY <1>4, <1>5, <1>6, <1>8 DEF FilePart

\* A transfer takes the file and its lock.
LEMMA StartTransferStep ==
  ASSUME FilePart, UNCHANGED vmVars, NEW p \in Harts, NEW f \in Files, NEW at \in Nat,
         NEW kind \in {"read", "pread"}, StartTransfer(p, f, at, kind),
         kind = "read" => at = offset[f]
  PROVE  FilePart'
  <1>1. /\ pc[p].at = "idle" /\ holder[f] = p /\ file_lock = NoHart
        /\ file_lock' = p
        /\ fd' = SeekTo(f, at)
        /\ UNCHANGED <<refcnt, offset, refcnt_lock, holder, vm_lock, job, vmrs>>
    BY DEF StartTransfer, Call, Idle, vmVars
  <1>2. \/ pc' = [pc EXCEPT ![p] = [at |-> kind, file |-> f]]
        \/ pc' = [pc EXCEPT ![p] = [at |-> "dead", file |-> NoFile]]
    BY DEF StartTransfer, Panic, Go
  <1>3. /\ \A q \in Harts \ {p} : pc'[q] = pc[q]
        /\ pc'[p] \in {[at |-> kind, file |-> f], [at |-> "dead", file |-> NoFile]}
        /\ pc' \in [Harts -> [at : Places, file : Files \cup {NoFile}]]
    BY <1>2 DEF FilePart, FileTypes, Places
  <1>4. Clip(at) \in 0 .. FilePages /\ (at <= FilePages => Clip(at) = at)
    BY FileAssumption DEF Clip
  <1>5. /\ fd' \in [Files -> [open : BOOLEAN, pos : 0 .. FilePages]]
        /\ fd'[f].open => fd'[f].pos = Clip(at)
    BY <1>1, <1>4 DEF SeekTo, FilePart, FileTypes
  <1>6. FileTypes'
    BY <1>1, <1>3, <1>5 DEF FilePart, FileTypes
  <1>7. \A q \in Harts : pc[q].at \notin {"read", "pread"}
    BY <1>1, FileAssumption DEF FilePart, Locks
  <1>8. Locks'
    BY <1>1, <1>3, <1>7 DEF FilePart, Locks
  <1>9. FileCounts'
    BY <1>1 DEF FilePart, FileCounts, FileCount, Mapped
  <1>10. ReadsAtOffset'
    <2> SUFFICES ASSUME NEW q \in Harts, pc'[q].at = "read", fd'[pc'[q].file].open
                 PROVE  fd'[pc'[q].file].pos = offset'[pc'[q].file]
      BY DEF ReadsAtOffset
    <2>1. q = p /\ pc'[q] = [at |-> kind, file |-> f] /\ kind = "read"
      BY <1>3, <1>7
    <2>2. offset[f] <= FilePages
      BY FileAssumption DEF FilePart, FileTypes
    <2>3. QED
      BY <1>1, <1>4, <1>5, <2>1, <2>2
  <1>11. QED
    BY <1>6, <1>8, <1>9, <1>10 DEF FilePart

\* A transfer moves its bytes and lets go.
LEMMA TransferStep ==
  ASSUME FilePart, UNCHANGED vmVars, NEW p \in Harts, Transfer(p)
  PROVE  FilePart'
  <1> DEFINE f == pc[p].file
  <1> PICK n \in 0 .. (FilePages - fd[f].pos) :
        /\ fd[f].open \/ n = 0
        /\ fd' = [fd EXCEPT ![f].pos = @ + n]
        /\ IF pc[p].at = "read" THEN offset' = [offset EXCEPT ![f] = @ + n]
           ELSE UNCHANGED offset
    BY DEF Transfer
  <1>1. /\ pc[p].at \in {"read", "pread"}
        /\ file_lock' = NoHart
        /\ pc' = [pc EXCEPT ![p] = [at |-> "idle", file |-> NoFile]]
        /\ UNCHANGED <<refcnt, refcnt_lock, holder, vm_lock, job, vmrs>>
    BY DEF Transfer, Return, Go, vmVars
  <1>2. f \in Files /\ file_lock = p
    BY <1>1 DEF FilePart, Locks
  <1>3. \A q \in Harts \ {p} : pc'[q] = pc[q] /\ pc[q].at \notin {"read", "pread"}
    BY <1>1, <1>2 DEF FilePart, FileTypes, Locks
  <1>4. pc'[p] = [at |-> "idle", file |-> NoFile]
    BY <1>1 DEF FilePart, FileTypes
  <1>5. fd' \in [Files -> [open : BOOLEAN, pos : 0 .. FilePages]]
    BY <1>2, FileAssumption DEF FilePart, FileTypes
  <1>6. offset' \in [Files -> 0 .. FilePages]
    <2>1. CASE pc[p].at = "read"
      <3>1. CASE fd[f].open
        BY <1>2, <2>1, <3>1, FileAssumption DEF FilePart, FileTypes, ReadsAtOffset
      <3>2. CASE n = 0
        BY <1>2, <2>1, <3>2, FileAssumption DEF FilePart, FileTypes
      <3>3. QED
        BY <3>1, <3>2
    <2>2. CASE pc[p].at # "read"
      BY <2>2 DEF FilePart, FileTypes
    <2>3. QED
      BY <2>1, <2>2
  <1>7. pc' \in [Harts -> [at : Places, file : Files \cup {NoFile}]]
    BY <1>1 DEF FilePart, FileTypes, Places
  <1>8. FileTypes'
    BY <1>1, <1>5, <1>6, <1>7 DEF FilePart, FileTypes
  <1>9. Locks'
    BY <1>1, <1>3, <1>4 DEF FilePart, Locks
  <1>10. FileCounts'
    BY <1>1 DEF FilePart, FileCounts, FileCount, Mapped
  <1>11. ReadsAtOffset'
    BY <1>3, <1>4 DEF ReadsAtOffset
  <1>12. QED
    BY <1>8, <1>9, <1>10, <1>11 DEF FilePart

\* Every step of the file table keeps its part.
LEMMA FileStep ==
  ASSUME FilePart, UNCHANGED vmVars, NEW p \in Harts, FileNext(p)
  PROVE  FilePart'
  <1>1. CASE file_get_free(p) \/ file_openat(p)
    BY <1>1, OpenStep
  <1>2. CASE Close(p)
    BY <1>2, CloseStep
  <1>3. CASE CloseEnd(p)
    BY <1>3, CloseEndStep
  <1>4. CASE Transfer(p)
    BY <1>4, TransferStep
  <1>5. ASSUME NEW f \in Files, file_read(p, f) PROVE FilePart'
    <2>1. offset[f] \in Nat
      BY FileAssumption DEF FilePart, FileTypes
    <2>2. QED
      BY <1>5, <2>1, StartTransferStep DEF file_read
  <1>6. ASSUME NEW f \in Files, file_pread(p, f) PROVE FilePart'
    <2>1. PICK at \in 0 .. FilePages : StartTransfer(p, f, at, "pread")
      BY <1>6 DEF file_pread
    <2>2. QED
      BY <2>1, StartTransferStep
  <1>7. QED
    BY <1>1, <1>2, <1>3, <1>4, <1>5, <1>6 DEF FileNext


-----------------------------------------------------------------------------
(* Entries and references.                                                 *)

\* What the part for the pages depends on.
LEMMA VmFrame ==
  ASSUME VmPart, UNCHANGED vmVars
  PROVE  VmPart'
  <1>1. UNCHANGED <<pte, vmrs, brk, brk_max, vm_lock, job, want, mem, asked>>
    BY DEF vmVars
  <1>2. VmTypes' /\ JobAt'
    BY <1>1 DEF VmPart, VmTypes, JobAt, Halfway
  <1>3. RegionCounts'
    BY <1>1 DEF VmPart, RegionCounts, Untouched, InHand
  <1>4. ContentsInv' /\ ContentsAsAsked'
    BY <1>1 DEF VmPart, ContentsInv, ContentsAsAsked, Halfway
  <1>5. RightsInv' /\ RightsAsAsked' /\ GrowthInv'
    BY <1>1 DEF VmPart, RightsInv, RightsAsAsked, GrowthInv
  <1>6. QED
    BY <1>2, <1>3, <1>4, <1>5 DEF VmPart

\* There are finitely many pages.
LEMMA PagesFinite == IsFiniteSet(Pages)
  <1>1. 0 \in Int /\ Top - 1 \in Int
    BY VmAssumption
  <1>2. QED
    BY <1>1, FS_Interval DEF Pages

\* Finitely many entries point at a region.
LEMMA UntouchedFinite ==
  ASSUME NEW v \in Regions
  PROVE  IsFiniteSet(Untouched(v)) /\ Cardinality(Untouched(v)) \in Nat
  <1>1. Untouched(v) \in SUBSET Pages
    BY DEF Untouched
  <1>2. IsFiniteSet(Pages)
    BY PagesFinite
  <1>3. IsFiniteSet(Untouched(v))
    BY <1>1, <1>2, FS_Subset
  <1>4. QED
    BY <1>3, FS_CardinalityType

\* An entry at one page changes; the others stay.
LEMMA EntryIs ==
  ASSUME VmTypes, NEW a \in Pages
  PROVE  /\ pte[a].kind = "region" => pte[a].region \in Regions
                                      /\ pte[a] = ToRegion(pte[a].region)
         /\ \A v \in Regions : pte[a] = ToRegion(v) => pte[a].kind = "region"
                                                       /\ pte[a].region = v
         /\ pte[a].kind # "region" => pte[a].region = NoRegion
  <1>1. pte[a] \in Entries
    BY DEF VmTypes
  <1>2. pte[a] = [kind |-> pte[a].kind, region |-> pte[a].region, prot |-> pte[a].prot]
    BY <1>1 DEF Entries
  <1>3. pte[a].kind = "region" => pte[a].region \in Regions /\ pte[a].prot = {}
    BY <1>1 DEF VmTypes, Entries
  <1>4. QED
    BY <1>2, <1>3 DEF ToRegion, VmTypes

\* What a new entry at a page does to the number of entries of a region.
LEMMA EntryCounts ==
  ASSUME VmTypes, NEW v \in Regions, NEW a \in Pages, NEW e,
         pte' = [pte EXCEPT ![a] = e]
  PROVE  /\ Cardinality(Untouched(v)) \in Nat
         /\ Cardinality(Untouched(v)') \in Nat
         /\ pte[a] = ToRegion(v) => Cardinality(Untouched(v)) >= 1
         /\ Cardinality(Untouched(v)') = Cardinality(Untouched(v))
              - (IF pte[a] = ToRegion(v) THEN 1 ELSE 0)
              + (IF e = ToRegion(v) THEN 1 ELSE 0)
  <1> DEFINE U == Untouched(v)
             S == U \ {a}
  <1>1. IsFiniteSet(U) /\ Cardinality(U) \in Nat
    BY UntouchedFinite
  <1>2. /\ IsFiniteSet(S) /\ Cardinality(S) \in Nat
        /\ Cardinality(S) = Cardinality(U) - (IF a \in U THEN 1 ELSE 0)
    BY <1>1, FS_RemoveElement, FS_CardinalityType
  <1>3. a \in U <=> pte[a] = ToRegion(v)
    BY DEF Untouched
  <1>4. \A b \in Pages : pte'[b] = IF b = a THEN e ELSE pte[b]
    BY DEF VmTypes
  <1>5. U' = IF e = ToRegion(v) THEN S \cup {a} ELSE S
    BY <1>4 DEF Untouched, ToRegion
  <1>6. a \notin S
    OBVIOUS
  <1>7. Cardinality(S \cup {a}) = Cardinality(S) + 1
    BY <1>2, <1>6, FS_AddElement
  <1> HIDE DEF S
  <1>8. CASE e = ToRegion(v)
    BY <1>1, <1>2, <1>3, <1>5, <1>7, <1>8
  <1>9. CASE e # ToRegion(v)
    BY <1>1, <1>2, <1>3, <1>5, <1>9
  <1>10. QED
    BY <1>8, <1>9

\* A region some entry points at has a positive number of such entries.
LEMMA EntryCounted ==
  ASSUME NEW entries, NEW v, NEW a \in Pages, entries[a] = ToRegion(v)
  PROVE  LET U == {b \in Pages : entries[b] = ToRegion(v)}
         IN Cardinality(U) \in Nat /\ Cardinality(U) >= 1
  <1> DEFINE U == {b \in Pages : entries[b] = ToRegion(v)}
  <1>1. U \in SUBSET Pages /\ a \in U
    OBVIOUS
  <1>2. IsFiniteSet(Pages)
    BY PagesFinite
  <1>3. IsFiniteSet(U)
    BY <1>1, <1>2, FS_Subset
  <1>4. Cardinality(U) \in Nat /\ Cardinality(U) # 0
    BY <1>1, <1>3, FS_CardinalityType, FS_EmptySet
  <1>5. QED
    BY <1>4

\* An entry that points at a region keeps it from being reused.
LEMMA EntryKeeps ==
  ASSUME VmTypes, RegionCounts, JobAt, NEW a \in Pages, NEW v \in Regions,
         pte[a] = ToRegion(v)
  PROVE  vmrs[v].refcnt >= 1
  <1>1. Cardinality(Untouched(v)) \in Nat /\ Cardinality(Untouched(v)) >= 1
    BY EntryCounted DEF Untouched
  <1>2. InHand(v) \in Nat
    BY VmAssumption DEF VmTypes, JobAt, InHand
  <1>3. QED
    BY <1>1, <1>2 DEF RegionCounts

\* The same after a step.
LEMMA EntryKeepsNext ==
  ASSUME VmTypes', RegionCounts', JobAt', NEW a \in Pages, NEW v \in Regions,
         pte'[a] = ToRegion(v)
  PROVE  vmrs'[v].refcnt >= 1
  <1>1. Cardinality(Untouched(v)') \in Nat /\ Cardinality(Untouched(v)') >= 1
    BY EntryCounted DEF Untouched, ToRegion
  <1>2. InHand(v)' \in Nat
    BY VmAssumption DEF VmTypes, JobAt, InHand
  <1>3. QED
    BY <1>1, <1>2 DEF RegionCounts

\* The kernel's entry points at no region.
LEMMA KernelEntryKind == KernelEntry.kind = "kernel"
  BY DEF KernelEntry

\* A job works on pages of the program.
LEMMA AtPage ==
  ASSUME VmTypes, JobAt, job.op # "none", job.at < job.end
  PROVE  /\ job.at \in Pages /\ job.at >= KernelPages /\ job.from <= job.at
         /\ job.at \in Nat /\ job.from \in Nat /\ job.end \in Nat /\ Top \in Nat
         /\ job.end <= Top
  <1>1. job.at \in Nat /\ job.from \in Nat /\ job.end \in 0 .. Top
    BY DEF VmTypes
  <1>2. KernelPages <= job.from /\ job.from <= job.at
    BY DEF JobAt
  <1>3. Top \in Nat /\ KernelPages \in Nat
    BY VmAssumption
  <1>4. QED
    BY <1>1, <1>2, <1>3 DEF Pages

\* A page that is being filled is one of the program's, and points at no region.
LEMMA HalfwayPage ==
  ASSUME VmTypes, JobAt, Halfway
  PROVE  /\ job.at \in Pages /\ job.at >= KernelPages /\ job.from <= job.at
         /\ job.at \in Nat /\ job.from \in Nat /\ job.end \in Nat /\ Top \in Nat
         /\ job.at < job.end /\ job.end <= Top /\ pte[job.at] = KernelEntry
  <1>1. job.op # "none" /\ job.at < job.end /\ pte[job.at] = KernelEntry
    BY DEF Halfway, JobAt
  <1>2. QED
    BY <1>1, AtPage

-----------------------------------------------------------------------------
(* Dropping a reference.                                                   *)

RegionRecord == [refcnt : Nat, addr : Nat, file : Files \cup {NoFile},
                 offset : Nat, prot : SUBSET Rights]

\* A region of which references are left stays what it was.
Kept(w) ==
  vmrs'[w].refcnt >= 1 =>
    /\ vmrs'[w].file = vmrs[w].file /\ vmrs'[w].addr = vmrs[w].addr
    /\ vmrs'[w].offset = vmrs[w].offset /\ vmrs'[w].prot = vmrs[w].prot

\* What __vmr_decref leaves of the regions.
LEMMA DecrefRegions ==
  ASSUME VmTypes, NEW p \in Harts, NEW v \in Regions, vmrs[v].refcnt >= 1,
         __vmr_decref(p, v)
  PROVE  /\ vmrs' \in [Regions -> RegionRecord]
         /\ vmrs'[v].refcnt = vmrs[v].refcnt - 1
         /\ \A w \in Regions \ {v} : vmrs'[w] = vmrs[w]
         /\ \A w \in Regions : Kept(w)
         /\ vmrs[v].refcnt = 1 => vmrs'[v].file = NoFile
  <1>1. vmrs' = IF vmrs[v].refcnt = 1 THEN [vmrs EXCEPT ![v] = Free]
                ELSE [vmrs EXCEPT ![v].refcnt = @ - 1]
    BY DEF __vmr_decref
  <1>2. vmrs \in [Regions -> RegionRecord]
    BY DEF VmTypes, RegionRecord
  <1>3. Free \in RegionRecord /\ Free.refcnt = 0 /\ Free.file = NoFile
    BY DEF Free, RegionRecord, Rights
  <1>4. \A w \in Regions \ {v} : vmrs'[w] = vmrs[w]
    BY <1>1, <1>2
  <1>5. CASE vmrs[v].refcnt = 1
    <2>1. vmrs' = [vmrs EXCEPT ![v] = Free]
      BY <1>1, <1>2, <1>5
    <2>2. QED
      BY <1>2, <1>3, <1>4, <1>5, <2>1 DEF Kept
  <1>6. CASE vmrs[v].refcnt # 1
    <2>1. vmrs' = [vmrs EXCEPT ![v].refcnt = @ - 1]
      BY <1>1, <1>6
    <2>2. vmrs[v] \in RegionRecord /\ vmrs[v].refcnt - 1 \in Nat
      BY <1>2, <1>6 DEF RegionRecord
    <2>3. vmrs'[v] \in RegionRecord /\ vmrs'[v].refcnt = vmrs[v].refcnt - 1
          /\ vmrs'[v].file = vmrs[v].file /\ vmrs'[v].addr = vmrs[v].addr
          /\ vmrs'[v].offset = vmrs[v].offset /\ vmrs'[v].prot = vmrs[v].prot
      BY <1>2, <2>1, <2>2 DEF RegionRecord
    <2>4. QED
      BY <1>2, <1>4, <1>6, <2>1, <2>2, <2>3 DEF Kept, RegionRecord
  <1>7. QED
    BY <1>5, <1>6

\* What dropping the last reference to a region does to the count of its file.
LEMMA DecrefFiles ==
  ASSUME FilePart, VmTypes, NEW p \in Harts, NEW v \in Regions, vmrs[v].refcnt >= 1,
         __vmr_decref(p, v), vm_lock # NoHart,
         UNCHANGED <<fd, file_lock, pc, holder, vm_lock>>
  PROVE  FilePart'
  <1> PICK g : g = vmrs[v].file
    OBVIOUS
  <1>1. /\ vmrs'[v].refcnt = vmrs[v].refcnt - 1
        /\ \A w \in Regions \ {v} : vmrs'[w] = vmrs[w]
        /\ vmrs'[v].refcnt >= 1 => vmrs'[v].file = g
        /\ vmrs[v].refcnt = 1 => vmrs'[v].file = NoFile
    BY DecrefRegions DEF Kept
  <1>2. vmrs[v].refcnt \in Nat /\ g \in Files \cup {NoFile}
    BY DEF VmTypes
  <1>3. CASE ~ LastRef(v)
    <2>1. UNCHANGED <<refcnt, offset, refcnt_lock>>
      BY <1>3 DEF __vmr_decref
    <2>2. ASSUME NEW f \in Files PROVE Mapped(f)' = Mapped(f)
      <3>1. vmrs'[v].refcnt > 0 /\ vmrs'[v].file = f
              <=> vmrs[v].refcnt > 0 /\ vmrs[v].file = f
        BY <1>1, <1>2, <1>3, FileAssumption DEF LastRef
      <3>2. QED
        BY <1>1, <3>1 DEF Mapped
    <2>3. FileTypes' /\ ReadsAtOffset'
      BY <2>1 DEF FilePart, FileTypes, ReadsAtOffset
    <2>4. Locks'
      BY <2>1 DEF FilePart, Locks
    <2>5. FileCounts'
      BY <2>1, <2>2 DEF FilePart, FileCounts, FileCount
    <2>6. QED
      BY <2>3, <2>4, <2>5 DEF FilePart
  <1>4. CASE LastRef(v)
    <2>1. g \in Files /\ vmrs[v].refcnt = 1
      BY <1>2, <1>4 DEF LastRef
    <2>2. file_decref(p, g)
      BY <1>4 DEF __vmr_decref
    <2>3. v \in Mapped(g) /\ Mapped(g)' = Mapped(g) \ {v}
      BY <1>1, <2>1 DEF Mapped
    <2>4. \A f \in Files \ {g} : Mapped(f)' = Mapped(f)
      BY <1>1, <2>1 DEF Mapped
    <2> DEFINE M == Mapped(g)
    <2>5. /\ Cardinality(M) \in Nat /\ Cardinality(M) >= 1
          /\ Cardinality(M \ {v}) = Cardinality(M) - 1
          /\ (M \ {v} = {} <=> Cardinality(M) = 1)
      <3>1. IsFiniteSet(M) /\ Cardinality(M) \in Nat
        BY <2>1, MappedFinite
      <3>2. IsFiniteSet(M \ {v}) /\ Cardinality(M \ {v}) = Cardinality(M) - 1
        BY <2>3, <3>1, FS_RemoveElement
      <3>3. Cardinality(M \ {v}) \in Nat
            /\ (Cardinality(M \ {v}) = 0 <=> M \ {v} = {})
        BY <3>2, FS_CardinalityType, FS_EmptySet
      <3>4. QED
        BY <3>1, <3>2, <3>3
    <2>6. refcnt[g] = 1 + (IF holder[g] = NoHart THEN 0 ELSE 1) + Cardinality(M)
      BY <2>1, <2>3 DEF FilePart, FileCounts, FileCount
    <2>7. /\ refcnt' = [refcnt EXCEPT ![g] = IF @ = 2 THEN 0 ELSE @ - 1]
          /\ offset' \in {offset, [offset EXCEPT ![g] = 0]}
          /\ refcnt[g] # 2 => offset' = offset
          /\ refcnt_lock' \in {refcnt_lock, p}
      BY <2>1, <2>2 DEF file_decref, FilePart, FileTypes
    <2>8. FileTypes'
      BY <2>1, <2>5, <2>6, <2>7, FileAssumption DEF FilePart, FileTypes
    <2>9. Locks'
      BY DEF FilePart, Locks
    <2>10. FileCounts'
      <3>1. refcnt'[g] = FileCount(g)'
        <4>1. refcnt'[g] = IF refcnt[g] = 2 THEN 0 ELSE refcnt[g] - 1
          BY <2>1, <2>7 DEF FilePart, FileTypes
        <4>2. Cardinality(M)' = Cardinality(M) - 1 /\ (M' = {} <=> Cardinality(M) = 1)
          BY <2>3, <2>5
        <4> HIDE DEF M
        <4>3. CASE holder[g] = NoHart
          <5>1. refcnt[g] = 1 + Cardinality(M)
            BY <2>5, <2>6, <4>3
          <5>2. FileCount(g)' = IF M' = {} THEN 0 ELSE 1 + Cardinality(M)'
            BY <4>3, <4>2, <2>5 DEF FileCount, M
          <5>3. QED
            BY <2>5, <4>1, <4>2, <5>1, <5>2
        <4>4. CASE holder[g] # NoHart
          <5>1. refcnt[g] = 2 + Cardinality(M)
            BY <2>5, <2>6, <4>4
          <5>2. FileCount(g)' = 2 + Cardinality(M)'
            BY <4>4, <4>2, <2>5 DEF FileCount, M
          <5>3. QED
            BY <2>5, <4>1, <4>2, <5>1, <5>2
        <4>5. QED
          BY <4>3, <4>4
      <3>2. \A f \in Files \ {g} : refcnt'[f] = FileCount(f)'
        BY <2>4, <2>7 DEF FileCount, FilePart, FileTypes, FileCounts
      <3>3. QED
        BY <3>1, <3>2 DEF FileCounts
    <2>11. ReadsAtOffset'
      <3> SUFFICES ASSUME NEW q \in Harts, pc[q].at = "read", fd[pc[q].file].open
                   PROVE  fd[pc[q].file].pos = offset'[pc[q].file]
        BY DEF ReadsAtOffset
      <3>1. pc[q].file \in Files /\ holder[pc[q].file] = q
        BY DEF FilePart, Locks
      <3>2. pc[q].file = g => refcnt[g] # 2
        BY <2>5, <2>6, <3>1, FileAssumption
      <3>3. offset'[pc[q].file] = offset[pc[q].file]
        BY <2>1, <2>7, <3>1, <3>2 DEF FilePart, FileTypes
      <3>4. QED
        BY <3>3 DEF FilePart, ReadsAtOffset
    <2>12. QED
      BY <2>8, <2>9, <2>10, <2>11 DEF FilePart
  <1>5. QED
    BY <1>3, <1>4

\* A page entry is dropped: the counts of the regions stay exact.
LEMMA ForgetRegions ==
  ASSUME VmTypes, RegionCounts, JobAt, NEW p \in Harts, NEW a \in Pages, Forget(p, a)
  PROVE  /\ vmrs' \in [Regions -> RegionRecord]
         /\ \A w \in Regions :
              /\ vmrs'[w].refcnt = vmrs[w].refcnt - (IF pte[a] = ToRegion(w) THEN 1 ELSE 0)
              /\ Kept(w)
  <1>1. CASE pte[a].kind = "region"
    <2>1. PICK v \in Regions : v = pte[a].region /\ pte[a] = ToRegion(v)
      BY <1>1, EntryIs
    <2>2. vmrs[v].refcnt >= 1
      BY <2>1, EntryKeeps
    <2>3. __vmr_decref(p, v)
      BY <1>1, <2>1 DEF Forget
    <2>4. \A w \in Regions : pte[a] = ToRegion(w) <=> w = v
      BY <2>1, EntryIs
    <2>5. QED
      BY <2>2, <2>3, <2>4, DecrefRegions DEF VmTypes
  <1>2. CASE pte[a].kind # "region"
    <2>1. vmrs' = vmrs
      BY <1>2 DEF Forget
    <2>2. \A w \in Regions : pte[a] # ToRegion(w)
      BY <1>2 DEF ToRegion
    <2>3. vmrs \in [Regions -> RegionRecord]
      BY DEF VmTypes, RegionRecord
    <2>4. QED
      BY <2>1, <2>2, <2>3 DEF Kept, RegionRecord
  <1>3. QED
    BY <1>1, <1>2

\* A page entry is dropped: the counts of the files stay exact.
LEMMA ForgetFiles ==
  ASSUME FilePart, VmTypes, RegionCounts, JobAt, NEW p \in Harts, NEW a \in Pages,
         Forget(p, a), vm_lock # NoHart,
         UNCHANGED <<fd, file_lock, pc, holder, vm_lock>>
  PROVE  FilePart'
  <1>1. CASE pte[a].kind = "region"
    <2>1. PICK v \in Regions : v = pte[a].region /\ pte[a] = ToRegion(v)
      BY <1>1, EntryIs
    <2>2. vmrs[v].refcnt >= 1
      BY <2>1, EntryKeeps
    <2>3. __vmr_decref(p, v)
      BY <1>1, <2>1 DEF Forget
    <2>4. QED
      BY <2>2, <2>3, DecrefFiles
  <1>2. CASE pte[a].kind # "region"
    <2>1. UNCHANGED <<vmrs, refcnt, offset, refcnt_lock>>
      BY <1>2 DEF Forget
    <2>2. FileTypes' /\ Locks' /\ ReadsAtOffset'
      BY <2>1 DEF FilePart, FileTypes, Locks, ReadsAtOffset
    <2>3. FileCounts'
      BY <2>1 DEF FilePart, FileCounts, FileCount, Mapped
    <2>4. QED
      BY <2>2, <2>3 DEF FilePart
  <1>3. QED
    BY <1>1, <1>2

\* The file to close is one of the table's.
LEMMA ToCloseType ==
  ASSUME VmTypes, NEW v \in Regions
  PROVE  ToClose(v) \in Files \cup {NoFile}
  BY DEF VmTypes, ToClose

\* What dropping an entry leaves has the types it had.
LEMMA ForgottenType ==
  ASSUME VmTypes, NEW a \in Pages
  PROVE  Forgotten(a) \in Files \cup {NoFile}
  BY EntryIs, ToCloseType DEF Forgotten

-----------------------------------------------------------------------------
(* Mapping over a page, and unmapping it.                                  *)

\* An entry e, and what was asked for, x, replace those of the page job.at.
Replaced(p, e, x) ==
  /\ job.op \in {"map", "unmap"} /\ job.at < job.end
  /\ Forget(p, job.at)
  /\ pte' = [pte EXCEPT ![job.at] = e]
  /\ mem' = [mem EXCEPT ![job.at] = Old]
  /\ asked' = [asked EXCEPT ![job.at] = x]
  /\ job' = [job EXCEPT !.at = @ + 1, !.closing = Forgotten(job.at)]
  /\ job.op = "map" =>
       /\ e = ToRegion(job.region)
       /\ x = [by |-> job.by, part |-> Part(vmrs[job.region], job.at),
               prot |-> vmrs[job.region].prot]
  /\ job.op = "unmap" => e = NoEntry /\ x = NotAsked
  /\ UNCHANGED <<brk, brk_max, vm_lock, want>>

\* A job moves on by a page whose entry it replaces.
LEMMA ReplacePage ==
  ASSUME VmPart, NEW p \in Harts, NEW e, NEW x, Replaced(p, e, x)
  PROVE  VmPart'
  <1> DEFINE r == job.region
  <1> PICK a : a = job.at
    OBVIOUS
  <1> USE DEF Replaced
  <1>1. /\ a \in Pages /\ a >= KernelPages /\ a < job.end /\ job.end <= Top
        /\ job.from <= a /\ job.from \in Nat /\ job.end \in Nat
    BY AtPage DEF VmPart
  <1>2. /\ job'.op = job.op /\ job'.by = job.by /\ job'.at = a + 1
        /\ job'.from = job.from /\ job'.end = job.end /\ job'.region = r
        /\ job'.prot = job.prot /\ job'.populate = job.populate
        /\ job'.closing = Forgotten(a)
    BY DEF VmPart, VmTypes
  <1>3. job.op = "map" => r \in Regions /\ e = ToRegion(r)
    BY DEF VmPart, VmTypes, JobAt
  <1>4. job.op = "unmap" => r = NoRegion /\ e = NoEntry
    BY DEF VmPart, VmTypes, JobAt
  <1>5. e \in Entries /\ (e.kind = "region" <=> e.region # NoRegion)
        /\ e.prot = {} /\ e.kind \in {"none", "region"}
    BY <1>3, <1>4, VmAssumption DEF Entries, ToRegion, NoEntry, Rights
  <1>6. /\ pte'[a] = e /\ mem'[a] = Old /\ asked'[a] = x
        /\ \A b \in Pages \ {a} :
             pte'[b] = pte[b] /\ mem'[b] = mem[b] /\ asked'[b] = asked[b]
    BY <1>1 DEF VmPart, VmTypes
  <1>7. /\ vmrs' \in [Regions -> RegionRecord]
        /\ \A w \in Regions :
             /\ vmrs'[w].refcnt = vmrs[w].refcnt - (IF pte[a] = ToRegion(w) THEN 1 ELSE 0)
             /\ Kept(w)
    BY <1>1, ForgetRegions DEF VmPart
  <1>8. /\ x.by \in {"none", "mmap", "brk"} /\ x.part \in Filled /\ x.prot \in SUBSET Rights
        /\ x = [by |-> x.by, part |-> x.part, prot |-> x.prot]
    <2>1. CASE job.op = "map"
      <3> PICK y : y = vmrs[r]
        OBVIOUS
      <3>1. y \in RegionRecord
        BY <1>3, <2>1 DEF VmPart, VmTypes, RegionRecord
      <3>2. y.offset + (a - y.addr) \in Nat
        <4>1. y.addr <= job.from
          BY <2>1 DEF VmPart, ContentsInv
        <4>2. y.offset \in Nat /\ y.addr \in Nat
          BY <3>1 DEF RegionRecord
        <4>3. QED
          BY <1>1, <4>1, <4>2 DEF Pages
      <3>3. Part(y, a) \in Filled
        BY <3>1, <3>2 DEF Part, PartOf, Zeroes, Filled, RegionRecord
      <3>4. job.by \in {"none", "mmap", "brk"} /\ y.prot \in SUBSET Rights
        BY <3>1 DEF VmPart, VmTypes, RegionRecord
      <3>5. x = [by |-> job.by, part |-> Part(y, a), prot |-> y.prot]
        BY <2>1
      <3> HIDE DEF RegionRecord
      <3>6. QED
        BY <3>3, <3>4, <3>5
    <2>2. CASE job.op = "unmap"
      BY <2>2 DEF NotAsked, Zeroes, Filled, Rights
    <2>3. QED
      BY <2>1, <2>2
  <1>9. VmTypes'
    <2>1. pte' \in [Pages -> Entries]
      BY <1>5 DEF VmPart, VmTypes
    <2>2. mem' \in [Pages -> Contents]
      <3>1. Old \in Contents
        BY DEF Contents, Old
      <3>2. QED
        BY <3>1 DEF VmPart, VmTypes
    <2>3. asked' \in [Pages -> [by : {"none", "boot", "mmap", "brk"}, part : Filled,
                                prot : SUBSET Rights]]
      BY <1>8 DEF VmPart, VmTypes
    <2>4. job' \in [op : Ops, by : {"none", "mmap", "brk"}, at : Nat, from : Nat,
                    end : 0 .. Top, region : Regions \cup {NoRegion}, populate : BOOLEAN,
                    prot : SUBSET Rights, closing : Files \cup {NoFile}]
      <3>1. Forgotten(job.at) \in Files \cup {NoFile} /\ job.at + 1 \in Nat
        BY <1>1, ForgottenType DEF VmPart, VmTypes
      <3> HIDE DEF r
      <3>2. QED
        BY <3>1 DEF VmPart, VmTypes
    <2>5. /\ \A b \in Pages : pte'[b].kind = "region" <=> pte'[b].region # NoRegion
          /\ \A b \in Pages : pte'[b].kind \in {"none", "region", "kernel"} => pte'[b].prot = {}
      BY <1>5, <1>6 DEF VmPart, VmTypes
    <2>6. QED
      BY <1>7, <2>1, <2>2, <2>3, <2>4, <2>5 DEF VmPart, VmTypes, RegionRecord
  <1>10. JobAt'
    <2>1. job.op = "map" => \A i \in job.from .. a : pte'[i] = ToRegion(r)
      <3> SUFFICES ASSUME job.op = "map", NEW i \in job.from .. a
                   PROVE  pte'[i] = ToRegion(r)
        OBVIOUS
      <3>1. CASE i = a
        BY <1>3, <1>6, <3>1
      <3>2. CASE i # a
        BY <1>1, <1>6, <3>2, VmAssumption DEF VmPart, JobAt, Pages
      <3>3. QED
        BY <3>1, <3>2
    <2>2. a + 1 - 1 = a /\ a + 1 <= job.end /\ job.from <= a + 1
      BY <1>1 DEF Pages
    <2>3. job'.op = "map" => \A i \in job'.from .. job'.at - 1 : pte'[i] = ToRegion(job'.region)
      <3>1. a \in Int /\ job'.at = a + 1
        BY <1>1, <1>2 DEF Pages
      <3>2. job'.at - 1 = a
        BY <3>1
      <3>3. job'.from = job.from /\ job'.region = r /\ job'.op = job.op
        BY <1>2
      <3>4. QED
        BY <2>1, <3>2, <3>3, Zenon
    <2>4. job'.op \in {"map", "unmap"}
      BY <1>2
    <2>5. job'.op \in {"map", "read", "drop"} <=> job'.region # NoRegion
      BY <1>2 DEF VmPart, JobAt
    <2>6. KernelPages <= job'.from /\ job'.from <= job'.at /\ job'.at <= job'.end
      BY <1>1, <1>2, <2>2 DEF VmPart, JobAt
    <2>7. QED
      BY <2>3, <2>4, <2>5, <2>6 DEF JobAt, Halfway
  <1>11. RegionCounts'
    <2> SUFFICES ASSUME NEW w \in Regions
                 PROVE  vmrs'[w].refcnt = Cardinality(Untouched(w)') + InHand(w)'
      BY DEF RegionCounts
    <2>1. /\ Cardinality(Untouched(w)) \in Nat
          /\ Cardinality(Untouched(w)') = Cardinality(Untouched(w))
               - (IF pte[a] = ToRegion(w) THEN 1 ELSE 0)
               + (IF e = ToRegion(w) THEN 1 ELSE 0)
      BY <1>1, EntryCounts DEF VmPart
    <2>2. vmrs[w].refcnt = Cardinality(Untouched(w)) + InHand(w)
      BY DEF VmPart, RegionCounts
    <2>3. e = ToRegion(w) <=> job.op = "map" /\ w = r
      BY <1>3, <1>4 DEF NoEntry, ToRegion
    <2>4. InHand(w) = (IF job.op = "map" /\ w = r THEN job.end - a ELSE 0)
      BY <1>4 DEF InHand
    <2>5. InHand(w)' = (IF job.op = "map" /\ w = r THEN job.end - (a + 1) ELSE 0)
      BY <1>2, <1>4 DEF InHand
    <2>6. vmrs'[w].refcnt = vmrs[w].refcnt - (IF pte[a] = ToRegion(w) THEN 1 ELSE 0)
      BY <1>7
    <2>7. InHand(w)' = InHand(w) - (IF e = ToRegion(w) THEN 1 ELSE 0) /\ InHand(w) \in Int
      BY <1>1, <2>3, <2>4, <2>5 DEF Pages
    <2>8. QED
      BY <2>1, <2>2, <2>6, <2>7
  <1>12. ASSUME NEW b \in Pages, NEW w \in Regions, pte'[b] = ToRegion(w)
         PROVE  /\ vmrs'[w].file = vmrs[w].file /\ vmrs'[w].addr = vmrs[w].addr
                /\ vmrs'[w].offset = vmrs[w].offset /\ vmrs'[w].prot = vmrs[w].prot
    BY <1>7, <1>9, <1>10, <1>11, <1>12, EntryKeepsNext DEF Kept
  <1>13. ContentsInv' /\ ContentsAsAsked'
    <2>1. \A b \in Pages : b >= KernelPages => pte'[b].kind # "kernel"
      BY <1>5, <1>6 DEF VmPart, ContentsInv, Halfway
    <2>2. ASSUME NEW b \in Pages, pte'[b].kind = "region"
          PROVE  asked'[b].part = Part(vmrs'[pte'[b].region], b)
      <3>1. CASE b = a
        <4>1. job.op = "map" /\ pte'[b] = ToRegion(r) /\ pte'[b].region = r
          <5>1. pte'[b] = e
            BY <1>6, <3>1
          <5>2. job.op # "unmap"
            BY <1>4, <2>2, <5>1 DEF NoEntry
          <5>3. QED
            BY <1>3, <5>1, <5>2 DEF ToRegion
        <4>2. asked'[b].part = Part(vmrs[r], b)
          BY <1>6, <3>1, <4>1
        <4>3. QED
          BY <1>3, <1>12, <4>1, <4>2 DEF Part
      <3>2. CASE b # a
        <4>1. pte'[b] = pte[b] /\ asked'[b] = asked[b]
          BY <1>6, <3>2
        <4>2. pte[b].region \in Regions /\ pte[b] = ToRegion(pte[b].region)
          BY <2>2, <4>1, EntryIs DEF VmPart
        <4>3. asked[b].part = Part(vmrs[pte[b].region], b)
          BY <2>2, <4>1 DEF VmPart, ContentsInv
        <4>4. QED
          BY <1>12, <4>1, <4>2, <4>3 DEF Part
      <3>3. QED
        BY <3>1, <3>2
    <2>3. \A b \in Pages : mem'[b] = Stored => pte'[b].kind = "user"
      BY <1>6 DEF VmPart, ContentsInv, Old, Stored
    <2>4. \A b \in Pages : pte'[b].kind = "user" => mem'[b] \in {Stored, asked'[b].part} \/ b < KernelPages
      <3>1. \A b \in Pages : b >= KernelPages => b \in KernelPages .. Top - 1
        BY VmAssumption DEF Pages
      <3>2. QED
        BY <1>5, <1>6, <3>1, VmAssumption DEF VmPart, ContentsAsAsked, Pages
    <2>5. ContentsAsAsked'
      BY <2>4, VmAssumption DEF ContentsAsAsked, Pages
    <2>6. job.op = "map" => vmrs'[r].addr <= job.from
      BY <1>3, <1>6, <1>12, <1>1 DEF VmPart, ContentsInv
    <2>7. ContentsInv'
      BY <1>2, <2>1, <2>2, <2>3, <2>6 DEF ContentsInv, Halfway
    <2>8. QED
      BY <2>5, <2>7
  <1>14. RightsAsAsked'
    <2> SUFFICES ASSUME NEW b \in Pages
                 PROVE  (IF pte'[b].kind = "region" THEN vmrs'[pte'[b].region].prot
                         ELSE pte'[b].prot) \cap {"W", "X"} \subseteq asked'[b].prot
      BY DEF RightsAsAsked
    <2>1. CASE b = a /\ job.op = "map"
      <3>1. pte'[b].kind = "region" /\ pte'[b].region = r /\ asked'[b].prot = vmrs[r].prot
        BY <1>3, <1>6, <2>1 DEF ToRegion
      <3>2. vmrs'[r].prot = vmrs[r].prot
        BY <1>3, <1>6, <1>12, <2>1
      <3>3. QED
        BY <3>1, <3>2
    <2>2. CASE b = a /\ job.op = "unmap"
      BY <1>4, <1>6, <2>2 DEF NoEntry
    <2>3. CASE b # a
      <3>1. pte'[b] = pte[b] /\ asked'[b] = asked[b]
        BY <1>6, <2>3
      <3>2. pte[b].kind = "region" => vmrs'[pte[b].region].prot = vmrs[pte[b].region].prot
        BY <1>12, <3>1, EntryIs DEF VmPart
      <3>3. QED
        BY <3>1, <3>2 DEF VmPart, RightsAsAsked
    <2>4. QED
      BY <2>1, <2>2, <2>3
  <1>15. RightsInv'
    BY <1>2 DEF RightsInv
  <1>16. GrowthInv'
    <2>1. ASSUME NEW b \in Pages, asked'[b].by = "mmap" PROVE brk_max <= b
      <3>1. CASE b = a
        <4>1. job.op = "map" /\ job.by = "mmap"
          BY <1>6, <2>1, <3>1 DEF NotAsked
        <4>2. brk_max <= job.from /\ brk_max \in Nat
          BY <4>1, VmAssumption DEF VmPart, VmTypes, GrowthInv
        <4>3. QED
          BY <1>1, <3>1, <4>2 DEF Pages
      <3>2. CASE b # a
        BY <1>6, <2>1, <3>2 DEF VmPart, GrowthInv
      <3>3. QED
        BY <3>1, <3>2
    <2>2. QED
      BY <1>2, <2>1 DEF VmPart, GrowthInv
  <1>17. QED
    BY <1>9, <1>10, <1>11, <1>13, <1>14, <1>15, <1>16 DEF VmPart

\* __do_mmap enters one page of a mapping.
LEMMA MapStep ==
  ASSUME FilePart, VmPart, NEW p \in Harts, MapPage(p)
  PROVE  FilePart' /\ VmPart'
  <1>1. /\ job.op = "map" /\ job.at < job.end /\ pc[p].at = "vm"
        /\ Forget(p, job.at)
        /\ pte' = [pte EXCEPT ![job.at] = ToRegion(job.region)]
        /\ mem' = [mem EXCEPT ![job.at] = Old]
        /\ asked' = [asked EXCEPT ![job.at] =
                       [by |-> job.by, part |-> Part(vmrs[job.region], job.at),
                        prot |-> vmrs[job.region].prot]]
        /\ job' = [job EXCEPT !.at = @ + 1, !.closing = Forgotten(job.at)]
        /\ UNCHANGED <<fd, file_lock, pc, holder, brk, brk_max, vm_lock, want>>
    BY DEF MapPage, Working, Busy, Part
  <1>2. vm_lock # NoHart
    BY <1>1, FileAssumption DEF FilePart, Locks
  <1>3. job.at \in Pages
    BY <1>1, AtPage DEF VmPart
  <1>4. FilePart'
    BY <1>1, <1>2, <1>3, ForgetFiles DEF VmPart
  <1>5. VmPart'
    <2>1. Replaced(p, ToRegion(job.region), [by |-> job.by, part |-> Part(vmrs[job.region], job.at),
             prot |-> vmrs[job.region].prot])
      BY <1>1 DEF Replaced
    <2>2. QED
      BY <2>1, ReplacePage
  <1>6. QED
    BY <1>4, <1>5

\* __do_munmap drops one page.
LEMMA UnmapStep ==
  ASSUME FilePart, VmPart, NEW p \in Harts, UnmapPage(p)
  PROVE  FilePart' /\ VmPart'
  <1>1. /\ job.op = "unmap" /\ job.at < job.end /\ pc[p].at = "vm"
        /\ Forget(p, job.at)
        /\ pte' = [pte EXCEPT ![job.at] = NoEntry]
        /\ mem' = [mem EXCEPT ![job.at] = Old]
        /\ asked' = [asked EXCEPT ![job.at] = NotAsked]
        /\ job' = [job EXCEPT !.at = @ + 1, !.closing = Forgotten(job.at)]
        /\ UNCHANGED <<fd, file_lock, pc, holder, brk, brk_max, vm_lock, want>>
    BY DEF UnmapPage, Working, Busy
  <1>2. vm_lock # NoHart
    BY <1>1, FileAssumption DEF FilePart, Locks
  <1>3. job.at \in Pages
    BY <1>1, AtPage DEF VmPart
  <1>4. FilePart'
    BY <1>1, <1>2, <1>3, ForgetFiles DEF VmPart
  <1>5. VmPart'
    <2>1. Replaced(p, NoEntry, NotAsked)
      BY <1>1 DEF Replaced
    <2>2. QED
      BY <2>1, ReplacePage
  <1>6. QED
    BY <1>4, <1>5

-----------------------------------------------------------------------------
(* Steps that change neither the counts of files nor the descriptors.      *)

\* Where a hart may go by itself, with vm_lock or without it.
Moves(p) ==
  /\ pc[p].at \in {"idle", "fault", "vm"}
  /\ \/ UNCHANGED pc
     \/ \E w \in {"idle", "fault", "vm", "dead"} : Go(p, w, NoFile)
  /\ \/ UNCHANGED vm_lock
     \/ vm_lock = NoHart /\ vm_lock' = p
     \/ vm_lock = p /\ vm_lock' = NoHart /\ job' = NoJob
  /\ pc'[p].at = "vm" => vm_lock' = p
  /\ vm_lock' = NoHart => job' = NoJob

\* A hart goes from one place to another, the table stays.
LEMMA FilesMove ==
  ASSUME FilePart, NEW p \in Harts, Moves(p), refcnt' \in [Files -> Nat],
         UNCHANGED <<offset, fd, refcnt_lock, file_lock, holder>>
  PROVE  FileTypes' /\ Locks' /\ ReadsAtOffset'
  <1>1. /\ \A q \in Harts \ {p} : pc'[q] = pc[q]
        /\ \/ pc'[p].at \in {"idle", "fault", "vm", "dead"} /\ pc'[p].file = NoFile
           \/ pc'[p] = pc[p]
        /\ pc' \in [Harts -> [at : Places, file : Files \cup {NoFile}]]
    <2>1. CASE UNCHANGED pc
      BY <2>1 DEF FilePart, FileTypes
    <2>2. CASE \E w \in {"idle", "fault", "vm", "dead"} : Go(p, w, NoFile)
      <3>1. PICK w \in {"idle", "fault", "vm", "dead"} :
              pc' = [pc EXCEPT ![p] = [at |-> w, file |-> NoFile]]
        BY <2>2 DEF Go
      <3>2. [at |-> w, file |-> NoFile] \in [at : Places, file : Files \cup {NoFile}]
        BY DEF Places
      <3>3. QED
        BY <3>1, <3>2 DEF FilePart, FileTypes
    <2>3. QED
      BY <2>1, <2>2 DEF Moves
  <1>2. FileTypes'
    BY <1>1 DEF FilePart, FileTypes
  <1>3. \A q \in Harts : pc'[q].at = "vm" => vm_lock' = q
    <2> SUFFICES ASSUME NEW q \in Harts, pc'[q].at = "vm" PROVE vm_lock' = q
      OBVIOUS
    <2>1. CASE q = p
      BY <2>1 DEF Moves
    <2>2. CASE q # p
      <3>1. vm_lock = q
        BY <1>1, <2>2 DEF FilePart, Locks
      <3>2. QED
        BY <2>2, <3>1, FileAssumption DEF Moves
    <2>3. QED
      BY <2>1, <2>2
  <1>4. pc[p].at \in {"idle", "fault", "vm"} /\ (vm_lock' = NoHart => job' = NoJob)
    BY DEF Moves
  <1>5. Locks'
    BY <1>1, <1>3, <1>4 DEF FilePart, Locks
  <1>6. ReadsAtOffset'
    BY <1>1, <1>4 DEF FilePart, ReadsAtOffset
  <1>7. QED
    BY <1>2, <1>5, <1>6

\* The part for the files does not see the pages.
LEMMA FilesApart ==
  ASSUME FilePart, NEW p \in Harts, Moves(p),
         UNCHANGED <<refcnt, offset, fd, refcnt_lock, file_lock, holder>>,
         \A f \in Files : Mapped(f)' = Mapped(f)
  PROVE  FilePart'
  <1>1. FileTypes' /\ Locks' /\ ReadsAtOffset'
    BY FilesMove DEF FilePart, FileTypes
  <1>2. FileCounts'
    BY DEF FilePart, FileCounts, FileCount
  <1>3. QED
    BY <1>1, <1>2 DEF FilePart

\* A step that touches none of what the memory manager's invariant relates.
LEMMA VmApart ==
  ASSUME VmPart, UNCHANGED <<pte, vmrs, brk_max, job, mem, asked>>,
         brk' \in 0 .. Top, brk' = 0 \/ brk' >= KernelPages,
         vm_lock' \in Harts \cup {NoHart}, want' \in [Harts -> Pages]
  PROVE  VmPart'
  <1>1. VmTypes' /\ JobAt'
    BY DEF VmPart, VmTypes, JobAt, Halfway
  <1>2. RegionCounts'
    BY DEF VmPart, RegionCounts, Untouched, InHand
  <1>3. ContentsInv' /\ ContentsAsAsked'
    BY DEF VmPart, ContentsInv, ContentsAsAsked, Halfway
  <1>4. RightsInv' /\ RightsAsAsked' /\ GrowthInv'
    BY DEF VmPart, RightsInv, RightsAsAsked, GrowthInv
  <1>5. QED
    BY <1>1, <1>2, <1>3, <1>4 DEF VmPart

JobType == [op : Ops, by : {"none", "mmap", "brk"}, at : Nat, from : Nat, end : 0 .. Top,
            region : Regions \cup {NoRegion}, populate : BOOLEAN,
            prot : SUBSET Rights, closing : Files \cup {NoFile}]

\* A job that holds no region begins or ends.
LEMMA JobChanges ==
  ASSUME VmPart, UNCHANGED <<pte, vmrs, brk_max, mem, asked>>,
         brk' \in 0 .. Top, brk' = 0 \/ brk' >= KernelPages,
         vm_lock' \in Harts \cup {NoHart}, want' \in [Harts -> Pages],
         \A v \in Regions : InHand(v) = 0, ~ Halfway,
         job' \in JobType, job'.op \in {"none", "unmap", "fill"}, job'.region = NoRegion,
         job'.op # "none" => KernelPages <= job'.from /\ job'.from <= job'.at
                             /\ job'.at <= job'.end,
         job'.op = "fill" => \A i \in job'.at .. job'.end - 1 : pte[i].kind = "region"
  PROVE  VmPart'
  <1>1. VmTypes'
    BY DEF VmPart, VmTypes, JobType
  <1>2. JobAt'
    BY DEF JobAt, Halfway
  <1>3. RegionCounts'
    <2> SUFFICES ASSUME NEW v \in Regions
                 PROVE  vmrs[v].refcnt = Cardinality(Untouched(v)') + InHand(v)'
      BY DEF RegionCounts
    <2>1. InHand(v)' = 0
      BY VmAssumption DEF InHand
    <2>2. Untouched(v)' = Untouched(v)
      BY DEF Untouched
    <2>3. QED
      BY <2>1, <2>2 DEF VmPart, RegionCounts
  <1>4. ContentsInv' /\ ContentsAsAsked'
    BY DEF VmPart, ContentsInv, ContentsAsAsked, Halfway
  <1>5. RightsInv' /\ RightsAsAsked' /\ GrowthInv'
    BY DEF VmPart, RightsInv, RightsAsAsked, GrowthInv
  <1>6. QED
    BY <1>1, <1>2, <1>3, <1>4, <1>5 DEF VmPart

\* While nobody has vm_lock there is no job.
LEMMA NoJobUnlocked ==
  ASSUME FilePart, vm_lock = NoHart
  PROVE  job = NoJob /\ (\A v \in Regions : InHand(v) = 0) /\ ~ Halfway
  <1>1. job = NoJob
    BY DEF FilePart, Locks
  <1>2. job.op = "none" /\ job.region = NoRegion
    BY <1>1 DEF NoJob
  <1>3. QED
    BY <1>1, <1>2, VmAssumption DEF InHand, Halfway

\* A call of do_munmap, up to its first page.
LEMMA MunmapCallStep ==
  ASSUME FilePart, VmPart, NEW p \in Harts, do_munmap(p)
  PROVE  FilePart' /\ VmPart'
  <1> PICK n \in 1 .. Top, a \in Pages :
        /\ __valid_user_range(a, n)
        /\ job' = [NoJob EXCEPT !.op = "unmap", !.at = a, !.from = a, !.end = a + n]
    BY DEF do_munmap
  <1>1. /\ pc[p].at = "idle" /\ vm_lock = NoHart /\ vm_lock' = p /\ Go(p, "vm", NoFile)
        /\ UNCHANGED <<table, file_lock, pte, vmrs, brk, brk_max, want, mem, asked>>
    BY DEF do_munmap, Call, Lock, Idle
  <1>2. a \in Nat /\ n \in Nat /\ KernelPages <= a /\ a + n <= Top /\ a <= a + n
    BY VmAssumption DEF __valid_user_range, Pages
  <1>3. /\ job' \in JobType /\ job'.op = "unmap" /\ job'.region = NoRegion
        /\ job'.at = a /\ job'.from = a /\ job'.end = a + n
    <2>1. a + n \in 0 .. Top
      BY <1>2, VmAssumption
    <2>2. QED
      BY <1>2, <2>1 DEF JobType, NoJob, Ops
  <1>4. Moves(p)
    <2>1. pc'[p].at = "vm" => vm_lock' = p
      BY <1>1
    <2>2. vm_lock' # NoHart
      BY <1>1, FileAssumption
    <2>3. QED
      BY <1>1, <2>1, <2>2 DEF Moves
  <1>5. FilePart'
    <2>1. \A f \in Files : Mapped(f)' = Mapped(f)
      BY <1>1 DEF Mapped
    <2>2. QED
      BY <1>1, <1>4, <2>1, FilesApart DEF table
  <1>6. VmPart'
    <2>1. brk' \in 0 .. Top /\ (brk' = 0 \/ brk' >= KernelPages)
          /\ want' \in [Harts -> Pages] /\ vm_lock' \in Harts \cup {NoHart}
      BY <1>1 DEF VmPart, VmTypes
    <2>2. KernelPages <= job'.from /\ job'.from <= job'.at /\ job'.at <= job'.end
      BY <1>2, <1>3
    <2>3. (\A v \in Regions : InHand(v) = 0) /\ ~ Halfway
      BY <1>1, NoJobUnlocked
    <2>4. QED
      BY <1>1, <1>3, <2>1, <2>2, <2>3, JobChanges
  <1>7. QED
    BY <1>5, <1>6

\* A hart faults and waits for vm_lock.
LEMMA PageFaultStep ==
  ASSUME FilePart, VmPart, NEW p \in Harts, PageFault(p)
  PROVE  FilePart' /\ VmPart'
  <1> PICK a \in KernelPages .. Top - 1 : want' = [want EXCEPT ![p] = a]
    BY DEF PageFault
  <1>1. /\ pc[p].at = "idle" /\ Go(p, "fault", NoFile)
        /\ UNCHANGED <<table, file_lock, pte, vmrs, brk, brk_max, vm_lock, job, mem, asked>>
    BY DEF PageFault, Idle
  <1>2. Moves(p)
    <2>1. pc'[p].at = "fault"
      BY <1>1 DEF Go, FilePart, FileTypes
    <2>2. vm_lock' = NoHart => job' = NoJob
      BY <1>1 DEF FilePart, Locks
    <2>3. QED
      BY <1>1, <2>1, <2>2 DEF Moves
  <1>3. FilePart'
    <2>1. \A f \in Files : Mapped(f)' = Mapped(f)
      BY <1>1 DEF Mapped
    <2>2. QED
      BY <1>1, <1>2, <2>1, FilesApart DEF table
  <1>4. VmPart'
    <2>1. a \in Pages
      BY VmAssumption DEF Pages
    <2>2. /\ brk' \in 0 .. Top /\ (brk' = 0 \/ brk' >= KernelPages)
          /\ want' \in [Harts -> Pages] /\ vm_lock' \in Harts \cup {NoHart}
      BY <1>1, <2>1 DEF VmPart, VmTypes
    <2>3. QED
      BY <1>1, <2>2, VmApart
  <1>5. QED
    BY <1>3, <1>4

\* handle_page_fault has vm_lock and looks at the page again.
LEMMA HandleStep ==
  ASSUME FilePart, VmPart, NEW p \in Harts, handle_page_fault(p)
  PROVE  FilePart' /\ VmPart'
  <1> PICK a : a = want[p]
    OBVIOUS
  <1>1. /\ pc[p].at = "fault" /\ vm_lock = NoHart
        /\ want' = [want EXCEPT ![p] = 0]
        /\ UNCHANGED <<table, file_lock, pte, vmrs, brk, brk_max, mem, asked>>
    BY DEF handle_page_fault
  <1>2. a \in Pages /\ 0 \in Pages
    BY VmAssumption DEF VmPart, VmTypes, Pages
  <1>3. /\ brk' \in 0 .. Top /\ (brk' = 0 \/ brk' >= KernelPages)
        /\ want' \in [Harts -> Pages]
    BY <1>1, <1>2 DEF VmPart, VmTypes
  <1>4. \A f \in Files : Mapped(f)' = Mapped(f)
    BY <1>1 DEF Mapped
  <1>5. job = NoJob /\ (\A v \in Regions : InHand(v) = 0) /\ ~ Halfway
    BY <1>1, NoJobUnlocked
  <1>6. CASE pte[a].kind = "region" /\ __valid_user_range(a, 1)
    <2>1. /\ vm_lock' = p /\ Go(p, "vm", NoFile)
          /\ job' = [NoJob EXCEPT !.op = "fill", !.at = a, !.from = a, !.end = a + 1]
      BY <1>6 DEF handle_page_fault
    <2>2. Moves(p)
      BY <1>1, <2>1, FileAssumption DEF Moves
    <2>3. a \in Nat /\ a + 1 \in 0 .. Top /\ KernelPages <= a /\ a <= a + 1
      BY <1>2, <1>6, VmAssumption DEF __valid_user_range, Pages
    <2>4. /\ job' \in JobType /\ job'.op = "fill" /\ job'.region = NoRegion
          /\ job'.at = a /\ job'.from = a /\ job'.end = a + 1
      BY <2>1, <2>3 DEF JobType, NoJob, Ops
    <2>5. \A i \in job'.at .. job'.end - 1 : pte[i].kind = "region"
      BY <1>6, <2>3, <2>4
    <2>6. KernelPages <= job'.from /\ job'.from <= job'.at /\ job'.at <= job'.end
      BY <2>3, <2>4
    <2>7. vm_lock' \in Harts \cup {NoHart}
      BY <2>1
    <2>8. VmPart'
      BY <1>1, <1>3, <1>5, <2>4, <2>5, <2>6, <2>7, JobChanges
    <2>9. QED
      BY <1>1, <1>4, <2>2, <2>8, FilesApart DEF table
  <1>7. CASE ~ (pte[a].kind = "region" /\ __valid_user_range(a, 1))
    <2>1. Return(p) /\ UNCHANGED <<vm_lock, job>>
      BY <1>7 DEF handle_page_fault
    <2>2. pc'[p].at = "idle"
      BY <2>1 DEF Return, Go, FilePart, FileTypes
    <2>3. Moves(p)
      BY <1>1, <1>5, <2>1, <2>2 DEF Moves, Return
    <2>4. VmPart'
      <3>1. vm_lock' \in Harts \cup {NoHart}
        BY <1>1, <2>1
      <3>2. QED
        BY <1>1, <1>3, <2>1, <3>1, VmApart
    <2>5. QED
      BY <1>1, <1>4, <2>3, <2>4, FilesApart DEF table
  <1>8. QED
    BY <1>6, <1>7

\* A job ends and vm_lock is free.
LEMMA FinishStep ==
  ASSUME FilePart, VmPart, NEW p \in Harts, Finish(p)
  PROVE  FilePart' /\ VmPart'
  <1>1. /\ pc[p].at = "vm" /\ job.op \in {"map", "unmap", "fill"} /\ job.closing = NoFile
        /\ job.at = job.end
        /\ UNCHANGED <<table, file_lock, pte, vmrs, brk, brk_max, want, mem, asked>>
    BY DEF Finish, Busy
  <1>2. vm_lock = p
    BY <1>1 DEF FilePart, Locks
  <1>3. /\ brk' \in 0 .. Top /\ (brk' = 0 \/ brk' >= KernelPages)
        /\ want' \in [Harts -> Pages]
    BY <1>1 DEF VmPart, VmTypes
  <1>4. \A f \in Files : Mapped(f)' = Mapped(f)
    BY <1>1 DEF Mapped
  <1>5. (\A v \in Regions : InHand(v) = 0) /\ ~ Halfway
    <2>1. job.op = "map" => job.end - job.at = 0
      BY <1>1, VmAssumption DEF VmPart, VmTypes
    <2>2. QED
      BY <1>1, <2>1 DEF InHand, Halfway
  <1>6. CASE job.op = "map" /\ job.populate
    <2>1. /\ job' = [job EXCEPT !.op = "fill", !.at = job.from, !.region = NoRegion]
          /\ UNCHANGED <<vm_lock, pc>>
      BY <1>6 DEF Finish
    <2>2. Moves(p)
      BY <1>1, <1>2, <2>1, FileAssumption DEF Moves
    <2>3. /\ job' \in JobType /\ job'.op = "fill" /\ job'.region = NoRegion
          /\ job'.at = job.from /\ job'.from = job.from /\ job'.end = job.end
      <3>1. job \in JobType
        BY DEF VmPart, VmTypes, JobType
      <3>2. QED
        BY <2>1, <3>1 DEF JobType, Ops
    <2>4. /\ KernelPages <= job.from /\ job.from <= job.end
          /\ \A i \in job.from .. job.end - 1 : pte[i] = ToRegion(job.region)
      BY <1>1, <1>6 DEF VmPart, JobAt
    <2>5. \A i \in job'.at .. job'.end - 1 : pte[i].kind = "region"
      BY <2>3, <2>4 DEF ToRegion
    <2>6. KernelPages <= job'.from /\ job'.from <= job'.at /\ job'.at <= job'.end
      <3>1. job.from <= job.from
        BY DEF VmPart, VmTypes
      <3>2. QED
        BY <2>3, <2>4, <3>1
    <2>7. vm_lock' \in Harts \cup {NoHart}
      BY <1>2, <2>1
    <2>8. VmPart'
      BY <1>1, <1>3, <1>5, <2>3, <2>5, <2>6, <2>7, JobChanges
    <2>9. QED
      BY <1>1, <1>4, <2>2, <2>8, FilesApart DEF table
  <1>7. CASE ~ (job.op = "map" /\ job.populate)
    <2>1. job' = NoJob /\ vm_lock' = NoHart /\ Return(p)
      BY <1>7 DEF Finish
    <2>2. pc'[p].at = "idle"
      BY <2>1 DEF Return, Go, FilePart, FileTypes
    <2>3. Moves(p)
      BY <1>1, <1>2, <2>1, <2>2 DEF Moves, Return
    <2>4. job' \in JobType /\ job'.op = "none" /\ job'.region = NoRegion
      BY <2>1, VmAssumption DEF JobType, NoJob, Ops
    <2>5. VmPart'
      BY <1>1, <1>3, <1>5, <2>1, <2>4, JobChanges
    <2>6. QED
      BY <1>1, <1>4, <2>3, <2>5, FilesApart DEF table
  <1>8. QED
    BY <1>6, <1>7

\* The program stores to a page it may write.
LEMMA StoreStep ==
  ASSUME FilePart, VmPart, NEW p \in Harts, Store(p)
  PROVE  FilePart' /\ VmPart'
  <1> PICK a \in Pages : "W" \in pte[a].prot /\ mem' = [mem EXCEPT ![a] = Stored]
    BY DEF Store
  <1>1. pc[p].at = "idle"
        /\ UNCHANGED <<fileVars, pte, vmrs, brk, brk_max, vm_lock, job, want, asked>>
    BY DEF Store, Idle
  <1>2. pte[a].kind = "user"
    <2>1. pte[a].kind \in {"none", "region", "kernel", "user"}
      BY DEF VmPart, VmTypes, Entries
    <2>2. QED
      BY <2>1 DEF VmPart, VmTypes
  <1>3. mem'[a] = Stored /\ \A b \in Pages \ {a} : mem'[b] = mem[b]
    BY DEF VmPart, VmTypes
  <1>4. FilePart'
    <2>1. \A f \in Files : Mapped(f)' = Mapped(f)
      BY <1>1 DEF Mapped
    <2>2. Moves(p)
      BY <1>1 DEF Moves, FilePart, Locks, fileVars
    <2>3. QED
      BY <1>1, <2>1, <2>2, FilesApart DEF fileVars, table
  <1>5. VmTypes'
    <2>1. Stored \in Contents
      BY DEF Contents, Stored
    <2>2. mem' \in [Pages -> Contents]
      BY <2>1 DEF VmPart, VmTypes
    <2>3. QED
      BY <1>1, <2>2 DEF VmPart, VmTypes
  <1>6. JobAt' /\ RegionCounts'
    BY <1>1 DEF VmPart, JobAt, Halfway, RegionCounts, Untouched, InHand
  <1>7. ContentsInv'
    <2>1. Halfway => pte[job.at].kind = "kernel" /\ job.at # a
      BY <1>2 DEF VmPart, JobAt, KernelEntry
    <2>2. job.op \in {"drop", "install"} => mem'[job.at] = mem[job.at]
      <3>1. job.op \in {"drop", "install"} => job.at \in Pages
        BY VmAssumption DEF VmPart, VmTypes, JobAt, Pages, Halfway
      <3>2. QED
        BY <1>3, <2>1, <3>1 DEF Halfway
    <2>3. \A b \in Pages : mem'[b] = Stored => pte[b].kind = "user"
      BY <1>2, <1>3 DEF VmPart, ContentsInv
    <2>4. QED
      BY <1>1, <2>2, <2>3 DEF VmPart, ContentsInv, Halfway
  <1>8. ContentsAsAsked'
    BY <1>1, <1>3, VmAssumption DEF VmPart, ContentsAsAsked, Pages
  <1>9. RightsInv' /\ RightsAsAsked' /\ GrowthInv'
    BY <1>1 DEF VmPart, RightsInv, RightsAsAsked, GrowthInv
  <1>10. QED
    BY <1>4, <1>5, <1>6, <1>7, <1>8, <1>9 DEF VmPart

-----------------------------------------------------------------------------
(* Filling a page.                                                         *)

\* __handle_page_fault puts the kernel's entry on a page.
LEMMA FillStep ==
  ASSUME FilePart, VmPart, NEW p \in Harts, FillPage(p)
  PROVE  FilePart' /\ VmPart'
  <1> PICK a : a = job.at
    OBVIOUS
  <1>1. /\ pc[p].at = "vm" /\ job.op = "fill" /\ job.at < job.end /\ job.closing = NoFile
        /\ job' = [job EXCEPT !.op = "read", !.region = pte[a].region]
        /\ pte' = [pte EXCEPT ![a] = KernelEntry]
        /\ UNCHANGED <<fileVars, vmrs, brk, brk_max, vm_lock, want, mem, asked>>
    BY DEF FillPage, Working, Busy
  <1>2. /\ a \in Pages /\ a >= KernelPages /\ a < job.end /\ job.end <= Top
        /\ job.from <= a /\ a \in Nat /\ job.end \in Nat /\ Top \in Nat
    BY <1>1, AtPage DEF VmPart
  <1>3. pte[a].kind = "region"
    <2>1. a \in job.at .. job.end - 1
      BY <1>2
    <2>2. QED
      BY <1>1, <2>1 DEF VmPart, JobAt
  <1>4. PICK r \in Regions : r = pte[a].region /\ pte[a] = ToRegion(r)
    BY <1>2, <1>3, EntryIs DEF VmPart
  <1>5. /\ job'.op = "read" /\ job'.region = r /\ job'.at = a /\ job'.from = job.from
        /\ job'.end = job.end /\ job'.by = job.by /\ job' \in JobType
    <2>1. job \in JobType
      BY DEF VmPart, VmTypes, JobType
    <2>2. QED
      BY <1>1, <1>4, <2>1 DEF JobType, Ops
  <1>6. pte'[a] = KernelEntry /\ \A b \in Pages \ {a} : pte'[b] = pte[b]
    BY <1>1, <1>2 DEF VmPart, VmTypes
  <1>7. job.region = NoRegion
    BY <1>1 DEF VmPart, JobAt
  <1>8. FilePart'
    <2>1. \A f \in Files : Mapped(f)' = Mapped(f)
      BY <1>1 DEF Mapped
    <2>2. vm_lock = p
      BY <1>1 DEF FilePart, Locks
    <2>3. Moves(p)
      BY <1>1, <2>2, FileAssumption DEF Moves, fileVars
    <2>4. QED
      BY <1>1, <2>1, <2>3, FilesApart DEF fileVars, table
  <1>9. VmTypes'
    <2>1. KernelEntry \in Entries /\ KernelEntry.kind = "kernel"
          /\ KernelEntry.region = NoRegion /\ KernelEntry.prot = {}
      BY DEF KernelEntry, Entries, Rights
    <2>2. pte' \in [Pages -> Entries]
      BY <1>1, <2>1 DEF VmPart, VmTypes
    <2>3. /\ \A b \in Pages : pte'[b].kind = "region" <=> pte'[b].region # NoRegion
          /\ \A b \in Pages : pte'[b].kind \in {"none", "region", "kernel"} => pte'[b].prot = {}
      <3> SUFFICES ASSUME NEW b \in Pages
                   PROVE  /\ pte'[b].kind = "region" <=> pte'[b].region # NoRegion
                          /\ pte'[b].kind \in {"none", "region", "kernel"} => pte'[b].prot = {}
        OBVIOUS
      <3>1. CASE b = a
        BY <1>6, <2>1, <3>1
      <3>2. CASE b # a
        BY <1>6, <3>2 DEF VmPart, VmTypes
      <3>3. QED
        BY <3>1, <3>2
    <2>4. QED
      BY <1>1, <1>5, <2>2, <2>3 DEF VmPart, VmTypes, JobType
  <1>10. JobAt'
    <2>1. \A i \in a + 1 .. job.end - 1 : pte'[i].kind = "region"
      <3> SUFFICES ASSUME NEW i \in a + 1 .. job.end - 1 PROVE pte'[i].kind = "region"
        OBVIOUS
      <3>1. i \in Pages \ {a} /\ i \in a .. job.end - 1
        <4>1. i \in Int /\ a < i /\ i < job.end
          BY <1>2
        <4>2. QED
          BY <1>2, <4>1 DEF Pages
      <3>2. QED
        BY <1>1, <1>6, <3>1 DEF VmPart, JobAt
    <2>2. KernelPages <= job.from /\ job.from <= job.at /\ job.at <= job.end
      BY <1>1 DEF VmPart, JobAt
    <2>3. QED
      <3>1. job'.region # NoRegion /\ pte'[job'.at] = KernelEntry
        BY <1>4, <1>5, <1>6, VmAssumption
      <3>2. \A i \in job'.at + 1 .. job'.end - 1 : pte'[i].kind = "region"
        BY <1>5, <2>1
      <3>3. /\ KernelPages <= job'.from /\ job'.from <= job'.at /\ job'.at < job'.end
            /\ job'.at <= job'.end
        BY <1>2, <1>5, <2>2
      <3>4. QED
        BY <1>5, <3>1, <3>2, <3>3 DEF JobAt, Halfway
  <1>11. RegionCounts'
    <2> SUFFICES ASSUME NEW w \in Regions
                 PROVE  vmrs[w].refcnt = Cardinality(Untouched(w)') + InHand(w)'
      BY <1>1 DEF RegionCounts
    <2>1. /\ Cardinality(Untouched(w)) \in Nat
          /\ Cardinality(Untouched(w)') = Cardinality(Untouched(w))
               - (IF pte[a] = ToRegion(w) THEN 1 ELSE 0)
               + (IF KernelEntry = ToRegion(w) THEN 1 ELSE 0)
      BY <1>1, <1>2, EntryCounts DEF VmPart
    <2>2. KernelEntry # ToRegion(w)
      BY DEF KernelEntry, ToRegion
    <2>3. pte[a] = ToRegion(w) <=> w = r
      BY <1>2, <1>4, EntryIs DEF VmPart
    <2>4. InHand(w)' = (IF w = r THEN 1 ELSE 0)
      BY <1>5 DEF InHand
    <2>5. InHand(w) = 0
      BY <1>7, VmAssumption DEF InHand
    <2>6. vmrs[w].refcnt = Cardinality(Untouched(w)) + InHand(w)
      BY DEF VmPart, RegionCounts
    <2>7. QED
      BY <2>1, <2>2, <2>3, <2>4, <2>5, <2>6
  <1>12. ContentsInv'
    <2>1. \A b \in Pages : b >= KernelPages /\ pte'[b].kind = "kernel" => b = a
      BY <1>1, <1>6 DEF VmPart, ContentsInv, Halfway
    <2>2. \A b \in Pages : pte'[b].kind = "region" => b # a
      BY <1>6 DEF KernelEntry
    <2>3. asked[a].part = Part(vmrs[r], a)
      BY <1>2, <1>3, <1>4 DEF VmPart, ContentsInv
    <2>4. \A b \in Pages : mem[b] = Stored => b # a
      BY <1>3 DEF VmPart, ContentsInv
    <2>5. QED
      BY <1>1, <1>5, <1>6, <2>1, <2>2, <2>3, <2>4 DEF VmPart, ContentsInv, Halfway
  <1>13. ContentsAsAsked'
    BY <1>1, <1>6, VmAssumption DEF VmPart, ContentsAsAsked, Pages, KernelEntry
  <1>14. RightsInv' /\ RightsAsAsked'
    <2>1. vmrs[r].prot \cap {"W", "X"} \subseteq asked[a].prot
      BY <1>2, <1>3, <1>4 DEF VmPart, RightsAsAsked
    <2>2. RightsInv'
      BY <1>1, <1>5, <2>1 DEF RightsInv
    <2>3. RightsAsAsked'
      BY <1>1, <1>6 DEF VmPart, RightsAsAsked, KernelEntry
    <2>4. QED
      BY <2>2, <2>3
  <1>15. GrowthInv'
    BY <1>1, <1>5 DEF VmPart, GrowthInv
  <1>16. QED
    BY <1>8, <1>9, <1>10, <1>11, <1>12, <1>13, <1>14, <1>15 DEF VmPart

\* The page is filled; its own entry replaces the kernel's.
LEMMA InstallStep ==
  ASSUME FilePart, VmPart, NEW p \in Harts, InstallPage(p)
  PROVE  FilePart' /\ VmPart'
  <1> PICK a : a = job.at
    OBVIOUS
  <1> PICK e : e = pte_create(job.prot)
    OBVIOUS
  <1>1. /\ pc[p].at = "vm" /\ job.op = "install" /\ job.closing = NoFile
        /\ job' = [job EXCEPT !.op = "fill", !.at = @ + 1, !.prot = {}]
        /\ pte' = [pte EXCEPT ![a] = e]
        /\ UNCHANGED <<fileVars, vmrs, brk, brk_max, vm_lock, want, mem, asked>>
    BY DEF InstallPage, Busy
  <1>2. /\ a \in Pages /\ a >= KernelPages /\ a < job.end /\ job.end <= Top
        /\ job.from <= a /\ a \in Nat /\ job.end \in Nat /\ Top \in Nat
    BY <1>1, HalfwayPage DEF VmPart, Halfway
  <1>3. pte[a] = KernelEntry /\ job.region = NoRegion
    BY <1>1 DEF VmPart, JobAt, Halfway
  <1>4. /\ job'.op = "fill" /\ job'.region = NoRegion /\ job'.at = a + 1
        /\ job'.from = job.from /\ job'.end = job.end /\ job'.by = job.by
        /\ job' \in JobType
    <2>1. job \in JobType
      BY DEF VmPart, VmTypes, JobType
    <2>2. /\ job'.op = "fill" /\ job'.region = NoRegion /\ job'.at = a + 1
          /\ job'.from = job.from /\ job'.end = job.end /\ job'.by = job.by
      BY <1>1, <1>3, <2>1 DEF JobType
    <2>3. a + 1 \in Nat /\ {} \in SUBSET Rights /\ "fill" \in Ops
      BY <1>2 DEF Ops
    <2>4. job' \in JobType
      BY <1>1, <2>1, <2>3 DEF JobType
    <2>5. QED
      BY <2>2, <2>4
  <1>5. pte'[a] = e /\ \A b \in Pages \ {a} : pte'[b] = pte[b]
    BY <1>1, <1>2 DEF VmPart, VmTypes
  <1>6. /\ e \in Entries /\ e.kind = "user" /\ e.region = NoRegion
        /\ e.prot \cap {"W", "X"} \subseteq job.prot
    BY DEF pte_create, Entries, Rights, VmPart, VmTypes
  <1>7. FilePart'
    <2>1. \A f \in Files : Mapped(f)' = Mapped(f)
      BY <1>1 DEF Mapped
    <2>2. vm_lock = p
      BY <1>1 DEF FilePart, Locks
    <2>3. Moves(p)
      BY <1>1, <2>2, FileAssumption DEF Moves, fileVars
    <2>4. QED
      BY <1>1, <2>1, <2>3, FilesApart DEF fileVars, table
  <1>8. VmTypes'
    <2>1. pte' \in [Pages -> Entries]
      BY <1>1, <1>6 DEF VmPart, VmTypes
    <2>2. ASSUME NEW b \in Pages
          PROVE  /\ pte'[b].kind = "region" <=> pte'[b].region # NoRegion
                 /\ pte'[b].kind \in {"none", "region", "kernel"} => pte'[b].prot = {}
      <3>1. CASE b = a
        BY <1>5, <1>6, <3>1
      <3>2. CASE b # a
        BY <1>5, <3>2 DEF VmPart, VmTypes
      <3>3. QED
        BY <3>1, <3>2
    <2>3. QED
      BY <1>1, <1>4, <2>1, <2>2 DEF VmPart, VmTypes, JobType
  <1>9. JobAt'
    <2>1. \A i \in a + 1 .. job.end - 1 : pte'[i].kind = "region"
      <3> SUFFICES ASSUME NEW i \in a + 1 .. job.end - 1 PROVE pte'[i].kind = "region"
        OBVIOUS
      <3>1. i \in Pages \ {a}
        <4>1. i \in Int /\ a < i /\ i < job.end
          BY <1>2
        <4>2. QED
          BY <1>2, <4>1 DEF Pages
      <3>2. QED
        BY <1>1, <1>5, <3>1 DEF VmPart, JobAt, Halfway
    <2>2. KernelPages <= job.from /\ job.from <= a + 1 /\ a + 1 <= job.end
      <3>1. KernelPages <= job.from /\ job.from \in Nat
        BY <1>1 DEF VmPart, VmTypes, JobAt
      <3>2. QED
        BY <1>2, <3>1
    <2>3. QED
      BY <1>4, <2>1, <2>2 DEF JobAt, Halfway
  <1>10. RegionCounts'
    <2> SUFFICES ASSUME NEW w \in Regions
                 PROVE  vmrs[w].refcnt = Cardinality(Untouched(w)') + InHand(w)'
      BY <1>1 DEF RegionCounts
    <2>1. /\ Cardinality(Untouched(w)) \in Nat
          /\ Cardinality(Untouched(w)') = Cardinality(Untouched(w))
               - (IF pte[a] = ToRegion(w) THEN 1 ELSE 0)
               + (IF e = ToRegion(w) THEN 1 ELSE 0)
      BY <1>1, <1>2, EntryCounts DEF VmPart
    <2>2. e # ToRegion(w) /\ pte[a] # ToRegion(w)
      BY <1>3, <1>6 DEF KernelEntry, ToRegion
    <2>3. InHand(w)' = 0 /\ InHand(w) = 0
      BY <1>3, <1>4, VmAssumption DEF InHand
    <2>4. vmrs[w].refcnt = Cardinality(Untouched(w)) + InHand(w)
      BY DEF VmPart, RegionCounts
    <2>5. QED
      BY <2>1, <2>2, <2>3, <2>4
  <1>11. mem[a] = asked[a].part
    BY <1>1 DEF VmPart, ContentsInv
  <1>12. ContentsInv'
    <2>1. \A b \in Pages : b >= KernelPages => pte'[b].kind # "kernel"
      BY <1>1, <1>5, <1>6 DEF VmPart, ContentsInv, Halfway
    <2>2. \A b \in Pages : pte'[b].kind = "region" => b # a
      BY <1>5, <1>6
    <2>3. QED
      BY <1>1, <1>4, <1>5, <1>6, <2>1, <2>2 DEF VmPart, ContentsInv, Halfway
  <1>13. ContentsAsAsked'
    BY <1>1, <1>5, <1>11, VmAssumption DEF VmPart, ContentsAsAsked, Pages
  <1>14. RightsInv' /\ RightsAsAsked'
    <2>1. e.prot \cap {"W", "X"} \subseteq asked[a].prot
      BY <1>1, <1>6 DEF VmPart, RightsInv
    <2>2. RightsInv'
      BY <1>4 DEF RightsInv
    <2>3. RightsAsAsked'
      BY <1>1, <1>5, <1>6, <2>1 DEF VmPart, RightsAsAsked
    <2>4. QED
      BY <2>2, <2>3
  <1>15. GrowthInv'
    BY <1>1, <1>4 DEF VmPart, GrowthInv
  <1>16. QED
    BY <1>7, <1>8, <1>9, <1>10, <1>12, <1>13, <1>14, <1>15 DEF VmPart

\* A page is read: its contents and the job change, or nothing does.
LEMMA ReadVm ==
  ASSUME VmPart, job.op = "read", UNCHANGED <<pte, vmrs, brk, brk_max, vm_lock, want, asked>>,
         mem' = [mem EXCEPT ![job.at] = Part(vmrs[job.region], job.at)],
         job' = [job EXCEPT !.op = "drop"]
  PROVE  VmPart'
  <1> PICK a : a = job.at
    OBVIOUS
  <1>1. /\ a \in Pages /\ a >= KernelPages
        /\ pte[a] = KernelEntry /\ job.region \in Regions
    <2>1. Halfway /\ job.region # NoRegion /\ job.region \in Regions \cup {NoRegion}
      BY DEF Halfway, VmPart, JobAt, VmTypes
    <2>2. QED
      BY <2>1, HalfwayPage DEF VmPart
  <1>2. /\ job'.op = "drop" /\ job'.region = job.region /\ job'.at = a
        /\ job'.from = job.from /\ job'.end = job.end /\ job'.by = job.by
        /\ job' \in JobType
    <2>1. job \in JobType
      BY DEF VmPart, VmTypes, JobType
    <2>2. QED
      BY <2>1 DEF JobType, Ops
  <1>3. asked[a].part = Part(vmrs[job.region], a) /\ asked[a].part \in Filled
    BY <1>1 DEF VmPart, VmTypes, ContentsInv
  <1>4. mem'[a] = asked[a].part /\ \A b \in Pages \ {a} : mem'[b] = mem[b]
    BY <1>1, <1>3 DEF VmPart, VmTypes
  <1>5. VmTypes'
    <2>1. asked[a].part \in Contents
      BY <1>3 DEF Filled, Contents
    <2>2. mem' \in [Pages -> Contents]
      BY <1>3, <2>1 DEF VmPart, VmTypes
    <2>3. QED
      BY <1>2, <2>2 DEF VmPart, VmTypes, JobType
  <1>6. JobAt'
    BY <1>2 DEF VmPart, JobAt, Halfway
  <1>7. RegionCounts'
    <2>1. \A w \in Regions : Untouched(w)' = Untouched(w) /\ InHand(w)' = InHand(w)
      BY <1>2 DEF Untouched, InHand
    <2>2. QED
      BY <2>1 DEF VmPart, RegionCounts
  <1>8. ContentsInv'
    <2>1. mem'[a] # Stored
      BY <1>3, <1>4 DEF Filled, Stored
    <2>2. QED
      BY <1>2, <1>4, <2>1 DEF VmPart, ContentsInv, Halfway
  <1>9. ContentsAsAsked'
    BY <1>1, <1>4, VmAssumption DEF VmPart, ContentsAsAsked, Pages, KernelEntry
  <1>10. RightsInv' /\ RightsAsAsked' /\ GrowthInv'
    BY <1>2 DEF VmPart, RightsInv, RightsAsAsked, GrowthInv
  <1>11. QED
    BY <1>5, <1>6, <1>7, <1>8, <1>9, <1>10 DEF VmPart

\* __handle_page_fault reads the page from its file.
LEMMA ReadStep ==
  ASSUME FilePart, VmPart, NEW p \in Harts, ReadPage(p)
  PROVE  FilePart' /\ VmPart'
  <1> DEFINE v == vmrs[job.region]
             n == FilePage(v)
  <1>1. /\ pc[p].at = "vm" /\ job.op = "read"
        /\ UNCHANGED <<refcnt, offset, refcnt_lock, holder, calls,
                       pte, vmrs, brk, brk_max, vm_lock, want, asked>>
    BY DEF ReadPage, Busy
  <1>2. vm_lock = p
    BY <1>1 DEF FilePart, Locks
  <1>3. \A f \in Files : Mapped(f)' = Mapped(f)
    BY <1>1 DEF Mapped
  <1>4. CASE v.file = NoFile
    <2>1. /\ mem' = [mem EXCEPT ![job.at] = Zeroes]
          /\ job' = [job EXCEPT !.op = "drop"]
          /\ UNCHANGED <<fd, file_lock, pc>>
      BY <1>4 DEF ReadPage
    <2>2. Moves(p)
      BY <1>1, <1>2, <2>1, FileAssumption DEF Moves
    <2>3. FilePart'
      BY <1>1, <1>3, <2>1, <2>2, FilesApart
    <2>4. Part(v, job.at) = Zeroes
      BY <1>4 DEF Part
    <2>5. VmPart'
      BY <1>1, <2>1, <2>4, ReadVm
    <2>6. QED
      BY <2>3, <2>5
  <1>5. CASE v.file # NoFile
    <2> PICK f : f = v.file
      OBVIOUS
    <2>1. f \in Files
      <3>1. job.region \in Regions
        BY <1>1 DEF VmPart, VmTypes, JobAt
      <3>2. QED
        BY <1>5, <3>1 DEF VmPart, VmTypes
    <2>2. /\ file_lock = NoHart
          /\ \/ /\ Panic(p) /\ file_lock' = p
                /\ UNCHANGED <<fd, mem, job>>
             \/ /\ fd' = [fd EXCEPT ![f].pos = Clip(n + 1)]
                /\ \/ /\ mem' = [mem EXCEPT ![job.at] = PartOf(f, n)]
                      /\ job' = [job EXCEPT !.op = "drop"]
                      /\ UNCHANGED pc
                   \/ Panic(p) /\ UNCHANGED <<mem, job>>
                /\ UNCHANGED file_lock
      BY <1>5 DEF ReadPage
    <2>3. VmPart'
      <3>1. CASE /\ mem' = [mem EXCEPT ![job.at] = PartOf(f, n)]
                 /\ job' = [job EXCEPT !.op = "drop"]
        <4>1. Part(v, job.at) = PartOf(f, n)
          BY <1>5 DEF Part, FilePage
        <4>2. QED
          BY <1>1, <3>1, <4>1, ReadVm
      <3>2. CASE UNCHANGED <<mem, job>>
        BY <1>1, <3>2, VmFrame DEF vmVars
      <3>3. QED
        BY <2>2, <3>1, <3>2
    <2>4. \A q \in Harts : pc[q].at \notin {"read", "pread"}
      BY <2>2, FileAssumption DEF FilePart, Locks
    <2>5. /\ \A q \in Harts \ {p} : pc'[q] = pc[q]
          /\ pc'[p] = pc[p] \/ pc'[p] = [at |-> "dead", file |-> NoFile]
          /\ pc' \in [Harts -> [at : Places, file : Files \cup {NoFile}]]
      <3>1. UNCHANGED pc \/ pc' = [pc EXCEPT ![p] = [at |-> "dead", file |-> NoFile]]
        BY <2>2 DEF Panic, Go
      <3>2. [at |-> "dead", file |-> NoFile] \in [at : Places, file : Files \cup {NoFile}]
        BY DEF Places
      <3>3. QED
        BY <3>1, <3>2 DEF FilePart, FileTypes
    <2>6. fd' \in [Files -> [open : BOOLEAN, pos : 0 .. FilePages]]
      <3>1. CASE UNCHANGED fd
        BY <3>1 DEF FilePart, FileTypes
      <3>2. CASE fd' = [fd EXCEPT ![f].pos = Clip(n + 1)]
        <4>1. asked[job.at].part = PartOf(f, n) /\ job.at \in Pages
          <5>1. job.at \in Pages
            BY <1>1, HalfwayPage DEF VmPart, Halfway
          <5>2. QED
            BY <1>1, <1>5, <5>1 DEF VmPart, ContentsInv, Part, FilePage
        <4>2. n \in Nat
          BY <4>1 DEF VmPart, VmTypes, Filled, PartOf
        <4>3. Clip(n + 1) \in 0 .. FilePages
          BY <4>2, FileAssumption DEF Clip
        <4>4. QED
          BY <2>1, <3>2, <4>3 DEF FilePart, FileTypes
      <3>3. QED
        BY <2>2, <3>1, <3>2
    <2>7. FileTypes'
      BY <1>1, <2>2, <2>5, <2>6 DEF FilePart, FileTypes
    <2>8. Locks'
      BY <1>1, <1>2, <2>2, <2>4, <2>5, FileAssumption DEF FilePart, Locks
    <2>9. FileCounts'
      BY <1>1, <1>3 DEF FilePart, FileCounts, FileCount
    <2>10. ReadsAtOffset'
      BY <2>4, <2>5 DEF ReadsAtOffset
    <2>11. QED
      BY <2>3, <2>7, <2>8, <2>9, <2>10 DEF FilePart
  <1>6. QED
    BY <1>4, <1>5

\* __handle_page_fault gives up its reference to the region.
LEMMA DropStep ==
  ASSUME FilePart, VmPart, NEW p \in Harts, DropPage(p)
  PROVE  FilePart' /\ VmPart'
  <1> PICK r : r = job.region
    OBVIOUS
  <1> PICK a : a = job.at
    OBVIOUS
  <1>1. /\ pc[p].at = "vm" /\ job.op = "drop" /\ __vmr_decref(p, r)
        /\ job' = [job EXCEPT !.op = "install", !.prot = vmrs[r].prot,
                              !.region = NoRegion, !.closing = ToClose(r)]
        /\ UNCHANGED <<fd, file_lock, pc, holder, calls,
                       pte, brk, brk_max, vm_lock, want, mem, asked>>
    BY DEF DropPage, Busy
  <1>2. r \in Regions /\ a \in Pages /\ a >= KernelPages
    <2>1. Halfway /\ r # NoRegion /\ r \in Regions \cup {NoRegion}
      BY <1>1 DEF Halfway, VmPart, JobAt, VmTypes
    <2>2. QED
      BY <2>1, HalfwayPage DEF VmPart
  <1>3. /\ job'.op = "install" /\ job'.region = NoRegion /\ job'.at = a
        /\ job'.from = job.from /\ job'.end = job.end /\ job'.by = job.by
        /\ job'.prot = vmrs[r].prot /\ job' \in JobType
    <2>1. job \in JobType /\ vmrs[r].prot \in SUBSET Rights
      BY <1>2 DEF VmPart, VmTypes, JobType
    <2>2. ToClose(r) \in Files \cup {NoFile}
      BY <1>2, ToCloseType DEF VmPart
    <2>3. QED
      BY <1>1, <2>1, <2>2 DEF JobType, Ops
  <1>4. \A w \in Regions : InHand(w) = (IF w = r THEN 1 ELSE 0) /\ InHand(w)' = 0
    BY <1>1, <1>3, VmAssumption DEF InHand
  <1>5. \A w \in Regions : Cardinality(Untouched(w)) \in Nat
                           /\ vmrs[w].refcnt = Cardinality(Untouched(w)) + InHand(w)
    BY UntouchedFinite DEF VmPart, RegionCounts
  <1>6. vmrs[r].refcnt >= 1
    BY <1>2, <1>4, <1>5
  <1>7. /\ vmrs' \in [Regions -> RegionRecord]
        /\ vmrs'[r].refcnt = vmrs[r].refcnt - 1
        /\ \A w \in Regions \ {r} : vmrs'[w] = vmrs[w]
        /\ \A w \in Regions : Kept(w)
    BY <1>1, <1>2, <1>6, DecrefRegions DEF VmPart
  <1>8. FilePart'
    <2>1. vm_lock # NoHart
      BY <1>1, FileAssumption DEF FilePart, Locks
    <2>2. QED
      BY <1>1, <1>2, <1>6, <2>1, DecrefFiles DEF VmPart
  <1>9. VmTypes'
    BY <1>1, <1>3, <1>7 DEF VmPart, VmTypes, JobType, RegionRecord
  <1>10. JobAt'
    BY <1>1, <1>3 DEF VmPart, JobAt, Halfway
  <1>11. RegionCounts'
    <2> SUFFICES ASSUME NEW w \in Regions
                 PROVE  vmrs'[w].refcnt = Cardinality(Untouched(w)') + InHand(w)'
      BY DEF RegionCounts
    <2>1. Untouched(w)' = Untouched(w)
      BY <1>1 DEF Untouched
    <2>2. vmrs'[w].refcnt = vmrs[w].refcnt - (IF w = r THEN 1 ELSE 0)
      BY <1>5, <1>7, <1>4
    <2>3. QED
      BY <1>4, <1>5, <2>1, <2>2
  <1>12. ASSUME NEW b \in Pages, NEW w \in Regions, pte[b] = ToRegion(w)
         PROVE  /\ vmrs'[w].file = vmrs[w].file /\ vmrs'[w].addr = vmrs[w].addr
                /\ vmrs'[w].offset = vmrs[w].offset /\ vmrs'[w].prot = vmrs[w].prot
    BY <1>1, <1>7, <1>9, <1>10, <1>11, <1>12, EntryKeepsNext DEF Kept
  <1>13. ContentsInv'
    <2>1. ASSUME NEW b \in Pages, pte[b].kind = "region"
          PROVE  asked[b].part = Part(vmrs'[pte[b].region], b)
      <3>1. pte[b].region \in Regions /\ pte[b] = ToRegion(pte[b].region)
        BY <2>1, EntryIs DEF VmPart
      <3>2. asked[b].part = Part(vmrs[pte[b].region], b)
        BY <2>1 DEF VmPart, ContentsInv
      <3>3. QED
        BY <1>12, <3>1, <3>2 DEF Part
    <2>2. QED
      BY <1>1, <1>3, <2>1 DEF VmPart, ContentsInv, Halfway
  <1>14. ContentsAsAsked'
    BY <1>1 DEF VmPart, ContentsAsAsked
  <1>15. RightsInv'
    BY <1>1, <1>3 DEF VmPart, RightsInv
  <1>16. RightsAsAsked'
    <2>1. ASSUME NEW b \in Pages, pte[b].kind = "region"
          PROVE  vmrs'[pte[b].region].prot = vmrs[pte[b].region].prot
      BY <1>12, <2>1, EntryIs DEF VmPart
    <2>2. QED
      BY <1>1, <2>1 DEF VmPart, RightsAsAsked
  <1>17. GrowthInv'
    BY <1>1, <1>3 DEF VmPart, GrowthInv
  <1>18. QED
    BY <1>8, <1>9, <1>10, <1>11, <1>13, <1>14, <1>15, <1>16, <1>17 DEF VmPart

\* The f_close of a file whose last mapping is gone.
LEMMA CloseMappedStep ==
  ASSUME FilePart, VmPart, NEW p \in Harts, CloseMapped(p)
  PROVE  FilePart' /\ VmPart'
  <1> PICK f : f = job.closing
    OBVIOUS
  <1>1. /\ pc[p].at = "vm" /\ f # NoFile
        /\ fd' = [fd EXCEPT ![f].open = FALSE] /\ refcnt_lock' = NoHart
        /\ job' = [job EXCEPT !.closing = NoFile]
        /\ UNCHANGED <<refcnt, offset, file_lock, pc, holder, calls,
                       pte, vmrs, brk, brk_max, vm_lock, want, mem, asked>>
    BY DEF CloseMapped, f_close
  <1>2. f \in Files /\ job \in JobType
    BY <1>1 DEF VmPart, VmTypes, JobType
  <1>3. /\ job'.op = job.op /\ job'.region = job.region /\ job'.at = job.at
        /\ job'.from = job.from /\ job'.end = job.end /\ job'.by = job.by
        /\ job'.prot = job.prot /\ job' \in JobType
    BY <1>1, <1>2 DEF JobType
  <1>4. \A g \in Files : fd'[g].pos = fd[g].pos /\ (fd'[g].open => fd[g].open)
    BY <1>1, <1>2 DEF FilePart, FileTypes
  <1>5. FilePart'
    <2>1. FileTypes'
      <3>1. fd' \in [Files -> [open : BOOLEAN, pos : 0 .. FilePages]]
        BY <1>1, <1>2 DEF FilePart, FileTypes
      <3>2. QED
        BY <1>1, <3>1 DEF FilePart, FileTypes
    <2>2. vm_lock' # NoHart
      BY <1>1, FileAssumption DEF FilePart, Locks
    <2>3. Locks'
      BY <1>1, <2>2 DEF FilePart, Locks
    <2>4. FileCounts'
      BY <1>1 DEF FilePart, FileCounts, FileCount, Mapped
    <2>5. ReadsAtOffset'
      <3> SUFFICES ASSUME NEW q \in Harts, pc[q].at = "read", fd'[pc[q].file].open
                   PROVE  fd'[pc[q].file].pos = offset[pc[q].file]
        BY <1>1 DEF ReadsAtOffset
      <3>1. pc[q].file \in Files
        BY DEF FilePart, Locks
      <3>2. QED
        BY <1>4, <3>1 DEF FilePart, ReadsAtOffset
    <2>6. QED
      BY <2>1, <2>3, <2>4, <2>5 DEF FilePart
  <1>6. VmTypes' /\ JobAt'
    <2>1. VmTypes'
      BY <1>1, <1>3 DEF VmPart, VmTypes, JobType
    <2>2. JobAt'
      BY <1>1, <1>3 DEF VmPart, JobAt, Halfway
    <2>3. QED
      BY <2>1, <2>2
  <1>7. RegionCounts'
    BY <1>1, <1>3 DEF VmPart, RegionCounts, Untouched, InHand
  <1>8. ContentsInv' /\ ContentsAsAsked'
    BY <1>1, <1>3 DEF VmPart, ContentsInv, ContentsAsAsked, Halfway
  <1>9. RightsInv' /\ RightsAsAsked' /\ GrowthInv'
    BY <1>1, <1>3 DEF VmPart, RightsInv, RightsAsAsked, GrowthInv
  <1>10. QED
    BY <1>5, <1>6, <1>7, <1>8, <1>9 DEF VmPart

-----------------------------------------------------------------------------
(* The calls that change rights and the break, and that map.               *)

\* do_mprotect.
LEMMA MprotectStep ==
  ASSUME FilePart, VmPart, NEW p \in Harts, do_mprotect(p)
  PROVE  FilePart' /\ VmPart'
  <1> PICK n \in 1 .. Top, a \in Pages, prot \in Prots :
        LET span == {i \in a .. a + n - 1 : i < Top}
            done == {i \in span : \A k \in a .. i : ~ Refused(k, prot)}
        IN /\ pte' = [i \in Pages |-> IF i \in done /\ pte[i].kind # "region"
                                      THEN pte_create(prot) ELSE pte[i]]
           /\ vmrs' = [v \in Regions |->
                         IF \E i \in done : pte[i] = ToRegion(v)
                         THEN [vmrs[v] EXCEPT !.prot = prot] ELSE vmrs[v]]
    BY DEF do_mprotect
  <1> DEFINE span == {i \in a .. a + n - 1 : i < Top}
             done == {i \in span : \A k \in a .. i : ~ Refused(k, prot)}
  <1>1. /\ pc[p].at = "idle" /\ vm_lock = NoHart
        /\ UNCHANGED <<table, file_lock, pc, brk, brk_max, vm_lock, job, want, mem, asked>>
    BY DEF do_mprotect, Call, Idle
  <1>2. /\ job = NoJob /\ (\A v \in Regions : InHand(v) = 0) /\ ~ Halfway
        /\ job.op = "none" /\ job.region = NoRegion
    BY <1>1, NoJobUnlocked DEF NoJob
  <1>3. \A i \in done : i \in Pages /\ ~ Refused(i, prot)
    <2> SUFFICES ASSUME NEW i \in done PROVE i \in Pages /\ ~ Refused(i, prot)
      OBVIOUS
    <2>1. a \in Nat /\ i \in Int /\ a <= i /\ i < Top
      BY DEF Pages
    <2>2. i \in Pages /\ i \in a .. i
      BY <2>1, VmAssumption DEF Pages
    <2>3. QED
      BY <2>2
  <1>4. prot \in SUBSET Rights
    BY VmAssumption DEF Rights
  <1>5. \A i \in Pages : pte'[i] = IF i \in done /\ pte[i].kind # "region"
                                   THEN pte_create(prot) ELSE pte[i]
    OBVIOUS
  <1>6. \A v \in Regions :
          vmrs'[v] = IF \E i \in done : pte[i] = ToRegion(v)
                     THEN [vmrs[v] EXCEPT !.prot = prot] ELSE vmrs[v]
    OBVIOUS
  <1>7. /\ pte' = [i \in Pages |-> pte'[i]] /\ vmrs' = [v \in Regions |-> vmrs'[v]]
    OBVIOUS
  <1> HIDE DEF done
  <1>8. /\ pte_create(prot) \in Entries /\ pte_create(prot).kind = "user"
        /\ pte_create(prot).region = NoRegion
        /\ pte_create(prot).prot \cap {"W", "X"} = prot \cap {"W", "X"}
    BY <1>4 DEF pte_create, Entries, Rights
  <1>9. ASSUME NEW v \in Regions
        PROVE  /\ vmrs'[v] \in RegionRecord /\ vmrs'[v].refcnt = vmrs[v].refcnt
               /\ vmrs'[v].file = vmrs[v].file /\ vmrs'[v].addr = vmrs[v].addr
               /\ vmrs'[v].offset = vmrs[v].offset
               /\ vmrs'[v].prot \subseteq vmrs[v].prot
    <2>1. vmrs[v] \in RegionRecord
      BY DEF VmPart, VmTypes, RegionRecord
    <2>2. CASE \E i \in done : pte[i] = ToRegion(v)
      <3>1. PICK i \in done : pte[i] = ToRegion(v)
        BY <2>2
      <3>2. prot \subseteq vmrs[v].prot
        BY <1>3, <3>1 DEF Refused, ToRegion
      <3>3. vmrs'[v] = [vmrs[v] EXCEPT !.prot = prot]
        BY <1>6, <2>2
      <3>4. QED
        BY <1>4, <2>1, <3>2, <3>3 DEF RegionRecord
    <2>3. CASE ~ \E i \in done : pte[i] = ToRegion(v)
      BY <1>6, <2>1, <2>3
    <2>4. QED
      BY <2>2, <2>3
  <1>10. ASSUME NEW i \in Pages
         PROVE  /\ pte'[i] \in Entries
                /\ pte'[i].kind = "region" \/ pte[i].kind = "region" => pte'[i] = pte[i]
                /\ pte'[i].kind = "region" <=> pte'[i].region # NoRegion
                /\ pte'[i].kind \in {"none", "region", "kernel"} => pte'[i] = pte[i]
                /\ pte[i].kind = "user" => pte'[i].kind = "user"
                /\ pte'[i].kind = "user" /\ pte[i].kind # "user" => pte[i].kind = "kernel"
                /\ pte'[i].prot \cap {"W", "X"} \subseteq pte[i].prot
    <2>1. pte[i] \in Entries /\ (pte[i].kind = "region" <=> pte[i].region # NoRegion)
      BY DEF VmPart, VmTypes
    <2>2. CASE i \in done /\ pte[i].kind # "region"
      <3>1. pte'[i] = pte_create(prot) /\ ~ Refused(i, prot)
        BY <1>3, <1>5, <2>2
      <3>2. pte[i].kind \in {"kernel", "user"}
        BY <2>1, <2>2, <3>1 DEF Refused, Entries
      <3>3. prot \cap {"W", "X"} \subseteq pte[i].prot
        BY <3>1, <3>2 DEF Refused
      <3>4. QED
        BY <1>8, <2>2, <3>1, <3>2, <3>3
    <2>3. CASE ~ (i \in done /\ pte[i].kind # "region")
      BY <1>5, <2>1, <2>3
    <2>4. QED
      BY <2>2, <2>3
  <1>11. FilePart'
    <2>1. \A f \in Files : Mapped(f)' = Mapped(f)
      BY <1>9 DEF Mapped
    <2>2. Moves(p)
      BY <1>1, <1>2 DEF Moves, FilePart, Locks
    <2>3. QED
      BY <1>1, <2>1, <2>2, FilesApart DEF table
  <1>12. VmTypes'
    <2>1. pte' \in [Pages -> Entries] /\ vmrs' \in [Regions -> RegionRecord]
      BY <1>7, <1>9, <1>10
    <2>2. \A i \in Pages : pte'[i].kind \in {"none", "region", "kernel"} => pte'[i].prot = {}
      BY <1>10 DEF VmPart, VmTypes
    <2>3. QED
      BY <1>1, <1>10, <2>1, <2>2 DEF VmPart, VmTypes, RegionRecord
  <1>13. JobAt'
    BY <1>1, <1>2 DEF JobAt, Halfway
  <1>14. RegionCounts'
    <2> SUFFICES ASSUME NEW v \in Regions
                 PROVE  vmrs'[v].refcnt = Cardinality(Untouched(v)') + InHand(v)'
      BY DEF RegionCounts
    <2>1. Untouched(v)' = Untouched(v)
      BY <1>10 DEF Untouched, ToRegion
    <2>2. InHand(v)' = InHand(v)
      BY <1>1 DEF InHand
    <2>3. QED
      BY <1>9, <2>1, <2>2 DEF VmPart, RegionCounts
  <1>15. ContentsInv'
    <2>1. ASSUME NEW b \in Pages, pte'[b].kind = "region"
          PROVE  asked[b].part = Part(vmrs'[pte'[b].region], b)
      <3>1. pte'[b] = pte[b]
        BY <1>10, <2>1
      <3>2. pte[b].region \in Regions
        BY <2>1, <3>1, EntryIs DEF VmPart
      <3>3. asked[b].part = Part(vmrs[pte[b].region], b)
        BY <2>1, <3>1 DEF VmPart, ContentsInv
      <3>4. QED
        BY <1>9, <3>1, <3>2, <3>3 DEF Part
    <2>2. \A b \in Pages : b >= KernelPages => pte'[b].kind # "kernel"
      BY <1>2, <1>10 DEF VmPart, ContentsInv
    <2>3. \A b \in Pages : mem[b] = Stored => pte'[b].kind = "user"
      BY <1>10 DEF VmPart, ContentsInv
    <2>4. QED
      BY <1>1, <1>2, <2>1, <2>2, <2>3 DEF ContentsInv, Halfway
  <1>16. ContentsAsAsked'
    <2> SUFFICES ASSUME NEW b \in KernelPages .. Top - 1, pte'[b].kind = "user"
                 PROVE  mem[b] \in {Stored, asked[b].part}
      BY <1>1 DEF ContentsAsAsked
    <2>1. b \in Pages /\ b >= KernelPages
      BY VmAssumption DEF Pages
    <2>2. pte[b].kind = "user"
      BY <1>2, <1>10, <2>1 DEF VmPart, ContentsInv
    <2>3. QED
      BY <2>2 DEF VmPart, ContentsAsAsked
  <1>17. RightsAsAsked'
    <2> SUFFICES ASSUME NEW b \in Pages
                 PROVE  (IF pte'[b].kind = "region" THEN vmrs'[pte'[b].region].prot
                         ELSE pte'[b].prot) \cap {"W", "X"} \subseteq asked[b].prot
      BY <1>1 DEF RightsAsAsked
    <2>1. CASE pte'[b].kind = "region"
      <3>1. pte'[b] = pte[b]
        BY <1>10, <2>1
      <3>2. pte[b].region \in Regions
        BY <2>1, <3>1, EntryIs DEF VmPart
      <3>3. vmrs[pte[b].region].prot \cap {"W", "X"} \subseteq asked[b].prot
        BY <2>1, <3>1 DEF VmPart, RightsAsAsked
      <3>4. QED
        BY <1>9, <2>1, <3>1, <3>2, <3>3
    <2>2. CASE pte'[b].kind # "region"
      <3>1. pte[b].kind # "region"
        BY <1>10, <2>2
      <3>2. pte[b].prot \cap {"W", "X"} \subseteq asked[b].prot
        BY <3>1 DEF VmPart, RightsAsAsked
      <3>3. QED
        BY <1>10, <2>2, <3>2
    <2>3. QED
      BY <2>1, <2>2
  <1>18. RightsInv'
    BY <1>1, <1>2 DEF RightsInv
  <1>19. GrowthInv'
    BY <1>1, <1>2 DEF VmPart, GrowthInv
  <1>20. QED
    BY <1>11, <1>12, <1>13, <1>14, <1>15, <1>16, <1>17, <1>18, <1>19 DEF VmPart

\* A new mapping counts once on its file.
LEMMA MapFiles ==
  ASSUME FilePart, NEW p \in Harts, Moves(p), NEW v \in Regions, vmrs[v].refcnt = 0,
         NEW f \in Files \cup {NoFile}, f # NoFile => holder[f] = p,
         IF f = NoFile THEN UNCHANGED refcnt ELSE file_incref(f),
         vmrs'[v].refcnt > 0, vmrs'[v].file = f,
         \A w \in Regions \ {v} : vmrs'[w] = vmrs[w],
         UNCHANGED <<offset, fd, file_lock, refcnt_lock, holder>>
  PROVE  FilePart'
  <1>1. \A g \in Files \ {f} : Mapped(g)' = Mapped(g)
    BY DEF Mapped
  <1>2. CASE f = NoFile
    BY <1>1, <1>2, FilesApart, FileAssumption
  <1>3. CASE f # NoFile
    <2>1. f \in Files /\ holder[f] # NoHart /\ refcnt' = [refcnt EXCEPT ![f] = @ + 1]
      BY <1>3, FileAssumption DEF file_incref
    <2>2. Mapped(f)' = Mapped(f) \cup {v} /\ v \notin Mapped(f)
      BY DEF Mapped
    <2>3. /\ Cardinality(Mapped(f)) \in Nat
          /\ Cardinality(Mapped(f)') = Cardinality(Mapped(f)) + 1
      <3>1. IsFiniteSet(Mapped(f)) /\ Cardinality(Mapped(f)) \in Nat
        BY <2>1, MappedFinite
      <3>2. Cardinality(Mapped(f) \cup {v}) = Cardinality(Mapped(f)) + 1
        BY <2>2, <3>1, FS_AddElement
      <3>3. QED
        BY <2>2, <3>1, <3>2
    <2>4. refcnt[f] = 2 + Cardinality(Mapped(f))
      BY <2>1, <2>3 DEF FilePart, FileCounts, FileCount
    <2>5. refcnt'[f] = 3 + Cardinality(Mapped(f))
      BY <2>1, <2>3, <2>4 DEF FilePart, FileTypes
    <2>6. FileCount(f)' = 3 + Cardinality(Mapped(f))
      BY <2>1, <2>3 DEF FileCount
    <2>7. \A g \in Files \ {f} : refcnt'[g] = FileCount(g)'
      BY <1>1, <2>1 DEF FilePart, FileTypes, FileCounts, FileCount
    <2>8. FileCounts'
      BY <2>5, <2>6, <2>7 DEF FileCounts
    <2>9. refcnt' \in [Files -> Nat]
      BY <2>1 DEF FilePart, FileTypes
    <2>10. QED
      BY <2>8, <2>9, FilesMove DEF FilePart
  <1>4. QED
    BY <1>2, <1>3

\* A free region takes on a mapping of n pages at a.
NewMapping(v, by, a, n, prot, populate, f, off) ==
  /\ vmrs[v].refcnt = 0
  /\ vmrs' = [vmrs EXCEPT ![v] = [refcnt |-> n, addr |-> a, file |-> f,
                                  offset |-> off, prot |-> prot]]
  /\ job' = [NoJob EXCEPT !.op = "map", !.by = by, !.at = a, !.from = a,
                          !.end = a + n, !.region = v, !.populate = populate]
  /\ by = "mmap" => brk_max' = Below(a)
  /\ by = "brk" => brk_max' = brk_max /\ (a + n <= brk_max \/ a + n <= BrkMin)
  /\ UNCHANGED <<pte, want, mem, asked>>

\* A new mapping keeps the part for the pages.
LEMMA MapVm ==
  ASSUME VmPart, FilePart, vm_lock = NoHart, NEW v \in Regions, NEW by \in {"mmap", "brk"},
         NEW a \in Nat, NEW n \in Nat, n >= 1, KernelPages <= a, a + n <= Top,
         NEW prot \in SUBSET Rights, NEW populate \in BOOLEAN,
         NEW f \in Files \cup {NoFile}, NEW off \in Nat,
         NewMapping(v, by, a, n, prot, populate, f, off),
         brk' \in 0 .. Top, brk' = 0 \/ brk' >= KernelPages,
         vm_lock' \in Harts \cup {NoHart}
  PROVE  VmPart'
  <1> USE DEF NewMapping
  <1>1. /\ job = NoJob /\ (\A w \in Regions : InHand(w) = 0) /\ ~ Halfway
        /\ job.op = "none" /\ job.region = NoRegion
    BY NoJobUnlocked DEF NoJob
  <1>2. /\ job'.op = "map" /\ job'.by = by /\ job'.at = a /\ job'.from = a
        /\ job'.end = a + n /\ job'.region = v /\ job' \in JobType
    <2>1. a + n \in 0 .. Top
      OBVIOUS
    <2>2. QED
      BY <2>1 DEF JobType, NoJob, Ops
  <1>3. /\ vmrs'[v].refcnt = n /\ vmrs'[v].addr = a
        /\ \A w \in Regions \ {v} : vmrs'[w] = vmrs[w]
        /\ vmrs' \in [Regions -> RegionRecord]
    <2>1. [refcnt |-> n, addr |-> a, file |-> f, offset |-> off, prot |-> prot]
            \in RegionRecord
      BY DEF RegionRecord
    <2>2. vmrs \in [Regions -> RegionRecord]
      BY DEF VmPart, VmTypes, RegionRecord
    <2>3. QED
      BY <2>1, <2>2
  <1>4. \A w \in Regions : Cardinality(Untouched(w)) \in Nat
                           /\ vmrs[w].refcnt = Cardinality(Untouched(w))
    <2> SUFFICES ASSUME NEW w \in Regions
                 PROVE  Cardinality(Untouched(w)) \in Nat
                        /\ vmrs[w].refcnt = Cardinality(Untouched(w))
      OBVIOUS
    <2>1. Cardinality(Untouched(w)) \in Nat
      BY UntouchedFinite
    <2>2. vmrs[w].refcnt = Cardinality(Untouched(w)) + InHand(w)
      BY DEF VmPart, RegionCounts
    <2>3. QED
      BY <1>1, <2>1, <2>2
  <1>5. Untouched(v) = {}
    BY <1>4, UntouchedFinite, FS_EmptySet
  <1>6. brk_max' \in KernelPages .. Top /\ brk_max' <= brk_max
        /\ (by = "mmap" => brk_max' <= a)
    BY VmAssumption DEF VmPart, VmTypes, Below
  <1>7. VmTypes'
    BY <1>2, <1>3, <1>6 DEF VmPart, VmTypes, JobType, RegionRecord
  <1>8. JobAt'
    <2>1. \A i \in a .. a - 1 : pte'[i] = ToRegion(v)
      OBVIOUS
    <2>2. KernelPages <= a /\ a <= a /\ a <= a + n
      OBVIOUS
    <2>3. QED
      BY <1>2, <2>1, <2>2, VmAssumption DEF JobAt, Halfway
  <1>9. RegionCounts'
    <2> SUFFICES ASSUME NEW w \in Regions
                 PROVE  vmrs'[w].refcnt = Cardinality(Untouched(w)') + InHand(w)'
      BY DEF RegionCounts
    <2>1. Untouched(w)' = Untouched(w)
      BY DEF Untouched
    <2>2. CASE w = v
      <3>1. InHand(w)' = a + n - a
        BY <1>2, <2>2 DEF InHand
      <3>2. Cardinality(Untouched(w)) = 0
        BY <1>4, <2>2
      <3>3. QED
        BY <1>3, <2>1, <2>2, <3>1, <3>2
    <2>3. CASE w # v
      <3>1. InHand(w)' = 0
        BY <1>2, <2>3 DEF InHand
      <3>2. QED
        BY <1>3, <1>4, <2>1, <2>3, <3>1
    <2>4. QED
      BY <2>2, <2>3
  <1>10. ASSUME NEW b \in Pages, pte[b].kind = "region"
         PROVE  vmrs'[pte[b].region] = vmrs[pte[b].region]
    <2>1. pte[b].region \in Regions /\ pte[b] = ToRegion(pte[b].region)
      BY <1>10, EntryIs DEF VmPart
    <2>2. pte[b].region # v
      BY <1>5, <2>1 DEF Untouched
    <2>3. QED
      BY <1>3, <2>1, <2>2
  <1>11. ContentsInv'
    <2>1. vmrs'[v].addr <= a
      BY <1>3
    <2>2. QED
      BY <1>1, <1>2, <1>10, <2>1 DEF VmPart, ContentsInv, Halfway
  <1>12. ContentsAsAsked'
    BY DEF VmPart, ContentsAsAsked
  <1>13. RightsInv' /\ RightsAsAsked'
    BY <1>2, <1>10 DEF VmPart, RightsInv, RightsAsAsked
  <1>14. GrowthInv'
    <2>1. \A b \in Pages : asked'[b].by = "mmap" => brk_max' <= b
      <3> SUFFICES ASSUME NEW b \in Pages, asked[b].by = "mmap" PROVE brk_max' <= b
        OBVIOUS
      <3>1. brk_max <= b
        BY DEF VmPart, GrowthInv
      <3>2. brk_max' \in Int /\ brk_max \in Int /\ b \in Int /\ brk_max' <= brk_max
        BY <1>6, VmAssumption DEF VmPart, VmTypes, Pages
      <3>3. QED
        BY <3>1, <3>2
    <2>2. QED
      BY <1>2, <1>6, <2>1 DEF GrowthInv
  <1>15. QED
    BY <1>7, <1>8, <1>9, <1>11, <1>12, <1>13, <1>14 DEF VmPart

\* A call of do_mmap, up to its first page.
LEMMA MmapStep ==
  ASSUME FilePart, VmPart, NEW p \in Harts, do_mmap(p)
  PROVE  FilePart' /\ VmPart'
  <1>1. /\ pc[p].at = "idle" /\ vm_lock = NoHart /\ vm_lock' = p /\ Go(p, "vm", NoFile)
        /\ UNCHANGED <<offset, fd, file_lock, refcnt_lock, holder,
                       pte, brk, want, mem, asked>>
    BY DEF do_mmap, Call, Lock, Idle
  <1>2. PICK n \in 1 .. Top, prot \in Prots, populate \in BOOLEAN,
             f \in {NoFile} \cup {g \in Files : holder[g] = p}, off \in Offsets :
          \E a \in (KernelPages .. Top - 1) \cup __vm_alloc(n) :
            /\ __valid_user_range(a, n)
            /\ __do_mmap("mmap", a, n, prot, populate, f, off)
            /\ brk_max' = Below(a)
    BY DEF do_mmap
  <1>3. PICK a \in (KernelPages .. Top - 1) \cup __vm_alloc(n) :
          /\ __valid_user_range(a, n)
          /\ __do_mmap("mmap", a, n, prot, populate, f, off)
          /\ brk_max' = Below(a)
    BY <1>2
  <1>4. /\ a \in Nat /\ n \in Nat /\ n >= 1 /\ KernelPages <= a /\ a + n <= Top
        /\ prot \in SUBSET Rights /\ off \in Nat
        /\ f \in Files \cup {NoFile} /\ (f # NoFile => holder[f] = p)
    <2>1. a \in Int
      <3>1. CASE a \in KernelPages .. Top - 1
        BY <3>1
      <3>2. CASE a \in __vm_alloc(n)
        <4>1. a \in brk .. Top - n
          BY <3>2 DEF __vm_alloc
        <4>2. QED
          BY <4>1
      <3>3. QED
        BY <3>1, <3>2
    <2>2. QED
      BY <1>3, <2>1, VmAssumption DEF __valid_user_range, Rights
  <1>5. PICK v \in Regions :
          /\ vmrs[v].refcnt = 0
          /\ IF f = NoFile THEN UNCHANGED refcnt ELSE file_incref(f)
          /\ vmrs' = [vmrs EXCEPT ![v] = [refcnt |-> n, addr |-> a, file |-> f,
                                          offset |-> off, prot |-> prot]]
          /\ job' = [NoJob EXCEPT !.op = "map", !.by = "mmap", !.at = a, !.from = a,
                                  !.end = a + n, !.region = v, !.populate = populate]
    BY <1>3 DEF __do_mmap
  <1>6. NewMapping(v, "mmap", a, n, prot, populate, f, off)
    BY <1>1, <1>3, <1>5 DEF NewMapping
  <1>7. VmPart'
    <2>1. brk' \in 0 .. Top /\ (brk' = 0 \/ brk' >= KernelPages)
          /\ vm_lock' \in Harts \cup {NoHart}
      BY <1>1 DEF VmPart, VmTypes
    <2>2. QED
      BY <1>1, <1>4, <1>6, <2>1, MapVm
  <1>8. FilePart'
    <2>1. /\ vmrs'[v].refcnt > 0 /\ vmrs'[v].file = f
          /\ \A w \in Regions \ {v} : vmrs'[w] = vmrs[w]
      BY <1>4, <1>5 DEF VmPart, VmTypes
    <2>2. Moves(p)
      BY <1>1, FileAssumption DEF Moves
    <2>3. QED
      BY <1>1, <1>4, <1>5, <2>1, <2>2, MapFiles
  <1>9. QED
    BY <1>7, <1>8

\* A call of do_brk, up to its first page.
LEMMA BrkStep ==
  ASSUME FilePart, VmPart, NEW p \in Harts, do_brk(p)
  PROVE  FilePart' /\ VmPart'
  <1> PICK first : first = IF brk = 0 THEN BrkMin ELSE brk
    OBVIOUS
  <1>1. /\ pc[p].at = "idle" /\ vm_lock = NoHart
        /\ UNCHANGED <<offset, fd, file_lock, refcnt_lock, holder,
                       pte, brk_max, want, mem, asked>>
    BY DEF do_brk, Call, Idle
  <1>2. PICK addr \in KernelPages .. Top + 1 :
          LET new == IF addr < BrkMin THEN BrkMin
                     ELSE IF addr > brk_max THEN brk_max ELSE addr
          IN /\ brk' = new
             /\ \/ /\ new > first
                   /\ Lock(p)
                   /\ __do_mmap("brk", first, new - first, Rights, FALSE, NoFile, 0)
                \/ /\ new > first /\ \A v \in Regions : vmrs[v].refcnt # 0
                   /\ Panic(p)
                   /\ vm_lock' = p
                   /\ UNCHANGED <<refcnt, vmrs, job>>
                \/ /\ new < first
                   /\ Lock(p)
                   /\ job' = [NoJob EXCEPT !.op = "unmap", !.at = new, !.from = new,
                                           !.end = first]
                   /\ UNCHANGED <<refcnt, vmrs>>
                \/ /\ new = first
                   /\ UNCHANGED <<refcnt, pc, vmrs, vm_lock, job>>
    BY DEF do_brk
  <1> DEFINE new == IF addr < BrkMin THEN BrkMin
                    ELSE IF addr > brk_max THEN brk_max ELSE addr
  <1>3. /\ new \in Nat /\ KernelPages <= new /\ new <= Top
        /\ new <= brk_max \/ new <= BrkMin
    BY VmAssumption DEF VmPart, VmTypes
  <1>4. first \in Nat /\ KernelPages <= first /\ first <= Top
    BY VmAssumption DEF VmPart, VmTypes
  <1>5. brk' = new
    BY <1>2
  <1> HIDE DEF new
  <1>6. brk' \in 0 .. Top /\ (brk' = 0 \/ brk' >= KernelPages)
    BY <1>3, <1>5
  <1>7. /\ job = NoJob /\ (\A v \in Regions : InHand(v) = 0) /\ ~ Halfway
    BY <1>1, NoJobUnlocked
  <1>8. want' \in [Harts -> Pages]
    BY <1>1 DEF VmPart, VmTypes
  <1>9. UNCHANGED vmrs => \A f \in Files : Mapped(f)' = Mapped(f)
    BY DEF Mapped
  <1>10. CASE /\ new > first /\ Lock(p)
              /\ __do_mmap("brk", first, new - first, Rights, FALSE, NoFile, 0)
    <2>1. PICK v \in Regions :
            /\ vmrs[v].refcnt = 0
            /\ UNCHANGED refcnt
            /\ vmrs' = [vmrs EXCEPT ![v] = [refcnt |-> new - first, addr |-> first,
                                            file |-> NoFile, offset |-> 0, prot |-> Rights]]
            /\ job' = [NoJob EXCEPT !.op = "map", !.by = "brk", !.at = first,
                                    !.from = first, !.end = first + (new - first),
                                    !.region = v, !.populate = FALSE]
      BY <1>10 DEF __do_mmap
    <2>2. vm_lock' = p /\ Go(p, "vm", NoFile)
      BY <1>10 DEF Lock
    <2>3. /\ new - first \in Nat /\ new - first >= 1
          /\ first + (new - first) = new
      BY <1>3, <1>4, <1>10
    <2>4. NewMapping(v, "brk", first, new - first, Rights, FALSE, NoFile, 0)
      BY <1>1, <1>3, <2>1, <2>3 DEF NewMapping
    <2>5. VmPart'
      <3>1. first + (new - first) <= Top /\ Rights \in SUBSET Rights /\ 0 \in Nat
            /\ vm_lock' \in Harts \cup {NoHart}
        BY <1>3, <2>2, <2>3
      <3>2. QED
        BY <1>1, <1>4, <1>6, <2>3, <2>4, <3>1, MapVm
    <2>6. FilePart'
      <3>1. /\ vmrs'[v].refcnt > 0 /\ vmrs'[v].file = NoFile
            /\ \A w \in Regions \ {v} : vmrs'[w] = vmrs[w]
        BY <2>1, <2>3 DEF VmPart, VmTypes
      <3>2. Moves(p)
        BY <1>1, <2>2, FileAssumption DEF Moves
      <3>3. QED
        BY <1>1, <2>1, <3>1, <3>2, MapFiles
    <2>7. QED
      BY <2>5, <2>6
  <1>11. CASE Panic(p) /\ vm_lock' = p /\ UNCHANGED <<refcnt, vmrs, job>>
    <2>1. Moves(p)
      <3>1. pc'[p].at = "dead"
        BY <1>11 DEF Panic, Go, FilePart, FileTypes
      <3>2. QED
        BY <1>1, <1>11, <3>1, FileAssumption DEF Moves, Panic
    <2>2. VmPart'
      BY <1>1, <1>6, <1>8, <1>11, VmApart
    <2>3. QED
      BY <1>1, <1>9, <1>11, <2>1, <2>2, FilesApart
  <1>12. CASE /\ new < first /\ Lock(p)
              /\ job' = [NoJob EXCEPT !.op = "unmap", !.at = new, !.from = new, !.end = first]
              /\ UNCHANGED <<refcnt, vmrs>>
    <2>1. vm_lock' = p /\ Go(p, "vm", NoFile)
      BY <1>12 DEF Lock
    <2>2. Moves(p)
      BY <1>1, <2>1, FileAssumption DEF Moves
    <2>3. /\ job' \in JobType /\ job'.op = "unmap" /\ job'.region = NoRegion
          /\ job'.at = new /\ job'.from = new /\ job'.end = first
      <3>1. first \in 0 .. Top /\ new \in Nat
        BY <1>3, <1>4
      <3>2. QED
        BY <1>12, <3>1 DEF JobType, NoJob, Ops
    <2>4. KernelPages <= job'.from /\ job'.from <= job'.at /\ job'.at <= job'.end
      BY <1>3, <1>4, <1>12, <2>3
    <2>5. VmPart'
      BY <1>1, <1>6, <1>7, <1>8, <1>12, <2>1, <2>3, <2>4, JobChanges
    <2>6. QED
      BY <1>1, <1>9, <1>12, <2>2, <2>5, FilesApart
  <1>13. CASE UNCHANGED <<refcnt, pc, vmrs, vm_lock, job>>
    <2>1. Moves(p)
      BY <1>1, <1>7, <1>13 DEF Moves, FilePart, Locks
    <2>2. vm_lock' \in Harts \cup {NoHart}
      BY <1>1, <1>13
    <2>3. VmPart'
      BY <1>1, <1>6, <1>8, <1>13, <2>2, VmApart
    <2>4. QED
      BY <1>1, <1>9, <1>13, <2>1, <2>3, FilesApart
  <1>14. QED
    BY <1>2, <1>10, <1>11, <1>12, <1>13 DEF new

-----------------------------------------------------------------------------
(* The invariant, and the theorems.                                        *)

VmInv == FilePart /\ VmPart

\* The invariant holds at first.
LEMMA InitInv ==
  ASSUME VmInit
  PROVE  VmInv
  <1> PICK s \in Regions :
        /\ pte = [a \in Pages |-> IF a < KernelPages THEN KernelEntry
                                  ELSE IF a = Stack THEN ToRegion(s) ELSE NoEntry]
        /\ vmrs = [v \in Regions |->
                     IF v = s THEN [Free EXCEPT !.refcnt = 1, !.addr = Stack, !.prot = Rights]
                     ELSE Free]
    BY DEF VmInit
  <1>1. /\ brk = 0 /\ brk_max = Top /\ vm_lock = NoHart /\ job = NoJob
        /\ want = [p \in Harts |-> 0] /\ mem = [a \in Pages |-> Old]
        /\ asked = [a \in Pages |-> IF a = Stack
                                    THEN [by |-> "boot", part |-> Zeroes, prot |-> Rights]
                                    ELSE NotAsked]
        /\ refcnt = [f \in Files |-> 0] /\ offset = [f \in Files |-> 0]
        /\ fd = [f \in Files |-> [open |-> FALSE, pos |-> 0]]
        /\ file_lock = NoHart /\ refcnt_lock = NoHart
        /\ pc = [p \in Harts |-> [at |-> "idle", file |-> NoFile]]
        /\ holder = [f \in Files |-> NoHart]
    BY DEF VmInit, FileInit
  <1>2. /\ Stack \in Pages /\ Stack >= KernelPages /\ 0 \in Pages /\ Stack \in Nat
        /\ KernelPages \in Nat /\ Top \in Nat /\ KernelPages <= Top
    BY VmAssumption DEF Stack, Pages
  <1>3. ASSUME NEW v \in Regions
        PROVE  /\ vmrs[v] \in RegionRecord /\ vmrs[v].file = NoFile
               /\ vmrs[v].refcnt = (IF v = s THEN 1 ELSE 0)
               /\ v = s => vmrs[v].prot = Rights
    BY <1>2 DEF Free, RegionRecord, Rights
  <1>4. vmrs \in [Regions -> RegionRecord]
    <2>1. vmrs = [v \in Regions |-> vmrs[v]]
      OBVIOUS
    <2>2. QED
      BY <1>3, <2>1
  <1>5. ASSUME NEW a \in Pages
        PROVE  /\ pte[a] = IF a < KernelPages THEN KernelEntry
                           ELSE IF a = Stack THEN ToRegion(s) ELSE NoEntry
               /\ pte[a] \in Entries /\ pte[a].prot = {}
               /\ pte[a].kind = "region" => a = Stack /\ pte[a].region = s
               /\ pte[a].kind = "region" <=> pte[a].region # NoRegion
               /\ pte[a].kind \in {"none", "region", "kernel"}
               /\ pte[a].kind = "kernel" => ~ a >= KernelPages
    BY <1>2, VmAssumption DEF KernelEntry, ToRegion, NoEntry, Entries, Rights, Pages
  <1>6. \A f \in Files : Mapped(f) = {}
    BY <1>3, FileAssumption DEF Mapped
  <1>7. FilePart
    <2>1. FileTypes
      BY <1>1, FileAssumption DEF FileTypes, Places
    <2>2. Locks /\ ReadsAtOffset
      BY <1>1 DEF Locks, ReadsAtOffset
    <2>3. FileCounts
      BY <1>1, <1>6 DEF FileCounts, FileCount
    <2>4. QED
      BY <2>1, <2>2, <2>3 DEF FilePart
  <1>8. VmTypes
    <2>1. pte \in [Pages -> Entries]
      <3>1. pte = [a \in Pages |-> pte[a]]
        OBVIOUS
      <3>2. QED
        BY <1>5, <3>1
    <2>2. job \in JobType
      BY <1>1, <1>2 DEF JobType, NoJob, Ops, Rights
    <2>3. mem \in [Pages -> Contents]
      BY <1>1 DEF Contents, Old
    <2>4. asked \in [Pages -> [by : {"none", "boot", "mmap", "brk"}, part : Filled,
                               prot : SUBSET Rights]]
      BY <1>1 DEF NotAsked, Zeroes, Filled, Rights
    <2>5. want \in [Harts -> Pages]
      BY <1>1, <1>2
    <2>6. QED
      BY <1>1, <1>2, <1>4, <1>5, <2>1, <2>2, <2>3, <2>4, <2>5
         DEF VmTypes, JobType, RegionRecord
  <1>9. job.op = "none" /\ job.region = NoRegion /\ ~ Halfway
    BY <1>1 DEF NoJob, Halfway
  <1>10. JobAt
    BY <1>9 DEF JobAt
  <1>11. RegionCounts
    <2> SUFFICES ASSUME NEW v \in Regions
                 PROVE  vmrs[v].refcnt = Cardinality(Untouched(v)) + InHand(v)
      BY DEF RegionCounts
    <2>1. InHand(v) = 0
      BY <1>9, VmAssumption DEF InHand
    <2>2. Untouched(v) = IF v = s THEN {Stack} ELSE {}
      BY <1>2, <1>5, VmAssumption, EntryIs, <1>8 DEF Untouched
    <2>3. Cardinality({Stack}) = 1 /\ Cardinality({}) = 0
      BY FS_Singleton, FS_EmptySet
    <2>4. QED
      BY <1>3, <2>1, <2>2, <2>3
  <1>12. ContentsInv /\ ContentsAsAsked
    <2>1. ASSUME NEW a \in Pages, pte[a].kind = "region"
          PROVE  asked[a].part = Part(vmrs[pte[a].region], a)
      BY <1>1, <1>3, <1>5, <2>1 DEF Part
    <2>2. \A a \in Pages : mem[a] # Stored
      BY <1>1 DEF Old, Stored
    <2>3. \A a \in KernelPages .. Top - 1 : a \in Pages
      BY <1>2 DEF Pages
    <2>4. QED
      BY <1>5, <1>9, <2>1, <2>2, <2>3 DEF ContentsInv, ContentsAsAsked, Halfway
  <1>13. RightsInv
    BY <1>9 DEF RightsInv
  <1>14. RightsAsAsked
    <2> SUFFICES ASSUME NEW a \in Pages
                 PROVE  (IF pte[a].kind = "region" THEN vmrs[pte[a].region].prot
                         ELSE pte[a].prot) \cap {"W", "X"} \subseteq asked[a].prot
      BY DEF RightsAsAsked
    <2>1. CASE pte[a].kind = "region"
      BY <1>1, <1>2, <1>3, <1>5, <2>1 DEF Rights
    <2>2. CASE pte[a].kind # "region"
      BY <1>5, <2>2
    <2>3. QED
      BY <2>1, <2>2
  <1>15. GrowthInv
    BY <1>1, <1>9 DEF GrowthInv, NotAsked
  <1>16. QED
    BY <1>7, <1>8, <1>10, <1>11, <1>12, <1>13, <1>14, <1>15 DEF VmInv, VmPart

\* Every step keeps it.
LEMMA StepInv ==
  ASSUME VmInv, [VmNext]_vars
  PROVE  VmInv'
  <1> USE DEF VmInv
  <1>1. CASE UNCHANGED vars
    <2>1. VmPart'
      BY <1>1, VmFrame DEF vars
    <2>2. UNCHANGED <<refcnt, offset, fd, file_lock, refcnt_lock, pc, holder, vm_lock, job, vmrs>>
      BY <1>1 DEF vars, fileVars, table, vmVars
    <2>3. FileTypes' /\ Locks' /\ ReadsAtOffset'
      BY <2>2 DEF FilePart, FileTypes, Locks, ReadsAtOffset
    <2>4. FileCounts'
      BY <2>2 DEF FilePart, FileCounts, FileCount, Mapped
    <2>5. QED
      BY <2>1, <2>3, <2>4 DEF FilePart
  <1>2. ASSUME NEW p \in Harts, FileNext(p), UNCHANGED vmVars PROVE VmInv'
    BY <1>2, FileStep, VmFrame
  <1>3. ASSUME NEW p \in Harts, do_mmap(p) \/ do_munmap(p) \/ do_brk(p) \/ do_mprotect(p)
        PROVE  VmInv'
    BY <1>3, MmapStep, MunmapCallStep, BrkStep, MprotectStep
  <1>4. ASSUME NEW p \in Harts, Store(p) \/ PageFault(p) \/ handle_page_fault(p)
        PROVE  VmInv'
    BY <1>4, StoreStep, PageFaultStep, HandleStep
  <1>5. ASSUME NEW p \in Harts, MapPage(p) \/ UnmapPage(p) \/ CloseMapped(p) \/ Finish(p)
        PROVE  VmInv'
    BY <1>5, MapStep, UnmapStep, CloseMappedStep, FinishStep
  <1>6. ASSUME NEW p \in Harts, FillPage(p) \/ ReadPage(p) \/ DropPage(p) \/ InstallPage(p)
        PROVE  VmInv'
    BY <1>6, FillStep, ReadStep, DropStep, InstallStep
  <1>7. QED
    BY <1>1, <1>2, <1>3, <1>4, <1>5, <1>6 DEF VmNext

\* The invariant is inductive (bbl/vm.c, bbl/file.c).
THEOREM VmInvariant == VmSpec => []VmInv
  <1>1. VmInit => VmInv
    BY InitInv
  <1>2. VmInv /\ [VmNext]_vars => VmInv'
    BY StepInv
  <1>3. QED
    BY <1>1, <1>2, PTL DEF VmSpec

\* A region is referenced once for each page nobody has touched, and a file once for
\* its opener and once for each region mapped from it (__vmr_alloc, __vmr_decref,
\* file_incref, file_decref).
THEOREM CountsAlwaysExact == VmSpec => []CountsExact
  <1>1. VmInv => CountsExact
    BY DEF VmInv, FilePart, VmPart, CountsExact, RegionCounts, FileCounts, FileCount
  <1>2. QED
    BY <1>1, VmInvariant, PTL

\* A page the program can get at holds what its mapping asked for, or what the
\* program stored (__handle_page_fault).
THEOREM ContentsAlwaysAsAsked == VmSpec => []ContentsAsAsked
  <1>1. VmInv => ContentsAsAsked
    BY DEF VmInv, VmPart
  <1>2. QED
    BY <1>1, VmInvariant, PTL

\* No page gets the right to be written or executed that its mapping did not ask for
\* (do_mprotect).
THEOREM RightsAlwaysAsAsked == VmSpec => []RightsAsAsked
  <1>1. VmInv => RightsAsAsked
    BY DEF VmInv, VmPart
  <1>2. QED
    BY <1>1, VmInvariant, PTL

\* A heap that grows replaces no page a do_mmap has placed in its range (__do_brk).
THEOREM GrowthAlwaysSpares == VmSpec => []GrowthSparesMappings
  <1>1. ASSUME VmInv PROVE GrowthSparesMappings
    <2> SUFFICES ASSUME job.op = "map", job.by = "brk",
                        NEW a \in job.at .. job.end - 1, a >= BrkMin, asked[a].by = "mmap"
                 PROVE  FALSE
      BY DEF GrowthSparesMappings
    <2>1. job.at \in Nat /\ job.end \in Nat /\ job.end <= Top /\ brk_max \in Nat
          /\ BrkMin \in Nat
      BY <1>1, VmAssumption DEF VmInv, VmPart, VmTypes
    <2>2. a \in Pages /\ a < job.end
      BY <2>1, VmAssumption DEF Pages
    <2>3. brk_max <= a
      BY <1>1, <2>2 DEF VmInv, VmPart, GrowthInv
    <2>4. job.end <= brk_max \/ job.end <= BrkMin
      BY <1>1 DEF VmInv, VmPart, GrowthInv
    <2>5. QED
      BY <2>1, <2>2, <2>3, <2>4
  <1>2. QED
    BY <1>1, VmInvariant, PTL

\* A file_read moves the bytes at the offset the entry keeps (file_lock).
THEOREM ReadsAlwaysAtOffset == VmSpec => []ReadsAtOffset
  <1>1. VmInv => ReadsAtOffset
    BY DEF VmInv, FilePart
  <1>2. QED
    BY <1>1, VmInvariant, PTL

\* Nothing but unmapping a page or mapping over it loses what the program stored
\* (handle_page_fault).
THEOREM StoresAlwaysSurvive == VmSpec => StoresSurvive
  <1> DEFINE Survives == \A a \in Pages : mem[a] = Stored /\ mem'[a] # Stored
                                         => pte'[a].kind \in {"none", "region"}
  <1>1. ASSUME VmInv, VmNext PROVE Survives
    <2> SUFFICES ASSUME NEW a \in Pages, mem[a] = Stored, mem'[a] # Stored
                 PROVE  pte'[a].kind \in {"none", "region"}
      OBVIOUS
    <2>1. mem' # mem
      OBVIOUS
    <2>2. /\ mem \in [Pages -> Contents] /\ pte \in [Pages -> Entries]
          /\ pte[a].kind = "user"
      BY <1>1 DEF VmInv, VmPart, VmTypes, ContentsInv
    <2>3. ASSUME NEW p \in Harts, Store(p) PROVE FALSE
      <3>1. PICK b \in Pages : mem' = [mem EXCEPT ![b] = Stored]
        BY <2>3 DEF Store
      <3>2. QED
        BY <2>2, <3>1
    <2>4. ASSUME NEW p \in Harts, MapPage(p) PROVE pte'[a].kind = "region"
      <3>1. /\ mem' = [mem EXCEPT ![job.at] = Old]
            /\ pte' = [pte EXCEPT ![job.at] = ToRegion(job.region)]
        BY <2>4 DEF MapPage
      <3>2. a = job.at
        BY <2>2, <3>1
      <3>3. QED
        BY <2>2, <3>1, <3>2 DEF ToRegion
    <2>5. ASSUME NEW p \in Harts, UnmapPage(p) PROVE pte'[a].kind = "none"
      <3>1. /\ mem' = [mem EXCEPT ![job.at] = Old]
            /\ pte' = [pte EXCEPT ![job.at] = NoEntry]
        BY <2>5 DEF UnmapPage
      <3>2. a = job.at
        BY <2>2, <3>1
      <3>3. QED
        BY <2>2, <3>1, <3>2 DEF NoEntry
    <2>6. ASSUME NEW p \in Harts, ReadPage(p) PROVE FALSE
      <3>1. job.op = "read" /\ (mem' = mem \/ \E c : mem' = [mem EXCEPT ![job.at] = c])
        BY <2>6 DEF ReadPage, Busy
      <3>2. pte[job.at] = KernelEntry
        BY <1>1, <3>1 DEF VmInv, VmPart, JobAt, Halfway
      <3>3. a # job.at
        <4>1. pte[job.at].kind = "kernel"
          BY <3>2, KernelEntryKind
        <4>2. QED
          BY <2>2, <4>1
      <3>4. QED
        BY <2>2, <3>1, <3>3
    <2>7. ASSUME NEW p \in Harts,
                 \/ UNCHANGED vmVars
                 \/ do_mmap(p) \/ do_munmap(p) \/ do_brk(p) \/ do_mprotect(p)
                 \/ PageFault(p) \/ handle_page_fault(p)
                 \/ FillPage(p) \/ DropPage(p) \/ InstallPage(p)
                 \/ CloseMapped(p) \/ Finish(p)
          PROVE  FALSE
      BY <2>1, <2>7 DEF vmVars, do_mmap, do_munmap, do_brk, do_mprotect, PageFault,
           handle_page_fault, FillPage, DropPage, InstallPage, CloseMapped, Finish
    <2>8. QED
      BY <1>1, <2>3, <2>4, <2>5, <2>6, <2>7 DEF VmNext
  <1>2. VmInv /\ [VmNext]_vars => [Survives]_vars
    BY <1>1
  <1>3. QED
    BY <1>2, VmInvariant, PTL DEF VmSpec, StoresSurvive
=============================================================================
