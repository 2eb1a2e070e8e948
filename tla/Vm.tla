-------------------------------- MODULE Vm ---------------------------------
(***************************************************************************)
(* The pages of a program under the proxy kernel's memory manager          *)
(* (bbl/vm.c) and the files they are mapped from (FileTable).  A page is   *)
(* mapped in two steps: mmap points its entry at a region, and the first   *)
(* access fills the page, through an entry only the kernel can use, and    *)
(* installs the one the program uses.  A region and a file live as long    *)
(* as something counts on them.                                            *)
(*                                                                         *)
(* Memory is counted in pages: pages below KernelPages are the kernel's,   *)
(* the last page below Top is the stack pk_vm_init maps.  Whoever holds    *)
(* vm_lock has a job, done page by page.  Page tables and their allocator  *)
(* are left out.                                                           *)
(***************************************************************************)
EXTENDS FileTable, Integers, FiniteSets

CONSTANTS
  Regions, NoRegion, \* the entries of vmrs[]
  KernelPages,       \* pages below current.first_free_paddr
  Top,               \* current.mmap_max
  BrkMin,            \* current.brk_min, rounded up
  Prots,             \* the rights calls ask for
  Offsets            \* the offsets of mappings into files

ASSUME VmAssumption ==
  /\ NoRegion \notin Regions /\ IsFiniteSet(Regions) /\ Regions # {}
  /\ KernelPages \in Nat \ {0} /\ Top \in Nat /\ BrkMin \in Nat
  /\ KernelPages <= BrkMin /\ BrkMin < Top
  /\ Prots \subseteq SUBSET {"R", "W", "X"}
  /\ Offsets \subseteq Nat

Rights == {"R", "W", "X"}
Pages == 0 .. Top - 1
Stack == Top - 1

\* What a page holds: what an earlier use of the memory left there, what the
\* program stored, or a page of a file, or of nothing, that it was filled with.
Old == [kind |-> "old", file |-> NoFile, index |-> 0]
Stored == [kind |-> "stored", file |-> NoFile, index |-> 0]
Zeroes == [kind |-> "filled", file |-> NoFile, index |-> 0]
PartOf(f, n) == [kind |-> "filled", file |-> f, index |-> n]

\* An entry of the page table: none; a region, in place of an address; the
\* kernel's own; the program's, with the rights pte_create gives it.
NoEntry == [kind |-> "none", region |-> NoRegion, prot |-> {}]
ToRegion(v) == [kind |-> "region", region |-> v, prot |-> {}]
KernelEntry == [kind |-> "kernel", region |-> NoRegion, prot |-> {}]
pte_create(prot) ==
  [kind |-> "user", region |-> NoRegion,
   prot |-> IF prot = {} THEN {} ELSE prot \cup {"R"}]

VARIABLES
  pte,      \* the page table
  vmrs,     \* the regions: references, first page, file, offset, rights
  brk, brk_max,
  vm_lock,
  job,      \* what its holder does
  want,     \* the page and the right of each hart's page fault
  mem,      \* what each page holds
  asked     \* history: what the last mapping of a page asked for, and who

vmVars == <<pte, vmrs, brk, brk_max, vm_lock, job, want, mem, asked>>
vars == <<fileVars, vmVars>>

NoJob == [op |-> "none", by |-> "none", at |-> 0, from |-> 0, end |-> 0, region |-> NoRegion,
          populate |-> FALSE, prot |-> {}, closing |-> NoFile]
Free == [refcnt |-> 0, addr |-> 0, file |-> NoFile, offset |-> 0, prot |-> {}]
NotAsked == [by |-> "none", part |-> Zeroes, prot |-> {}]

\* As pk_vm_init leaves it, on the one hart that runs.
VmInit ==
  /\ FileInit
  /\ \E s \in Regions :
       /\ pte = [a \in Pages |-> IF a < KernelPages THEN KernelEntry
                                 ELSE IF a = Stack THEN ToRegion(s) ELSE NoEntry]
       /\ vmrs = [v \in Regions |->
                    IF v = s THEN [Free EXCEPT !.refcnt = 1, !.addr = Stack,
                                               !.prot = Rights]
                    ELSE Free]
  /\ brk = 0 /\ brk_max = Top
  /\ vm_lock = NoHart /\ job = NoJob
  /\ want = [p \in Harts |-> 0]
  /\ mem = [a \in Pages |-> Old]
  /\ asked = [a \in Pages |-> IF a = Stack
                              THEN [by |-> "boot", part |-> Zeroes, prot |-> Rights]
                              ELSE NotAsked]

-----------------------------------------------------------------------------
(* Regions.                                                                *)

__valid_user_range(a, n) == a >= KernelPages /\ a + n <= Top

\* Where n pages fit above the break: nowhere, or the first place.
__vm_alloc(n) ==
  LET fits == {a \in brk .. Top - n :
                 \A i \in a .. a + n - 1 : pte[i].kind = "none"}
  IN {a \in fits : \A b \in fits : a <= b}

\* __vmr_alloc and the rest of __do_mmap: n pages at a, one reference each.
__do_mmap(by, a, n, prot, populate, f, off) ==
  \E v \in Regions :
    /\ vmrs[v].refcnt = 0
    /\ IF f = NoFile THEN UNCHANGED refcnt ELSE file_incref(f)
    /\ vmrs' = [vmrs EXCEPT ![v] = [refcnt |-> n, addr |-> a, file |-> f,
                                    offset |-> off, prot |-> prot]]
    /\ job' = [NoJob EXCEPT !.op = "map", !.by = by, !.at = a, !.from = a,
                            !.end = a + n, !.region = v, !.populate = populate]

LastRef(v) == vmrs[v].refcnt = 1 /\ vmrs[v].file # NoFile

\* The file p must close when it drops a reference to region v.
ToClose(v) == IF LastRef(v) /\ refcnt[vmrs[v].file] = 2 THEN vmrs[v].file ELSE NoFile

\* A region that nothing counts on any more is as good as cleared.
__vmr_decref(p, v) ==
  /\ vmrs' = IF vmrs[v].refcnt = 1 THEN [vmrs EXCEPT ![v] = Free]
             ELSE [vmrs EXCEPT ![v].refcnt = @ - 1]
  /\ IF LastRef(v) THEN file_decref(p, vmrs[v].file)
     ELSE UNCHANGED <<refcnt, offset, refcnt_lock>>

\* Mutant: the entry is overwritten.
Overwrite(p, a) == UNCHANGED <<vmrs, refcnt, offset, refcnt_lock>>

\* What mapping over a page and unmapping it do to the entry that is there.
Forget(p, a) ==
  IF pte[a].kind = "region"
  THEN __vmr_decref(p, pte[a].region)
  ELSE UNCHANGED <<vmrs, refcnt, offset, refcnt_lock>>
Forgotten(a) == IF pte[a].kind = "region" THEN ToClose(pte[a].region) ELSE NoFile

-----------------------------------------------------------------------------
(* The calls, up to the page by page part.                                 *)

Lock(p) ==
  /\ vm_lock = NoHart /\ vm_lock' = p
  /\ Go(p, "vm", NoFile)

\* Mutant: a mapping does not limit the heap.
BelowTop(a) == brk_max

Below(a) == IF a < brk_max THEN a ELSE brk_max

\* do_mmap: where it is told, or wherever the pages fit.
do_mmap(p) ==
  /\ Call(p) /\ Lock(p)
  /\ \E n \in 1 .. Top, prot \in Prots, populate \in BOOLEAN,
        f \in {NoFile} \cup {g \in Files : holder[g] = p}, off \in Offsets :
     \E a \in (KernelPages .. Top - 1) \cup __vm_alloc(n) :
       /\ f = NoFile => off = 0
       /\ __valid_user_range(a, n)
       /\ __do_mmap("mmap", a, n, prot, populate, f, off)
       /\ brk_max' = Below(a)
  /\ UNCHANGED <<offset, fd, file_lock, refcnt_lock, holder,
                 pte, brk, want, mem, asked>>

do_munmap(p) ==
  /\ Call(p) /\ Lock(p)
  /\ \E n \in 1 .. Top, a \in Pages :
       /\ __valid_user_range(a, n)
       /\ job' = [NoJob EXCEPT !.op = "unmap", !.at = a, !.from = a, !.end = a + n]
  /\ UNCHANGED <<table, file_lock,
                 pte, vmrs, brk, brk_max, want, mem, asked>>

\* The stores in brk; growing it is a mapping that must succeed.
do_brk(p) ==
  LET first == IF brk = 0 THEN BrkMin ELSE brk IN
  /\ Call(p) /\ vm_lock = NoHart
  /\ \E addr \in KernelPages .. Top + 1 :
       LET new == IF addr < BrkMin THEN BrkMin
                  ELSE IF addr > brk_max THEN brk_max ELSE addr
       IN /\ brk' = new
          /\ \/ /\ new > first
                /\ Lock(p)
                /\ __do_mmap("brk", first, new - first, Rights, FALSE, NoFile, 0)
             \/ /\ new > first /\ \A v \in Regions : vmrs[v].refcnt # 0
                /\ Panic(p)
                /\ vm_lock' = p
                /\ UNCHANGED <<refcnt, vmrs, job>>
             \/ /\ new < first
                /\ Lock(p)
                /\ job' = [NoJob EXCEPT !.op = "unmap", !.at = new, !.from = new,
                                        !.end = first]
                /\ UNCHANGED <<refcnt, vmrs>>
             \/ /\ new = first
                /\ UNCHANGED <<refcnt, pc, vmrs, vm_lock, job>>
  /\ UNCHANGED <<offset, fd, file_lock, refcnt_lock, holder,
                 pte, brk_max, want, mem, asked>>

\* Mutant: the right to write is not looked at.
RefusedButWrites(i, prot) ==
  \/ pte[i].kind = "none"
  \/ pte[i].kind = "region" /\ ~ prot \subseteq vmrs[pte[i].region].prot
  \/ pte[i].kind \in {"kernel", "user"} /\ ~ (prot \cap {"X"}) \subseteq pte[i].prot

\* Pages do_mprotect may not change.
Refused(i, prot) ==
  \/ pte[i].kind = "none"
  \/ pte[i].kind = "region" /\ ~ prot \subseteq vmrs[pte[i].region].prot
  \/ pte[i].kind \in {"kernel", "user"} /\ ~ (prot \cap {"W", "X"}) \subseteq pte[i].prot

\* do_mprotect, under vm_lock from end to end.  It stops at the first page it
\* may not change; an untouched page passes its rights to its whole region.
do_mprotect(p) ==
  /\ Call(p) /\ vm_lock = NoHart
  /\ \E n \in 1 .. Top, a \in Pages, prot \in Prots :
       LET span == {i \in a .. a + n - 1 : i < Top}
           done == {i \in span : \A k \in a .. i : ~ Refused(k, prot)}
       IN /\ pte' = [i \in Pages |-> IF i \in done /\ pte[i].kind # "region"
                                     THEN pte_create(prot) ELSE pte[i]]
          /\ vmrs' = [v \in Regions |->
                        IF \E i \in done : pte[i] = ToRegion(v)
                        THEN [vmrs[v] EXCEPT !.prot = prot] ELSE vmrs[v]]
  /\ UNCHANGED <<table, file_lock, pc, brk, brk_max, vm_lock, job, want, mem, asked>>

-----------------------------------------------------------------------------
(* The program, and its page faults.                                       *)

Store(p) ==
  /\ Idle(p)
  /\ \E a \in Pages : "W" \in pte[a].prot /\ mem' = [mem EXCEPT ![a] = Stored]
  /\ UNCHANGED <<fileVars, pte, vmrs, brk, brk_max, vm_lock, job, want, asked>>

\* An access the page table does not allow, or file.c populating a buffer.
PageFault(p) ==
  /\ Idle(p)
  /\ \E a \in KernelPages .. Top - 1 :
       /\ pte[a].prot # Rights
       /\ want' = [want EXCEPT ![p] = a]
  /\ Go(p, "fault", NoFile)
  /\ UNCHANGED <<table, file_lock, calls,
                 pte, vmrs, brk, brk_max, vm_lock, job, mem, asked>>

\* Under vm_lock, what is there now decides: another hart may have filled the
\* page, or unmapped it, while this one waited.
handle_page_fault(p) ==
  LET a == want[p] IN
  /\ pc[p].at = "fault" /\ vm_lock = NoHart
  /\ IF pte[a].kind = "region" /\ __valid_user_range(a, 1)
     THEN /\ vm_lock' = p
          /\ Go(p, "vm", NoFile)
          /\ job' = [NoJob EXCEPT !.op = "fill", !.at = a, !.from = a, !.end = a + 1]
     ELSE Return(p) /\ UNCHANGED <<vm_lock, job>>
  /\ want' = [want EXCEPT ![p] = 0]
  /\ UNCHANGED <<table, file_lock, calls,
                 pte, vmrs, brk, brk_max, mem, asked>>

-----------------------------------------------------------------------------
(* The page by page part of a call, by the hart that holds vm_lock.        *)

Busy(p, op) == pc[p].at = "vm" /\ job.op = op /\ job.closing = NoFile
Working(p, op) == Busy(p, op) /\ job.at < job.end

\* The body of __do_mmap's loop: an entry that is there is unmapped first.
MapPage(p) ==
  LET a == job.at
      v == vmrs[job.region]
      part == IF v.file = NoFile THEN Zeroes ELSE PartOf(v.file, v.offset + (a - v.addr))
  IN
  /\ Working(p, "map")
  /\ Forget(p, a)
  /\ pte' = [pte EXCEPT ![a] = ToRegion(job.region)]
  /\ mem' = [mem EXCEPT ![a] = Old]
  /\ asked' = [asked EXCEPT ![a] = [by |-> job.by, part |-> part, prot |-> v.prot]]
  /\ job' = [job EXCEPT !.at = @ + 1, !.closing = Forgotten(a)]
  /\ UNCHANGED <<fd, file_lock, pc, holder,
                 brk, brk_max, vm_lock, want, calls>>

\* The body of __do_munmap's loop.
UnmapPage(p) ==
  LET a == job.at IN
  /\ Working(p, "unmap")
  /\ Forget(p, a)
  /\ pte' = [pte EXCEPT ![a] = NoEntry]
  /\ mem' = [mem EXCEPT ![a] = Old]
  /\ asked' = [asked EXCEPT ![a] = NotAsked]
  /\ job' = [job EXCEPT !.at = @ + 1, !.closing = Forgotten(a)]
  /\ UNCHANGED <<fd, file_lock, pc, holder,
                 brk, brk_max, vm_lock, want, calls>>

\* Mutant: the program's entry is installed before the page is filled.
FillInTheOpen(p) ==
  /\ Working(p, "fill")
  /\ job' = [job EXCEPT !.op = "read", !.region = pte[job.at].region]
  /\ pte' = [pte EXCEPT ![job.at] = pte_create(vmrs[@.region].prot)]
  /\ UNCHANGED <<fileVars, vmrs, brk, brk_max, vm_lock, want, mem, asked>>

\* __handle_page_fault of an untouched page, up to the read of the file.
FillPage(p) ==
  /\ Working(p, "fill")
  /\ job' = [job EXCEPT !.op = "read", !.region = pte[job.at].region]
  /\ pte' = [pte EXCEPT ![job.at] = KernelEntry]
  /\ UNCHANGED <<fileVars, vmrs, brk, brk_max, vm_lock, want, mem, asked>>

\* Mutant: every page of a mapping is read from its start.
FirstPage(v) == v.offset

\* The page of the file that belongs at job.at.
FilePage(v) == v.offset + (job.at - v.addr)

\* file_pread, which panics when the seek fails and must return something; or
\* zeroes.
ReadPage(p) ==
  LET v == vmrs[job.region]
      n == FilePage(v)
  IN
  /\ Busy(p, "read")
  /\ IF v.file = NoFile
     THEN /\ mem' = [mem EXCEPT ![job.at] = Zeroes]
          /\ job' = [job EXCEPT !.op = "drop"]
          /\ UNCHANGED <<fd, file_lock, pc>>
     ELSE /\ file_lock = NoHart
          /\ \/ /\ ~ fd[v.file].open
                /\ Panic(p)
                /\ file_lock' = p
                /\ UNCHANGED <<fd, mem, job>>
             \/ /\ fd[v.file].open
                /\ fd' = [fd EXCEPT ![v.file].pos = Clip(n + 1)]
                /\ IF n < FilePages
                   THEN /\ mem' = [mem EXCEPT ![job.at] = PartOf(v.file, n)]
                        /\ job' = [job EXCEPT !.op = "drop"]
                        /\ UNCHANGED pc
                   ELSE Panic(p) /\ UNCHANGED <<mem, job>>
                /\ UNCHANGED file_lock
  /\ UNCHANGED <<refcnt, offset, refcnt_lock, holder, calls,
                 pte, vmrs, brk, brk_max, vm_lock, want, asked>>

DropPage(p) ==
  /\ Busy(p, "drop")
  /\ __vmr_decref(p, job.region)
  /\ job' = [job EXCEPT !.op = "install", !.prot = vmrs[job.region].prot,
                      !.region = NoRegion, !.closing = ToClose(job.region)]
  /\ UNCHANGED <<fd, file_lock, pc, holder, calls,
                 pte, brk, brk_max, vm_lock, want, mem, asked>>

InstallPage(p) ==
  /\ Busy(p, "install")
  /\ pte' = [pte EXCEPT ![job.at] = pte_create(job.prot)]
  /\ job' = [job EXCEPT !.op = "fill", !.at = @ + 1, !.prot = {}]
  /\ UNCHANGED <<fileVars, vmrs, brk, brk_max, vm_lock, want, mem, asked>>

\* The close inside __vmr_decref.
CloseMapped(p) ==
  /\ pc[p].at = "vm" /\ job.closing # NoFile
  /\ f_close(p, job.closing)
  /\ job' = [job EXCEPT !.closing = NoFile]
  /\ UNCHANGED <<refcnt, offset, file_lock, pc, holder, calls,
                 pte, vmrs, brk, brk_max, vm_lock, want, mem, asked>>

\* MAP_POPULATE makes a second pass over the pages; then the lock is released.
Finish(p) ==
  /\ \E op \in {"map", "unmap", "fill"} : Busy(p, op)
  /\ job.at = job.end
  /\ IF job.op = "map" /\ job.populate
     THEN /\ job' = [job EXCEPT !.op = "fill", !.at = job.from, !.region = NoRegion]
          /\ UNCHANGED <<vm_lock, pc>>
     ELSE /\ job' = NoJob
          /\ vm_lock' = NoHart
          /\ Return(p)
  /\ UNCHANGED <<table, file_lock, calls,
                 pte, vmrs, brk, brk_max, want, mem, asked>>

VmNext ==
  \E p \in Harts :
    \/ FileNext(p) /\ UNCHANGED vmVars
    \/ do_mmap(p) \/ do_munmap(p) \/ do_brk(p) \/ do_mprotect(p)
    \/ Store(p) \/ PageFault(p) \/ handle_page_fault(p)
    \/ MapPage(p) \/ UnmapPage(p)
    \/ FillPage(p) \/ ReadPage(p) \/ DropPage(p) \/ InstallPage(p)
    \/ CloseMapped(p) \/ Finish(p)

VmSpec == VmInit /\ [][VmNext]_vars

-----------------------------------------------------------------------------
(* Properties.                                                             *)

Untouched(v) == {a \in Pages : pte[a] = ToRegion(v)}

\* References a call in progress has still to give an entry, or to drop.
InHand(v) ==
  IF job.region # v THEN 0
  ELSE CASE job.op = "map" -> job.end - job.at
         [] job.op \in {"read", "drop"} -> 1
         [] OTHER -> 0

Mapped(f) == {v \in Regions : vmrs[v].refcnt > 0 /\ vmrs[v].file = f}

\* Nothing is given up while something still points at it, nor kept longer.  A
\* region is referenced once for each of its pages nobody has touched, so its slot
\* is reused no earlier than its last entry goes (__vmr_alloc, __vmr_decref).  A
\* file counts its opener and the live regions mapped from it, and one more for
\* the table: it is free only when neither is left (file_incref, file_decref).
CountsExact ==
  /\ \A v \in Regions : vmrs[v].refcnt = Cardinality(Untouched(v)) + InHand(v)
  /\ \A f \in Files :
       refcnt[f] = IF holder[f] = NoHart /\ Mapped(f) = {} THEN 0
                   ELSE 1 + (IF holder[f] = NoHart THEN 0 ELSE 1) + Cardinality(Mapped(f))

\* A page the program can get at holds the part its mapping asked for or what the
\* program has stored there since, never what the memory held before.
ContentsAsAsked ==
  \A a \in KernelPages .. Top - 1 :
    pte[a].kind = "user" => mem[a] \in {Stored, asked[a].part}

\* Nothing but unmapping a page or mapping over it loses what the program stored:
\* two harts that fault on one page fill it once.
StoresSurvive ==
  [][\A a \in Pages : mem[a] = Stored /\ mem'[a] # Stored
                        => pte'[a].kind \in {"none", "region"}]_vars

\* A page may be written or executed only if its mapping asked for that: mprotect
\* can take these rights away but not give them (do_mprotect).
RightsAsAsked ==
  \A a \in Pages :
    LET prot == IF pte[a].kind = "region" THEN vmrs[pte[a].region].prot ELSE pte[a].prot
    IN prot \cap {"W", "X"} \subseteq asked[a].prot

\* A heap that grows replaces no page a do_mmap has placed in its range: brk_max
\* stays below all of them (do_mmap, __do_brk).
GrowthSparesMappings ==
  job.op = "map" /\ job.by = "brk" =>
    \A a \in job.at .. job.end - 1 : a >= BrkMin => asked[a].by # "mmap"

\* A file_read moves the bytes at the offset the entry keeps, whatever page faults
\* read from the same descriptor meanwhile (file_lock).
ReadsAtOffset ==
  \A p \in Harts :
    LET f == pc[p].file IN
    pc[p].at = "read" /\ fd[f].open => fd[f].pos = offset[f]
=============================================================================
