-------------------------------- MODULE Boot --------------------------------
(***************************************************************************)
(* How the harts of the machine start bbl (bbl/mentry.S, minit.c, init.c,  *)
(* elf.c, bbl.c, supervisor_vm_init of vm.c).  All of them leave reset     *)
(* together and run machine_init; hart 0 goes on to load the supervisor    *)
(* from the SD card and to build its page table, the others wait for       *)
(* root_page_table, then for elf_loaded, and enter it too, or park when    *)
(* their number is not one the monitor serves.                             *)
(*                                                                         *)
(* Nothing orders machine_init of one hart and the boot loader of hart 0,  *)
(* and machine_init mounts the file system hart 0 loads from.              *)
(***************************************************************************)
EXTENDS Integers, FiniteSets

CONSTANTS
  Phys,       \* the harts the machine has, by mhartid; the boot hart is 0
  num_harts,  \* the harts the monitor serves (minit.c:8)
  Segments    \* PT_LOAD headers of the supervisor's ELF file

ASSUME PhysAssumption == 0 \in Phys
ASSUME BoundsAssumption == num_harts \in Nat \ {0} /\ Segments \in Nat

\* Where a hart is.  The boot hart: open, header, phdrs, segments, close,
\* vm_init, loaded.  The others: wait_vm, in_bounds, wait_elf.
Starting == {"reset", "machine_init", "hls_init"}
Loading == {"file_init", "open", "header", "phdrs", "segments", "close",
            "vm_init", "loaded"}
Waiting == {"wait_vm", "in_bounds", "wait_elf"}
Final == {"supervisor", "parked", "panic"}

VARIABLES
  pc,               \* hart -> where it is
  hart_id,          \* hart -> HLS()->hart_id, also the number of its stack page
  num_harts_booted, \* the next hart id to give away (minit.c:9)
  fs_type,          \* whether FatFs.fs_type marks a mounted volume
  left,             \* segments still to read
  root_page_table,  \* whether the pointer is set
  sptbr,            \* the harts whose sptbr holds the root page table
  elf_loaded        \* bbl.c:4

vars == <<pc, hart_id, num_harts_booted, fs_type, left, root_page_table,
          sptbr, elf_loaded>>

\* Mutant: the counter starts at the boot hart's own id.
InitFromZero ==
  /\ pc = [h \in Phys |-> "reset"]
  /\ hart_id = [h \in Phys |-> 0]
  /\ num_harts_booted = 0
  /\ fs_type = FALSE
  /\ left = Segments
  /\ root_page_table = FALSE
  /\ sptbr = {}
  /\ elf_loaded = FALSE

Init ==
  /\ pc = [h \in Phys |-> "reset"]
  /\ hart_id = [h \in Phys |-> 0]
  /\ num_harts_booted = 1
  /\ fs_type = FALSE
  /\ left = Segments
  /\ root_page_table = FALSE
  /\ sptbr = {}
  /\ elf_loaded = FALSE

Goto(h, from, to) ==
  /\ pc[h] = from
  /\ pc' = [pc EXCEPT ![h] = to]

-----------------------------------------------------------------------------
(* Every hart.                                                             *)

\* mentry.S: the boot hart keeps id 0; the others take the next id with one
\* amoadd, and with it their stack page.
Reset(h) ==
  /\ Goto(h, "reset", "machine_init")
  /\ IF h = 0
     THEN UNCHANGED <<hart_id, num_harts_booted>>
     ELSE /\ hart_id' = [hart_id EXCEPT ![h] = num_harts_booted]
          /\ num_harts_booted' = num_harts_booted + 1
  /\ UNCHANGED <<fs_type, left, root_page_table, sptbr, elf_loaded>>

\* machine_init up to f_mount, which invalidates whatever is mounted.
Mount(h) ==
  /\ Goto(h, "machine_init", "hls_init")
  /\ fs_type' = FALSE
  /\ UNCHANGED <<hart_id, num_harts_booted, left, root_page_table, sptbr, elf_loaded>>

\* hls_init, mstatus_init and fp_init touch the hart's own state only; a core
\* without the extensions the monitor was built for panics.
HartInit(h) ==
  /\ \/ Goto(h, "hls_init", IF hart_id[h] = 0 THEN "file_init" ELSE "wait_vm")
     \/ Goto(h, "hls_init", "panic")
  /\ UNCHANGED <<hart_id, num_harts_booted, fs_type, left, root_page_table, sptbr,
                 elf_loaded>>

-----------------------------------------------------------------------------
(* The boot hart.                                                          *)

bootVars == <<hart_id, num_harts_booted, root_page_table, sptbr, elf_loaded>>

\* file_init, memory_init and vm_init.
FileInit(h) ==
  /\ Goto(h, "file_init", "open")
  /\ UNCHANGED <<bootVars, fs_type, left>>

\* file_open mounts the volume when fs_type says none is; no card, no file
\* or a bad volume panics.
Open(h) ==
  /\ \/ Goto(h, "open", "header") /\ fs_type' = TRUE
     \/ Goto(h, "open", "panic") /\ UNCHANGED fs_type
  /\ UNCHANGED <<bootVars, left>>

\* A file_pread: f_lseek refuses an object whose volume is no longer mounted,
\* and a read that comes back short panics in the caller.
Pread(h, from, to) ==
  /\ Goto(h, from, IF fs_type THEN to ELSE "panic")

\* The ELF header: a short read and a file that is not ELF64 panic.
ReadHeader(h) ==
  /\ Pread(h, "header", "phdrs") \/ Goto(h, "header", "panic")
  /\ UNCHANGED <<bootVars, fs_type, left>>

\* The program headers: too many of them, or a short read, panic.
ReadPhdrs(h) ==
  /\ Pread(h, "phdrs", "segments") \/ Goto(h, "phdrs", "panic")
  /\ UNCHANGED <<bootVars, fs_type, left>>

\* The segments, the last one first.
\* Mutant: the last one is left out.
MoreSegmentsButOne == left > 1
MoreSegments == left > 0

ReadSegment(h) ==
  /\ MoreSegments
  /\ Pread(h, "segments", "segments") \/ Goto(h, "segments", "panic")
  /\ left' = IF pc'[h] = "segments" THEN left - 1 ELSE left
  /\ UNCHANGED <<bootVars, fs_type>>

SegmentsRead(h) ==
  /\ ~MoreSegments
  /\ Goto(h, "segments", "close")
  /\ UNCHANGED <<bootVars, fs_type, left>>

\* file_decref, whose f_close result nobody looks at; run_loaded_program
\* refuses a user program.
Close(h) ==
  /\ \E to \in {"vm_init", "panic"} : Goto(h, "close", to)
  /\ UNCHANGED <<bootVars, fs_type, left>>

\* Mutant: the tables are announced to the other harts only by elf_loaded.
SupervisorVmInitQuiet(h) ==
  /\ Goto(h, "vm_init", "loaded")
  /\ sptbr' = sptbr \cup {h}
  /\ UNCHANGED <<root_page_table, hart_id, num_harts_booted, fs_type, left, elf_loaded>>

\* supervisor_vm_init builds the tables, publishes them, and turns on its own; an
\* image that leaves no room for the SBI's page, or memory already allocated,
\* fails an assertion before that.
SupervisorVmInit(h) ==
  /\ \/ /\ Goto(h, "vm_init", "loaded")
        /\ root_page_table' = TRUE
        /\ sptbr' = sptbr \cup {h}
     \/ /\ Goto(h, "vm_init", "panic")
        /\ UNCHANGED <<root_page_table, sptbr>>
  /\ UNCHANGED <<hart_id, num_harts_booted, fs_type, left, elf_loaded>>

EnterFirst(h) ==
  /\ Goto(h, "loaded", "supervisor")
  /\ elf_loaded' = TRUE
  /\ UNCHANGED <<hart_id, num_harts_booted, fs_type, left, root_page_table, sptbr>>

-----------------------------------------------------------------------------
(* The other harts.                                                        *)

WaitForVm(h) ==
  /\ root_page_table
  /\ Goto(h, "wait_vm", "in_bounds")
  /\ sptbr' = sptbr \cup {h}
  /\ UNCHANGED <<hart_id, num_harts_booted, fs_type, left, root_page_table, elf_loaded>>

InBounds(h) ==
  /\ Goto(h, "in_bounds", IF hart_id[h] >= num_harts THEN "parked" ELSE "wait_elf")
  /\ UNCHANGED <<bootVars, fs_type, left>>

EnterOther(h) ==
  /\ elf_loaded
  /\ Goto(h, "wait_elf", "supervisor")
  /\ UNCHANGED <<bootVars, fs_type, left>>

-----------------------------------------------------------------------------
Boots(h) == \/ FileInit(h) \/ Open(h) \/ ReadHeader(h) \/ ReadPhdrs(h)
            \/ ReadSegment(h) \/ SegmentsRead(h) \/ Close(h)
            \/ SupervisorVmInit(h) \/ EnterFirst(h)
Follows(h) == WaitForVm(h) \/ InBounds(h) \/ EnterOther(h)
Step(h) == Reset(h) \/ Mount(h) \/ HartInit(h) \/ Boots(h) \/ Follows(h)

Next == \E h \in Phys : Step(h)

Spec == Init /\ [][Next]_vars

\* Every hart executes its instructions.
LiveSpec == Spec /\ \A h \in Phys : WF_vars(Step(h))

-----------------------------------------------------------------------------
TypeOK ==
  /\ pc \in [Phys -> Starting \cup Loading \cup Waiting \cup Final]
  /\ hart_id \in [Phys -> Nat]
  /\ num_harts_booted \in Nat
  /\ fs_type \in BOOLEAN
  /\ left \in 0 .. Segments
  /\ root_page_table \in BOOLEAN
  /\ sptbr \subseteq Phys
  /\ elf_loaded \in BOOLEAN

\* No hart enters the supervisor before all of its image is in memory and the
\* hart's own translation is on, and none whose id the monitor does not serve.
EntersWhenReady ==
  \A h \in Phys : pc[h] = "supervisor" =>
    /\ left = 0
    /\ root_page_table /\ h \in sptbr
    /\ hart_id[h] < num_harts

\* Two harts that have left reset never share an id, and so neither a stack
\* nor the hart-local storage at its top.
StacksDisjoint ==
  \A g, h \in Phys : g # h /\ pc[g] # "reset" /\ pc[h] # "reset" =>
    hart_id[g] # hart_id[h]

\* Unless the boot hart panics, every hart that does not panic arrives.
AllArrive ==
  \A h \in Phys : \/ <>(pc[h] \in {"supervisor", "parked", "panic"})
                  \/ <>(pc[0] = "panic")
=============================================================================
