# Verification of the lowRISC KC705 bring-up software

This directory holds TLA+ models of the software that boots a lowRISC SoC on the
KC705 board: the Berkeley boot loader (`bbl`), which stays resident below Linux
as its machine-mode monitor, the bare-metal drivers it links (`driver`), the
FatFs file system, and the small programs of `examples`. The models are checked
with TLC on small instances; the theorems in the `*_proof` modules are checked
with TLAPS and hold for every value of the constants.

`PROJECT.json` maps every definition to the source lines it stands for, and
lists the runs, the mutants that show each property can fail, the findings, the
hazards and the theorems.

## Inventory

### How the parts fit together

The boot ROM program (`examples/boot.c`) reads `boot.bin`, which is bbl, from the
SD card through FatFs and the SD driver, copies it to memory and jumps to it.
In bbl every hart runs `machine_init`; hart 0 loads the supervisor (an ELF file)
from the card, again through FatFs and the SD driver, by way of the file table,
and builds its page table with the memory manager; the other harts wait for two global variables. Then
all of them enter the supervisor, and bbl is only entered again by traps: from
then on it is the monitor, with the SBI calls, the UART and the emulation of
instructions the core does not have (which uses SoftFloat).

| From | To | By |
|---|---|---|
| supervisor | monitor | `ecall` through the SBI page (`sbi_entry.S`), faults, interrupts |
| monitor | supervisor | `mrts`; the bits `mip.SSIP` and `mip.STIP`; the response queue; writes to the messages the supervisor owns |
| hart | hart | `ipi_pending` and MSIP through the HTIF address; in boot `num_harts_booted`, `root_page_table`, `elf_loaded` |
| UART | monitor | the receive interrupt and the receive FIFO |
| loader, monitor | file table | `file_open`, `file_pread`, `file_decref` |
| memory manager | file table | `file_incref` and `file_decref` for each mapped region, `file_pread` in a page fault |
| monitor | emulation, SoftFloat | `illegal_insn_trap`, `misaligned_load_trap`, `misaligned_store_trap`; an access that faults comes back through `machine_page_fault` |
| file table, boot ROM | FatFs | `f_mount`, `f_open`, `f_lseek`, `f_read`, `f_close` |
| FatFs | SD driver | `disk_initialize`, `disk_read`, `disk_write`, `disk_ioctl` |
| SD driver | card | SPI commands and blocks, one byte at a time |

### Components

| Component | Source | State | Operations | What is hard | What makes it correct |
|---|---|---|---|---|---|
| Trap entry, dispatch, exit | `bbl/mentry.S`, `mtrap.c` | the mode stack of `mstatus`, `mscratch`, `sp`, the saved frame, MTIP, STIP, MTIE | trap, redirect, dispatch, trap from machine mode, `eret`, `mrts` | two ways out from four places; the monitor re-entered from itself; interrupts that come in a handler | the stack pointers are ready for the next entry; a program resumes as it was; no timer is lost |
| SBI queues, UART interrupt, IPIs | `bbl/mtrap.c` | per hart a LIFO list of READs, a FIFO list of responses, `ipi_pending`; SSIP, MSIP, the UART line | `mcall_dev_req`, `mcall_dev_resp`, `mcall_send_ipi`, `mcall_clear_ipi`, `io_irq_service`, software interrupt | harts and the UART interleave; one wakeup bit for responses and IPIs; one link word for two lists | no event without its bit; every message in one place; characters in order |
| SBI timer and other calls | `bbl/mtrap.c` | `mtimecmp`, MTIE | `mcall_set_timer`, `mcall_hart_id`, `mcall_console_putchar`, `mcall_shutdown` | the timer is off until it is set again | see trap entry |
| Multi-hart boot | `bbl/mentry.S`, `minit.c`, `init.c`, `elf.c`, `bbl.c`, `vm.c` | `num_harts_booted`, `root_page_table`, `elf_loaded`, the mounted volume | reset, `machine_init`, `hls_init`, load, `supervisor_vm_init`, `boot_loader`, `boot_other_hart` | no barrier between `machine_init` of a late hart and the loader | no hart enters early; no two share a stack; every hart arrives |
| File table | `bbl/file.c`, `atomic.h` | `files[]` with reference counts, two locks | `file_open`, `file_read`, `file_pread`, `file_write`, `file_incref`, `file_decref`, `file_lseek` | free entries are taken by CAS, given back under a lock; panics hold locks | a count is exactly its references; a transfer moves the bytes at the offset it was asked for |
| VM manager | `bbl/vm.c` | page table, regions with reference counts, `brk`, `vm_lock` | `do_mmap`, `do_munmap`, `do_brk`, `do_mprotect`, `handle_page_fault` | a PTE is a region pointer until its page is touched; pages are filled on the first access, of several harts at once; `mprotect` of an untouched page changes its region | a region is counted on once for each untouched page; a page shows what its mapping asked for; rights are taken and never given |
| Console | `bbl/console.c` | none | `vsnprintf`, `printk` | the ends of the buffer | never writes past it, always ends |
| Emulation | `bbl/emulation.c`, `fp_asm.S` | the saved registers, FPU CSRs | one handler per group of instructions | page fault in the middle; corner cases of arithmetic | what the program sees is the instruction, or a trap with nothing changed |
| SoftFloat | `softfloat/` | rounding mode and exception flags | add, multiply, divide, convert, ... | rounding, subnormals, cancellation | the exact result correctly rounded |
| SD driver | `driver/diskio.c`, `spi.c` | `Stat`, `CardType`, the transfer in progress | `disk_initialize`, `disk_read`, `disk_write`, `disk_ioctl`, `disk_status` | a card that is silent, slow or refuses in the middle; timeouts counted down past zero | `RES_OK` means what the file system takes it for; every call returns; the card is left ready |
| FatFs | `driver/ff.c` | the window and FSInfo of the volume, a buffer and pointers per file, the disk | `f_mount`, `f_open`, `f_read`, `f_write`, `f_lseek`, `f_sync`, `f_close`, `f_truncate`, `f_unlink`, `f_getfree`, ... | three levels of caches; calls of several writes that are cut off by an error or a loss of power | reads return what was written; what is synced survives; chains stay disjoint |
| UART driver | `driver/uart.c` | FIFO in the device | `uart_send`, `uart_recv`, `uart_check_read_irq`, `uart_read_irq` | checking and reading are two steps | see SBI |
| Boot ROM, runtime | `examples/*.c`, `driver/crt.S`, `syscalls.c`, `elf.c` | memory, the remapping registers | load and jump; remapping calls | order in which call numbers are decoded | the image arrives whole |
| SBI entry points | `bbl/sbi_entry.S`, `sbi_impl.c` | one bit of `sie` | the SBI page | interrupt masking around a call | see SBI |
| Build, memory map, board | Makefiles, `encoding.h`, `memory.c`, `script`, `constraint`, `src` | none | - | - | - |

## Modules

| Module | What it is |
|---|---|
| `SbiMonitor` | the SBI device queues, the UART interrupt and the IPIs of several harts |
| `SbiService` | what the SBI device calls promise a supervisor; `SbiMonitor` implements it |
| `SbiMonitor_proof` | theorems about `SbiMonitor`: types, wakeups, the receive handler, the linked lists, and that it implements `SbiService` |
| `TrapEntry` | one hart's way into the monitor and out of it |
| `TrapEntry_proof` | theorems about `TrapEntry` |
| `Boot` | the harts from reset to the supervisor |
| `Boot_proof` | theorems about `Boot` |
| `SdCard` | the SD driver and the card |
| `BlockDevice` | what the driver promises the file system; `SdCard` implements it |
| `SdCard_proof` | theorems about `SdCard` |
| `FatVolume` | FatFs' lower layers: window, FAT, allocation, directory, FSInfo |
| `FatFs` | the calls on files over them, disk errors and loss of power |
| `FileTable` | the table of open files, its counts and locks |
| `Vm` | the memory manager of the user-mode loader over `FileTable` |
| `Vm_proof` | theorems about `Vm` |
| `SoftFloat` | the operations of SoftFloat for formats of any width |
| `FloatReference` | what they are to compute: exact numbers, rounded once |
| `SoftFloatCalls` | one call of each with every argument of an instance, and its properties |
| `SoftFloat_proof` | lemmas about powers, digits, patterns and their numbers, what the operations return for NaNs and infinities, and what conversions from and to integers compute |
| `SoftFloatCalls_proof` | theorems about `SoftFloatCalls`: comparisons, special values and conversions from and to integers |
| `Emulation` | the handlers of `emulation.c` as functions of the instruction and the hart |
| `EmulatedProgram` | a program, the traps that emulate it, and what its instructions are to do |
| `EmulatedProgram_proof` | theorems about `EmulatedProgram`: what it leaves alone, loads and stores |
| `MC*` | the values and definitions of the instances TLC checks |

### SbiMonitor

State: `req_head`, `req_size`, `resp_head`, `resp_tail`, `ipi_pending` are the
fields of `hls_t`; `mem` holds the messages of the supervisors with their link
word `sbi_private_data`, so the lists are real linked lists (`RequestQueue` and
`ResponseQueue` walk them); `ssip`, `msip`, `irq_enabled`, `rx` are hardware;
`owned` is the set of messages the supervisors hold. `pc[h]` is `S` while hart
`h` runs below the monitor.

A hart in machine mode has its interrupts off, so a handler that touches only
its hart's state is one action. A handler is cut where it touches state another
hart or the UART changes: between marking `ipi_pending` and raising MSIP, between
clearing SSIP and swapping `ipi_pending`, and between checking the receive FIFO
and reading it. A panic spins in `die()` for ever, one value of `pc` for each
message. The supervisor is external: it sends and collects whenever it likes,
with the devices and commands the constant `Sends` allows. A message that is queued has passed the
address check of `mcall_dev_req` (`mtrap.c:182`), so the same check in `io_irq_service`
(`mtrap.c:82`) never panics and is left out. A panic in a disk transfer keeps `file_lock`; the model does
not have that lock and lets another hart's transfer be answered all the same, which is more than
the code does.

The service (`SbiService`) has only sets of waiting messages and sequences of
answers. The refinement mapping walks the lists, so a broken link is a step the
service does not have.

### TrapEntry

State: `mstatus` is the stack of four modes with their interrupt enables;
`sp`, `mscratch` and `regs_sp` say whose stack pointer is where; `mtie`, `mtip`,
`stip` and `deadline` are the timer. `saved` is what an external supervisor saves
of `sstatus`, `origin` what the program was doing when the monitor was entered.
The actions follow the labels of `mentry.S`: the timer shortcut, the software
interrupt, the check for a double fault, the dispatch to C with the frame, the
nested entry of an emulation whose access faults (`machine_page_fault`), and the
two ways out, `eret` and `mrts`.

### Boot

One action for each step after which another hart can see a difference; `pc`
names them. The reset code draws an id, and with it a stack page, from a counter
with an AMO. `Mount` is `f_mount` in `machine_init`, which clears `fs_type`
whoever calls it. Loading may panic at each file operation of hart 0, and every check of the
processor's extensions (`minit.c:13`, `minit.c:52`) and of the memory's layout (`vm.c:468`) may too.

### SdCard

The card is external: its kind (MMC, SDv1, SDv2, SDHC), its phase, its position,
whether it is busy, a cache of the block it has accepted, and the media. The
driver's variables are those of `diskio.c` (`Stat` as `noinit`, `CardType`,
`powered`) and of the call in progress (`pc`, `count`, `timeout`, `buf`). Each
action is a command with its answer or a block; an answer may be missing or an
error if `Faulty`, and the card may be removed. The timeouts are unsigned and
wrap at `Word`. While the driver clocks the CRC of a block it writes, a faulty card may hold the
line low: `xmit_datablock` waits for it with no timeout (`pc` is `crc`). Addresses are byte addresses for a card that is not SDHC, at
`BlockLen` bytes per block, wrapping at `Word`.

What is assumed of the card, and nowhere checked by the code:

- a command that got no answer was not obeyed, and one that was obeyed is answered. The driver
  cannot tell the two apart; it gives up the call in both cases;
- any command but CMD12 may be lost or refused. CMD12, whose answer the driver does not look at
  (`diskio.c:400`), reaches a card that is there: `ReadsStopped` says that the driver always sends it, not
  that a card that ignores it stops;
- a card that is removed answers nothing, and its line is high.

`BlockDevice` has no commands: blocks move one by one and a call returns; `OK`
stands for "all read", "all accepted" or, for `CTRL_SYNC`, "all stored". A write
that returned `OK` may still be in the cache, which is what the code does: the
last wait of a write is not looked at.

### FatVolume and FatFs

FatFs calls are sequential, so a call is one step of `Next`, computed by operators
that carry a machine `m` (the disk, the volume `fs`, the file object `fp`, the
result) through the same order of disk accesses as the code. Each access counts;
a step picks which access meets a fault, if any: `error` (not done, disk error),
`stored` (done, disk error all the same) or `off` (the power goes before it: the
caller is restarted and the volume is mounted again). So a call is cut at every
access without one state for each.

A sector is a function from slots to values: FAT entries, directory entries,
FSInfo, or bytes; a byte is the file, offset and version of its write, so that a
byte that is read tells where it came from. `past` is a history variable beside the state of
the code: what was written, what the last successful `f_sync` or `f_close`
covered, whether `f_truncate` has freed clusters since (`cut`), and whether the entry on
disk is still good. The power may go at any access, in a truncation and after it too: the entry of
a file that was cut is then `stale`, because `f_truncate` frees the clusters first (`ff.c:3518`) and
the entry names them until `f_sync`, and `used` once a call has gone by it.

Restrictions that the actions name:

- `MayClose`: a file whose `f_truncate` has failed is not synced or closed. The
  code lets a caller do that, and its buffer may then go to a cluster of another
  file (`ff.c:3532`).
- No fault from the access at which a directory grows (`m.grew`): `dir_next`
  links the new cluster before it clears it (`ff.c:1190`), so what the cluster
  held before would be read as entries.
- `Kept`: `NoCrossLinks` and `ReadsBack` speak of the files whose entry is not stale. For a stale
  one they are false of the code: another file may have its clusters.
  `SyncedSurvive` speaks of all files; of one that was cut it says that the bytes before the cut are still there.
- `Sound`: the behaviour ends when a call opens or unlinks a file by a stale entry,
  for this may change or free another file's clusters.
- `SyncedSurvive` takes an `f_sync` for an acknowledgement only if the file was
  marked as changed: `f_sync` clears `FA__WRITTEN` before `sync_fs`
  (`ff.c:2864`), so after a failure the next one returns `FR_OK` with nothing stored.
- A failed write of the second FAT has no effect on the result (`ff.c:744`
  ignores it); the second FAT is written and never read.
- Paths are names in the root directory; `csize`, `SS`, `FatSlots` and `DirSlots`
  are small. FAT16 and FAT32 are modelled, FAT12 is not.

### FileTable and Vm

`refcnt` and `offset` are the fields of `file_t`, `fd` what FatFs keeps of the
descriptor (open or not, and where it points), `file_lock` and `refcnt_lock` the
locks. A lock is the hart that holds it. A count starts at 2, so it is 0 when the
entry is free and the file is closed by the reference that leaves 1. A critical
section of `refcnt_lock` is one action, except the one that closes: `f_close` runs
after the count is 0, and `file_get_free` takes an entry without the lock, so the
two are apart, as they are in the code. A transfer is a seek (taking `file_lock`) and the
read or write that follows. `file_lseek` moves the descriptor with no lock and is not among the calls.

`Vm` counts memory in pages. `pte` holds for each page nothing, a region (the
code stores the pointer in the entry, without `PTE_V`), the kernel's entry, or
the program's with its rights; `vmrs` are the regions; `brk` and `brk_max` are the
heap. Every call of `vm.c` runs under `vm_lock`, and page faults come from any hart
at any time, so a call is a job that its holder does page by page: `MapPage` and
`UnmapPage` are the bodies of the two loops, and a page fault is `FillPage` (the
kernel's entry), `ReadPage`, `DropPage` and `InstallPage`; `CloseMapped` is the
close inside `__vmr_decref`. Pages that are being filled are visible to other harts, which is
why these are steps. `do_mprotect` takes no other lock and reads no file, so it is one action.
`asked` is a history variable: which call mapped a page last, which part of which file and
which rights it asked for. A panic keeps its locks (`pc` is `dead`).

In this tree only the loader calls `vm.c` (`__do_mmap` of segments); the system
calls it was written for are not here. The model takes it as the library it is:
any hart calls any function with any arguments. Things a reader may stumble on, all as in the code:

- the stack lies below `brk_max` until something is mapped under it, so a heap that grows can replace it;
  a `do_mmap` at a fixed address below `brk_min` lowers `brk_max` under the heap;
- `do_mprotect` does not test the range, and on an untouched page it takes rights from the whole region;
  a page mapped with no rights becomes readable through it;
- `__vmr_alloc` would take `vm_lock` a second time if there were no region table
  (`vm.c:38`); `pk_vm_init` creates it before anything else.

The buffers of transfers are assumed to stay mapped: `populate_mapping` is a page
fault of a hart that is not in a call.

### SoftFloat, FloatReference and SoftFloatCalls

The operations are operators of the arguments and the rounding mode that return the
result and the set of exception flags; the globals of the library are those two. A
format is a pair of widths, so one definition stands for the `f32_` and `f64_`
file where these are alike, and the algorithms that differ (division and square root of
doubles go through an estimate that is corrected) have one each. Words of 128
bits and more are plain integers, so the primitives on them are left out;
`softfloat_estimateSqrt32` is two tables and a Newton step, which have no counterpart at a few bits. It
stands for any value less than 3/2 below the root and less than 1/4 above it: evaluating the C
function for all 2^32 significands and both parities of the exponent gave errors from -1.49995 to 0.17351.
The loop that corrects the root of a double drops a bit of the remainder for each step it takes
(`f64_sqrt.c:62`; `f32_sqrt.c:59` has it), and so does `SqrtCorrect`. `FloatReference` knows nothing of the
algorithms: a pattern is a rational number, the result is the exact one rounded once.

`SoftFloatCalls` has one step, a call, and its properties compare the answer with the
reference: correctly rounded (`CorrectlyRounded`), with the flags of rounding raised exactly when IEEE 754 says
(`FlagsHonest`), NaNs, zeros and infinities with the flags of invalid operations (`SpecialValues`), remainders
(`RemainderExact`), comparisons against the order of the numbers (`OrderAgrees`),
conversions to and from integers (`IntegersRounded`).

### Emulation and EmulatedProgram

A handler is an operator from an instruction and a hart (registers, memory, mapped
pages, `fcsr`, what `mepc`, `mstatus` and `mcause` hold) to the hart it returns. This is the
build without hardware floating point, in which a program can reach every handler: the
floating-point registers are in the save area and `fcsr` is in its slot of x0. A byte has `ByteBits`
bits, a single fills a word and a double two. An
access to a page that is not mapped stops the handler where it is and leaves `mepc`,
`mstatus` and `mcause` of the nested trap behind, until `restore_mstatus`.

`EmulatedProgram` runs a program of one or two instructions: `Issue...` chooses an
instruction and its operands, `Handle` emulates it, `Trap` passes on what is refused, `MapPages`
and `EnableFloat` are the supervisor mending the cause, after which the instruction is done again. What
each instruction is to do is stated apart from the handlers, in terms of numbers and bytes. Where the code
departs from the architecture the statement says so and excludes the case; the list is under
"Disagreements without a run".

## Runs

Every run states its bounds in its `.cfg`. `CHECK_DEADLOCK` is off where the
system may stop: all harts in `die()` or parked, no more characters or calls
within the bound, a card removed, a program at its end, a panic that holds a lock. `TrapEntry` never stops and is checked for
deadlock.

| Run | Instance | Shows |
|---|---|---|
| `sbi_console` | 1 hart, 3 messages, 3 characters, all devices and commands, one free file | queues and messages are conserved, characters stay in order, the service is implemented |
| `sbi_two_harts` | 2 harts, 1 message, 2 characters, console on hart 0 | no wakeup is lost, the FIFO is never read empty, IPIs are acknowledged, responses collected |
| `sbi_no_record` (violation) | 1 hart, 2 messages | a character without a queued READ panics the monitor |
| `boot` | 3 harts, 2 served, 2 segments | no early entry, no shared stack, every hart that does not panic arrives unless the boot hart panics |
| `sd_card` | all kinds, 3 blocks, transfers of 1 and 2, faults, removal | reads are stopped, the block device is implemented, every call returns but a write that waits in the CRC loops |
| `trap` | handlers nested 2 deep, 3 with an interrupt | stack pointers, modes and interrupt enables come back, timers are kept and delivered |
| `fatfs` | FAT32, 5 clusters of 1 sector of 2 bytes, 2 files, 5 calls, one fault at any access | reads return writes, synced data survives, chains stay disjoint but for stale entries, nothing is lost without faults |
| `vm` | 2 harts, 1 file of one page, 2 regions, 4 pages, 3 calls, any page faults and closes | counts are exact, a page shows what was asked for or stored, rights do not grow, stores survive |
| `soft_arith` | every single of 7 bits, edge patterns of doubles of 14, all modes, every estimate of a root | arithmetic, remainder, comparison: the exact result rounded once, with its flags |
| `soft_convert` | every single of 10 bits, edge doubles of 20, all small integers, edges of large ones | conversions between formats and to and from integers, all modes |
| `emulation` | bytes of 2 bits, any emulated instruction and then any CSR access, missing pages, FPU off | what the program sees is the instruction, or a trap with nothing changed |
| `emulation_fused` (violation) | FMSUB only | a zero product less an addend has the wrong sign |

Why the bounds are enough for what the runs are about:

- Two messages already make the lists have a head, a tail and a link that is
  reused; three have a middle. Two harts have every pair of roles of an IPI, both
  directions, and a sender and a receiver inside their handlers at once; one
  message per run with IPIs is enough because queues are per hart and the shared
  bit only tells empty from not empty. Characters are numbered, so three show an
  order.
- Three harts with two served give the boot hart, one that enters and one that is
  parked, in every order of ids. Two segments give a state between them.
- A transfer of two blocks has a first and a last; three blocks let it start at
  any place, run over the end, or be refused. `Tries` is 5 against a word of 8, so
  that counting past zero is reached and is not a small number; `BlockLen * Sectors`
  stays below the wrap.
- A handler, a handler in it, and an interrupt in that fill the four-level stack of
  `mstatus` and lose its last level.
- Two files, one of them with two clusters at first, five clusters (one of them
  the root's): chains of up to two, a full volume, a reused cluster. A sector of
  two bytes and writes of three make every write span a sector and begin inside
  one. `MaxAccess` is the bound on the access that meets a fault: no call of the
  instance has more accesses, and a larger value gives the same states. The same
  invariants were also checked, outside the listed runs, on FAT16 with two sectors
  a cluster, and with the fault `stored`.
- Two harts fault on one page, or one faults where the other unmaps; with three
  calls one can map, unmap and map again, so that a region slot and a file entry are used a second
  time. Four pages are the kernel's, the heap's and a neighbour, and the stack. TLC has two
  choices of rights (none, read and write); the theorems have them all.
- Formats of a few bits have every class of number next to every other: zero, the least and
  greatest subnormal and normal, ties, carries out of the fraction. `soft_arith` takes all pairs of patterns near
  the ends and triples of fewer. TLC's integers have 32 bits, so the products of doubles limit their
  width, and `SpanBound` (28) is the largest shift the reference writes out.
- `Program` has two instructions in a row: an emulated one and a CSR access that
  shows what it left in `fcsr`. The words are at the ends of the types and at the powers a single or double can hold.
  Products, quotients and roots of doubles, and the fused operations on them, are
  modelled but not run: their integers do not fit TLC's; `soft_arith` checks the routines they call.

### Fairness

- `SbiMonitor`: weak fairness of the steps in machine mode (the hart runs and has its interrupts
  off, so nothing keeps it from finishing); strong fairness of taking an
  interrupt, since an interrupt that is pending again and again while the hart is
  below the monitor is taken; strong fairness of the supervisor's collecting and
  clearing only while `ssip` is up, which is how it learns of both: it is assumed
  to answer its interrupt, and not assumed to look without one. So a response left
  behind with the bit down would not be collected in the model.
- `Vm`, `SoftFloatCalls`, `EmulatedProgram`, `FatFs`: safety only, no fairness.
- `Boot`: weak fairness of each hart. `sd_card`: weak fairness of the driver; the card owes nothing. The driver's
  share of the CRC wait is to notice that the card is gone (`CardGone`); that a card lets go of the line
  (`LineHigh`) is the card's doing and has no fairness.
- `TrapEntry`: weak fairness of the monitor's steps, strong fairness of `Handle` (an
  emulation makes finitely many faulting accesses), of the timer interrupt, of
  `sret`, and of the supervisor turning interrupts on.

## What is proved

| Theorem | Says |
|---|---|
| `SbiMonitor_proof!TypeCorrect` | `TypeOK` always |
| `SbiMonitor_proof!WakeupsKept` | `NoLostWakeup` always |
| `SbiMonitor_proof!ConsoleNeverReadsEmpty` | `NoEmptyRead` always, when one hart has the console |
| `SbiMonitor_proof!QueuesKept` | `QueueInv`, the inductive invariant of the linked lists |
| `SbiMonitor_proof!MessagesKept` | `MessagesConserved` always |
| `SbiMonitor_proof!CharsKeptInOrder` | `CharsInOrder` always, when one hart has the console |
| `SbiMonitor_proof!MonitorImplementsService` | `ImplementsService`: every behaviour of the monitor's queues is one of the service |
| `Boot_proof!StacksNeverShared` | `StacksDisjoint` always |
| `Boot_proof!EntryIsReady` | `EntersWhenReady` always |
| `SdCard_proof!DriverImplementsDevice` | `ImplementsBlockDevice`: every behaviour of the driver is one of the block device |
| `SdCard_proof!ReadsAlwaysStopped` | `ReadsStopped` always |
| `TrapEntry_proof!TypeCorrect` | `TypeOK` always |
| `TrapEntry_proof!ScratchAlwaysReady` | `ScratchReady` always |
| `TrapEntry_proof!TimersKept` | `TimerNotLost` always |
| `TrapEntry_proof!ResumesAsInterrupted` | `LeavesAsEntered`, an action property |
| `Vm_proof!CountsAlwaysExact` | `CountsExact` always |
| `Vm_proof!ContentsAlwaysAsAsked` | `ContentsAsAsked` always |
| `Vm_proof!RightsAlwaysAsAsked` | `RightsAsAsked` always |
| `Vm_proof!GrowthAlwaysSpares` | `GrowthSparesMappings` always |
| `Vm_proof!ReadsAlwaysAtOffset` | `ReadsAtOffset` always |
| `Vm_proof!StoresAlwaysSurvive` | `StoresSurvive`, an action property |
| `EmulatedProgram_proof!InstructionsKept` | `ProgramInv`, the inductive invariant of an emulated program |
| `EmulatedProgram_proof!OnlyTheDestination` | `NothingElseChanges` always |
| `EmulatedProgram_proof!RefusedUntouched` | `RedirectedAsTrapped` always |
| `EmulatedProgram_proof!AccessesAreComplete` | `AccessesComplete` always |
| `SoftFloatCalls_proof!OrderAgreesAlways` | `OrderAgrees` always |
| `SoftFloatCalls_proof!SpecialValuesAlways` | `SpecialValues` always |
| `SoftFloatCalls_proof!IntegersRoundedAlways` | `IntegersRounded` always |

They rest on the named assumptions of the modules (`HartsAssumption`, `MsgAssumption`, `NullAssumption`,
`SendsAssumption`, `BoundsAssumption`, `PhysAssumption`, `NestAssumption`, `FileAssumption`,
`VmAssumption`, `SizesAssumption`, `KindsAssumption`, `BytesAssumption` of `SdCard`, and
`FormatAssumption`, `PowersAssumption`, `CallsAssumption`, `ConversionsAssumption` of SoftFloat, and
`EmulationAssumption`, `ProgramAssumption` of the emulation) and hold for any
number of harts, messages, characters, files, segments, nested
handlers, regions, pages, calls and blocks, and for words, formats and programs of any size. `BytesAssumption` is that a card which is addressed in
bytes has no more of them than a command's argument counts; `MsgAssumption` that the messages of a
memory are finitely many; `ProgramAssumption` that the fields of an instruction are in their ranges,
and that a memory is a run of bytes from 0 on, as long as its addresses fit a register.
`FormatAssumption` is what the routines of SoftFloat rely on in their two formats: a double is twice
as wide as a single, has more exponents than singles need, and a fraction that holds a single's.
`CallsAssumption` says that `SoftFloatCalls` calls routines there are with words of their widths.
`ConversionsAssumption` is what the conversions rely on where integers are converted: the fraction of a double
holds a 32-bit integer with the bits kept below its point, that of a single those bits, and every integer is in the
range of both formats. Fractions of 23 and 52 bits, exponents of 8 and 11 and 7 bits below
the point, those of the code, satisfy it, and so does the instance.
`PowersAssumption` says what `2 ^ n` is up to the width of a register: the prover knows nothing of
`^`, and TLC evaluates the equation with the definition of the library.

- `WakeupsKept`: with `TypeOK`, `NoLostWakeup` is inductive. It is stated with the
  hart's place in its handler, because between clearing SSIP and looking at
  `ipi_pending` the bit is down while an IPI may be pending; the proof follows an
  IPI from the mark (the sender is at `send_ipi`) to MSIP, to SSIP, to the swap. For
  responses the last collect clears the bit in the step that makes the head null.
- `ConsoleNeverReadsEmpty`: the strengthening says that only the console's hart has its receive interrupt enabled
  or is in the handler, so nobody else can take a character between the check and
  the read.
- `MonitorImplementsService`: a queue of a hart is given as a sequence of messages, and `IsList` says that
  the link words of memory lead along it to `NULL`. What `Chain`, the walk of the lists, finds is then
  that sequence (`ChainOfList`): two walks that differ do so at a least place (`LeastElement`), where
  one link word would have two values. `ListPush`, `ListPop`, `ListAppend` and `ListFrame` say
  what an assignment to a link word does to a list, and hold because the queues share no
  message. `QueuesAre` is inductive: lists without repetition, apart from each other and
  from the messages the supervisors own, READs only among the requests, `req_size` and `resp_tail`
  agreeing with their list. `NextMoves` summarises every step of the monitor as one of
  a few moves of the sequences (a READ in front, an answer at the end, a response taken off, a READ
  served, none), and the three theorems are read off it: conservation directly, the order of the characters
  since each move keeps what is queued older than what is in the FIFO, and the refinement since each move is
  a step of `SbiService` or a stutter.
- `StacksNeverShared`: ids given away are smaller than the counter, that of the
  boot hart is 0 and the counter is never 0; the drawn id is therefore new.
- `EntryIsReady`: the strengthening links `elf_loaded`, `root_page_table` and
  `sptbr` to the place of every hart: past `vm_init` the image is complete
  (`left = 0`), `elf_loaded` implies `root_page_table`, and a hart past `wait_vm` has its
  own translation on and past `in_bounds` an id that is served.

- `SdCard`: the step simulation needs to know where the card is in terms of the call.
  `AddressInv` says that a driver that is ready addresses the card in the card's own units: a card of
  high capacity stays idle on every path to the other types, so it is never taken for one.
  `CallInv` ties what is left of a call to the blocks transferred and to the card's next block, and
  says that a sync that found the card ready leaves its cache empty, which rests on `CardInv`: a card
  that is not busy has stored everything. `StopInv` keeps an open multiple read on its way to CMD12.
  A block is then one step of the device, a return is one step, and all else is a stutter.
- `TrapEntry`: the strengthening `Inv` says, for each place in the monitor, which of
  `sp`, `mscratch` and `regs_sp` holds whose stack pointer (`FrameInv`), and at
  which level of `mstatus` the interrupted program's two levels are (`OriginInv`): one
  deep in the monitor, two deep when it has been entered from itself. None of the levels the supervisor
  has saved is machine mode (`SavedInv`), so `sret` cannot get there. `CauseInv` ties the places to the
  causes: only a fault can be a double fault, only an emulation redirects from a handler. The
  action property follows, since both ways out read the level `OriginInv` names.
- `Vm`: `VmInv` has two parts. `FilePart` has the types, which hart holds which lock
  and which file at each place (`Locks`), the counts of the files, and the offset a read relies on; it
  is what a step of `FileTable` must keep, and such a step leaves the other part alone (`VmFrame`).
  `VmPart` says how far the job under `vm_lock` is (`JobAt`: the pages behind it are mapped,
  those before it untouched), that a region counts the entries that point at it and the
  references in hand (`RegionCounts`), that an entry's region still describes what its
  page is to hold and only the page being filled carries the kernel's entry (`ContentsInv`),
  that the rights in hand were asked for (`RightsInv`), and that `brk_max` lies below all that
  `do_mmap` placed, including what it is placing (`GrowthInv`). Contents and rights need the
  counts: a slot of the region table is not used again while an entry points at it. Mapping and
  unmapping a page go through one lemma, `ReplacePage`.

- `EmulatedProgram`: `Effect(i, h, g)` says that `g` differs from `h` at most in the destination
  of `i`, added flags, the mode kept above `fcsr` in `tp`, and `mstatus.FS`; it is reflexive and transitive, each
  setter has it, and so has every handler that completes. `Untouched` is its
  counterpart for one that gives up, in the middle of a store or before its first access, with the reason
  `RedirectedAsTrapped` asks for. `EveryInsnHandled` says that every handler ends in one of the two. `ProgramInv` adds
  that a retried instruction starts from the program's registers again. Flags are bits of
  `fcsr`, added where they are not yet set: `SumIs` is the equation of a sum
  over a finite set, by well-founded induction on its subsets, and `AddBits` that bits not yet set change
  no other bit, so that no flag carries into the rounding mode.
- `AccessesAreComplete`: a word of memory is a number with its bytes as digits. The laws of
  powers follow from `PowersAssumption` and those of digits from them, each for the least number that
  would break them: `WordSplit` (a word is its low part and its high part, shifted), `WordBound`,
  `DigitOf` (byte `j` of a word is byte `j` of memory). `PairsMakeWord` is then `DO_LOAD`: the two
  aligned words around the address, one shifted down and one up, are the word at the address.
  `SextBytes` extends the sign bit of its last byte. A load needs nothing of earlier tries;
  a store that was retried may find some of its bytes written, and writes all of them again
  (`Kept` of `ProgramInv`), so what the program finds does not depend on which page was missing when.
  `AccessInv` adds to `ProgramInv` that the access lies within the memory, whose
  bytes are bytes (`Placed`).

- `OrderAgreesAlways`: a pattern without its sign is `Exp * Hidden + Frac`, so patterns of one sign are
  ordered as pairs of exponent and fraction; that their numbers are ordered the same way
  (`MagnitudeOrder`) is the comparison of places of leading bits (`MagnitudeTop`), where a subnormal has its leading
  bit anywhere in the fraction, and of fractions when the places are the same. `OrderRight` adds the signs, with
  both zeros equal; `LeastNormal` is the bound `classify` needs.
- `SpecialValuesAlways`: `OperandKinds` divides the patterns of a format into NaNs, infinities, zeros and the rest, and
  `SumSpecial`, `ProductSpecial`, `QuotientSpecial`, `RootSpecial`, `FusedSpecial` follow the early returns of each
  routine for each combination of kinds; `SumCalls` and its neighbours take them to the routines by name.
  What a call leaves behind is an operand within its format (`CallsInv`).
- `IntegersRoundedAlways`: `Whole` and `Part` are the whole part of `n * 2^k` and the class of what is left: nothing,
  less than a half, a half, more. Rounding in any mode depends on these two and the sign only. `JamParts` says that
  the shift which keeps a sticky bit keeps both, `ScaledParts` how they move with the exponent, and `ReferenceIs` that
  rounding the exact number of `FloatReference` once is rounding its parts. To an integer (`Word32`, `Word64`,
  `TruncUnsigned`, `TruncSigned`), the shifts of each routine lose no more than the sticky bit keeps, and what
  is out of range is the bound of the type with invalid alone. `roundToInt` rounds within the pattern, so
  a carry runs from the fraction into the exponent: `PlaceRoundedIs` and `IntegralPattern` say that this is the pattern of
  the rounded number. From an integer (`FloatedRounded`, `FloatedFlags`), normalizing puts the leading bit in
  its place, and a carry to the next power of two is another number all the same, so inexact is due (`CutValue`).
  `IntegersConverted`, `IntegralRounded` and `IntegersFloated` take these to the routines by name.

Only model-checked:

- liveness under fairness, which the prover does not reach;
- that the result of an arithmetic operation is the exact one rounded: `CorrectlyRounded`, `FlagsHonest` and
  `RemainderExact` of `SoftFloatCalls`, and `ResultsAsNamed` of `EmulatedProgram`, which compares results of
  arithmetic. These are runs over all arguments of small formats. Their proofs need bounds of
  quotients and roots through each algorithm, arithmetic over products and powers that
  the SMT solver does not do;
- all of `FatVolume` and `FatFs`, whose operators follow the loops of the code with RECURSIVE definitions, which
  the prover does not accept.

Attempts at a proof corrected the model in three places. The moves between register files match the encoding with
mode 0 only; the others are refused, as `RedirectedAsTrapped` now says and the run now shows. And the
address of an access wraps around like the register it comes from. And `AccessesComplete` now speaks of every
store, not only of those whose encoding has bits other than zero where a load has its destination.

## Findings

1. `mtrap.c:115`: `io_irq_service` panics when a character arrives and no READ is
   queued. A supervisor cannot rule it out: a character may be typed once its READs
   are used up, before it has posted the next one (`sbi_no_record`).
2. `s_mulAddF32.c:160`: where the product is zero the routine returns the addend as it came,
   although `op` asked for its opposite (`emulation_fused`); `s_mulAddF64.c:177` has
   the same line, and both return an infinite addend the same way. FNMADD inverts no sign at
   all: the bits of `op` are compared one by one and `emulate_fnmadd` passes both.

### Disagreements without a run

The models have the code as it is in these places. The properties that are
run either do not depend on them or name the case they except.

Boot, driver, file system:

- `minit.c:103`: every hart mounts the volume in `machine_init`, with no barrier
  before hart 0 loads from it, and mounting clears `fs_type` (`ff.c:2451`). A hart
  that is late makes a seek of hart 0 fail and panic. (`Boot`: `Mount`, `Pread`.)
- `diskio.c:343`: `if (timeout-- || send_cmd(CMD16, ...))` has the sense of the
  timeout the wrong way round: a version 1 or MMC card that answers in time is given up.
- `diskio.c:353`: a failed re-initialisation turns the controller off and leaves
  `STA_NOINIT` clear from an earlier success. `ff.c` initialises the drive only when
  it mounts, so `SdCard` takes a second `disk_initialize` out of its calls.
- `diskio.c:439`: a card that is still busy after 500 ms does not get the stop token and stays in
  its write; `diskio.c:237`: the loops over the CRC bytes wait with no timeout, so a card that holds
  the line low keeps `disk_write` from returning. `CallReturns` says that a call returns or stays there for ever.
- `diskio.c:331`: `timeout--` in the condition of a wait that runs out leaves the counter at
  2^32 - 1, which the test after it takes for time left (`SdCard`: `Down`, at a smaller word); the next command is
  tried once more, and the call returns.
- `mtrap.c:233`: each IDENTIFY of the disk opens `root.bin` again and closes no earlier one, so the file table
  runs out and the monitor panics (`SbiMonitor`: `OpenRamdisk`, `FileFree`); `mtrap.c:250`: a READ or WRITE
  before any IDENTIFY uses a null file (`DiskTransfer` panics).
- `ff.c:3518`: `f_truncate` frees clusters before the shorter entry is stored. When the power goes in between, the
  entry names free clusters, which another file may take. `ff.c:3532`: a truncation that fails to store the buffer
  leaves it dirty, for `f_close` to store in a cluster that is no longer the file's.
- `mentry.S:119`: the comment promises `IE2=1` after a double fault; the code
  clears it with the rest of the mask. `mentry.S:334`: the redirection after an emulation has no
  test for a double fault.
- `ff.c:3481`: `f_getfree` on FAT12 or FAT16 that meets a disk error (`ff.c:3468`) keeps its
  partial count as valid.
- `file.c:31`: `file_decref` makes the entry free before it closes the descriptor, so
  an `f_open` of another hart can be undone by that `f_close`; `file.c:144`: `file_lseek`, which
  is to "remember current fp position", moves the descriptor under a transfer of another hart.
- `minit.c:31`: a hart that boots late clears its MSIP, so an IPI sent to it before is acknowledged unseen.
- `console.c:61`: `%s` in `vsnprintf` does not end at the end of the buffer.

SoftFloat:

- `f64_sqrt.c:62`: the remainder after a step down lacks its last bit. It would take an exact root for an
  inexact one if the estimate of an exact root were ever too large. It is not: the
  C function gives the root itself for all 94906265 squares that a double holds. An inexact root
  keeps its digits and its sticky bit: the loop runs only within 5 of a multiple of 512, where the remainder
  is that of a small square modulo 512 and cannot be smaller than the number of steps.

Emulation. The statements of `EmulatedProgram` leave out exactly these cases:

- `divw`, `divuw`, `remw`, `remuw` are passed on to the supervisor: the 32-bit branch compares with the
  patterns of the 64-bit divisions (`emulation.c:317`). `fclass` has no handler.
- `emulate_float_load` and `emulate_float_store` do not look at `mstatus.FS`; comparisons and CSR writes
  change `fcsr` without marking it dirty; a dynamic rounding mode of 5 to 7 is not refused.
- `emulate_fcvt_if` rounds the magnitude, so negative numbers go the wrong way in the directed modes;
  a negative number out of an unsigned type's range gives its maximum, a negative NaN the minimum;
  the limits of the 32-bit types are not sign-extended; `NX` may come with `NV`.
- `emulate_fcvt_fi` negates `INT32_MIN` in C (undefined; `ub` is either outcome), rounds a 64-bit integer twice on its way to a
  single, and a negative one the wrong way in the directed modes.
- A fetch that faults sends the supervisor the cause of the first trap (`get_insn`), and a store
  that faults in the middle has written bytes already; it is done again.

## Not modelled, and why

- The console's formatting: a pure function of its arguments that only logging depends on.
- Page tables and their allocator (`__walk_create`, `__page_alloc`, whose limit is a panic in the
  middle of a mapping), the shootdown of other harts' TLBs, which the code marks as to be done.
- The hardware-FPU build of the emulation (`fp_asm.S` is moves between registers), compressed instructions.
- SoftFloat's primitives on words of several limbs, and `8086/`, which the build does not use.
- The boot ROM programs: sequential, their I/O is FatFs.
- Transmit side and set-up of the UART, `mcall_shutdown`, `htif_interrupt`, the set-up of
  `mstatus` and the FPU (but for its panics): no state that other steps depend on.
- FatFs: subdirectories (`f_mkdir`, `f_rename`, paths), `f_opendir` and
  `f_readdir`, `f_chmod`, `f_utime`, labels, FAT12, long file names (off in
  `ffconf.h`).
- Timing, caches of the core, and the AXI bus. Memory is sequentially consistent; the code has fences where it
  publishes.

## Plan

Done: `SbiMonitor` with `SbiService`, `Boot`, `SdCard` with `BlockDevice`,
`TrapEntry`, `FatVolume`, `FatFs`, `FileTable` with `Vm`, `SoftFloat` with
`FloatReference` and `SoftFloatCalls`, `Emulation` with `EmulatedProgram`; proofs
of `SbiMonitor`, `Boot`, `SdCard`, `TrapEntry` and `Vm`, of all of `EmulatedProgram` but its arithmetic, and of the
comparisons, special values and integer conversions of SoftFloat.

Left, in this order:

1. Proof of the volume's invariants (`NoCrossLinks`, `Accounted`), which needs the loops of `FatVolume`
   written as functions.
2. FatFs directories: `f_mkdir`, `f_rename`, `f_readdir`.
3. The boot ROM's system calls; `Console`.
