----------------------------- MODULE FileTable -----------------------------
(***************************************************************************)
(* The table of open files (bbl/file.c).  An entry counts its references   *)
(* from 2: one for the table and one for whoever opened it, so that 0 is   *)
(* free and a count that falls to 1 closes the file.  refcnt_lock guards   *)
(* the counts, file_lock a seek and the transfer that follows it; a free   *)
(* entry is taken by a compare-and-swap.  file_lseek, which moves the      *)
(* descriptor without either lock, is not among the calls here.            *)
(*                                                                         *)
(* A hart stands for a caller; positions are counted in pages.  FatFs's    *)
(* descriptor (fd) is external: open or not, and where it points.  What a  *)
(* file holds never changes size.                                          *)
(***************************************************************************)
EXTENDS Naturals

CONSTANTS
  Harts, NoHart,   \* callers, and the value of a lock nobody holds
  Files, NoFile,   \* the entries of files[]
  FilePages,       \* length of every file
  MaxCalls         \* bound: calls of a behaviour, closes apart

ASSUME FileAssumption ==
  /\ NoHart \notin Harts /\ NoFile \notin Files
  /\ FilePages \in Nat /\ MaxCalls \in Nat

VARIABLES
  refcnt, offset,         \* of each entry
  fd,                     \* its descriptor
  file_lock, refcnt_lock, \* the hart that holds the lock
  pc,                     \* where each hart is
  holder,                 \* history: the hart that opened the file
  calls                   \* counter of the bound MaxCalls

table == <<refcnt, offset, fd, refcnt_lock, holder>>
fileVars == <<table, file_lock, pc, calls>>

Idle(p) == pc[p] = [at |-> "idle", file |-> NoFile]
Go(p, where, f) == pc' = [pc EXCEPT ![p] = [at |-> where, file |-> f]]
Call(p) == Idle(p) /\ calls < MaxCalls /\ calls' = calls + 1
Return(p) == Go(p, "idle", NoFile)

\* A failed kassert or a panic: the hart stays in die(), with its locks.
Panic(p) == Go(p, "dead", NoFile)
Clip(n) == IF n > FilePages THEN FilePages ELSE n

FileInit ==
  /\ refcnt = [f \in Files |-> 0] /\ offset = [f \in Files |-> 0]
  /\ fd = [f \in Files |-> [open |-> FALSE, pos |-> 0]]
  /\ file_lock = NoHart /\ refcnt_lock = NoHart
  /\ pc = [p \in Harts |-> [at |-> "idle", file |-> NoFile]]
  /\ holder = [f \in Files |-> NoHart]
  /\ calls = 0

-----------------------------------------------------------------------------
(* Opening and closing.                                                    *)

\* file_get_free: some entry that is free when the loop comes to it, or a
\* panic when it has come to none.
file_get_free(p) ==
  /\ Call(p)
  /\ \/ \E f \in Files :
          /\ refcnt[f] = 0
          /\ refcnt' = [refcnt EXCEPT ![f] = 2]
          /\ holder' = [holder EXCEPT ![f] = p]
          /\ Go(p, "opening", f)
     \/ /\ \A f \in Files : refcnt[f] # 0
        /\ Panic(p)
        /\ UNCHANGED <<refcnt, holder>>
  /\ UNCHANGED <<offset, fd, file_lock, refcnt_lock>>

\* The rest of file_openat: f_open, which may fail.
file_openat(p) ==
  /\ pc[p].at = "opening"
  /\ \/ /\ fd' = [fd EXCEPT ![pc[p].file] = [open |-> TRUE, pos |-> 0]]
        /\ Return(p)
     \/ Panic(p) /\ UNCHANGED fd
  /\ UNCHANGED <<refcnt, offset, file_lock, refcnt_lock, holder, calls>>

\* One critical section of refcnt_lock that adds a reference.
file_incref(f) ==
  /\ refcnt_lock = NoHart
  /\ refcnt' = [refcnt EXCEPT ![f] = @ + 1]

\* The first half of file_decref: p stays in the critical section when the
\* file is to be closed.
file_decref(p, f) ==
  /\ refcnt_lock = NoHart
  /\ IF refcnt[f] = 2
     THEN /\ refcnt' = [refcnt EXCEPT ![f] = 0]
          /\ offset' = [offset EXCEPT ![f] = 0]
          /\ refcnt_lock' = p
     ELSE /\ refcnt' = [refcnt EXCEPT ![f] = @ - 1]
          /\ UNCHANGED <<offset, refcnt_lock>>

\* The second half: f_close, and out of the critical section.
f_close(p, f) ==
  /\ refcnt_lock = p
  /\ fd' = [fd EXCEPT ![f].open = FALSE]
  /\ refcnt_lock' = NoHart

\* The hart that opened a file gives it up.
Close(p) ==
  /\ Idle(p)
  /\ \E f \in Files :
       /\ holder[f] = p
       /\ file_decref(p, f)
       /\ holder' = [holder EXCEPT ![f] = NoHart]
       /\ IF refcnt[f] = 2 THEN Go(p, "closing", f) ELSE UNCHANGED pc
  /\ UNCHANGED <<fd, file_lock, calls>>

CloseEnd(p) ==
  /\ pc[p].at = "closing"
  /\ f_close(p, pc[p].file)
  /\ Return(p)
  /\ UNCHANGED <<refcnt, offset, file_lock, holder, calls>>

-----------------------------------------------------------------------------
(* Transfers.                                                              *)

\* Mutant: goes on from where the last transfer ended.
SeekNowhere(f, at) == fd

SeekTo(f, at) == IF fd[f].open THEN [fd EXCEPT ![f].pos = Clip(at)] ELSE fd

\* What file_read, file_write, file_pread and file_pwrite do first: under
\* file_lock, the seek to the entry's own offset or to the caller's.  Only
\* file_pread looks at its result.
StartTransfer(p, f, at, kind) ==
  /\ Call(p) /\ holder[f] = p /\ file_lock = NoHart
  /\ file_lock' = p
  /\ fd' = SeekTo(f, at)
  /\ Go(p, kind, f) \/ (kind = "pread" /\ ~fd[f].open /\ Panic(p))
  /\ UNCHANGED <<refcnt, offset, refcnt_lock, holder>>

file_read(p, f) == StartTransfer(p, f, offset[f], "read")
file_pread(p, f) == \E at \in 0 .. FilePages : StartTransfer(p, f, at, "pread")

\* Then f_read or f_write, which may move less than it was asked for.
Transfer(p) ==
  LET f == pc[p].file IN
  /\ pc[p].at \in {"read", "pread"}
  /\ \E n \in 0 .. (FilePages - fd[f].pos) :
       /\ fd[f].open \/ n = 0
       /\ fd' = [fd EXCEPT ![f].pos = @ + n]
       /\ IF pc[p].at = "read"
          THEN offset' = [offset EXCEPT ![f] = @ + n]
          ELSE UNCHANGED offset
  /\ file_lock' = NoHart
  /\ Return(p)
  /\ UNCHANGED <<refcnt, refcnt_lock, holder, calls>>

FileNext(p) ==
  \/ file_get_free(p) \/ file_openat(p) \/ Close(p) \/ CloseEnd(p)
  \/ Transfer(p)
  \/ \E f \in Files : file_read(p, f) \/ file_pread(p, f)
=============================================================================
