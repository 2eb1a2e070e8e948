------------------------------- MODULE FatFs -------------------------------
(***************************************************************************)
(* The files of FatFs (driver/ff.c) over the layers of FatVolume: f_open,  *)
(* f_read, f_write, f_lseek, f_sync, f_close, f_truncate, f_unlink,        *)
(* f_getfree and f_mount, as one caller uses them on files in the root.    *)
(* A call may meet one access of the disk that fails, and the power may    *)
(* go at any access and between calls.                                     *)
(*                                                                         *)
(* A byte is the name and the offset it was written at and the version of  *)
(* that write, so a byte that is read back tells where it came from.       *)
(***************************************************************************)
EXTENDS FatVolume, FiniteSets, SequencesExt

CONSTANTS
  Name,       \* of files
  Modes,      \* how they are opened: read, write, always, create
  Counts,     \* bytes of one read or write
  Versions,   \* of what is written
  Held,       \* bytes of the file that is there at first
  Offsets,    \* of f_lseek
  MaxSize,    \* of a file
  Faults,     \* what may happen to an access: error, stored, off
  MaxAccess,  \* the first accesses of a call, which it may happen to
  MaxFaults,  \* of a behaviour
  MaxCalls    \* of a behaviour

ASSUME FilesAssumption ==
  /\ Modes \subseteq {"read", "write", "always", "create"}
  /\ Faults \subseteq {"error", "stored", "off"}
  /\ Counts \cup Offsets \cup {Held, MaxSize, MaxAccess, MaxFaults, MaxCalls} \subseteq Nat

VARIABLES
  disk, fs,
  fil,      \* a file object for each name
  faults, calls, \* so far
  past      \* history: what the calls have been told to do, and have answered
            \*   written  the version of each byte that has been written
            \*   size, bytes  what must survive a loss of power, and its versions
            \*   cut      f_truncate has freed clusters of it since its last f_sync
            \*   entry    stale if the power went while it was cut, for then its
            \*            entry on the disk names clusters that are not its own;
            \*            used if a call has gone by a stale entry

vars == <<disk, fs, fil, faults, calls, past>>

Blank == [i \in 0 .. SS - 1 |-> << >>]
NoFile == [open |-> FALSE, write |-> FALSE, err |-> "OK", sclust |-> 0, fsize |-> 0,
           fptr |-> 0, clust |-> 0, dsect |-> 0, buf |-> Blank, dirty |-> FALSE,
           changed |-> FALSE, dir_sect |-> 0, dir_slot |-> 0]
Nothings == [f \in Name |-> [written |-> << >>, size |-> 0, bytes |-> << >>,
                             cut |-> FALSE, entry |-> "good"]]

Least(a, b) == IF a < b THEN a ELSE b
bcs == csize * SS
Csect(m) == (m.fp.fptr \div SS) % csize
Abort(m) == IF m.res = "OK" THEN m ELSE [m EXCEPT !.fp.err = m.res]

\* The sector of the file the pointer is in.
Sect(m) ==
  LET s == clust2sect(m.fp.clust)
  IN IF s = 0 THEN Return(m, "INT_ERR") ELSE Ok(Value(m, s + Csect(m)))

WriteBack(m) ==
  IF ~m.fp.dirty THEN Ok(m)
  ELSE Then(disk_write(m, m.fp.dsect, m.fp.buf), LAMBDA t : [t EXCEPT !.fp.dirty = FALSE])

Cache(m, sect) ==
  Then(disk_read(m, sect), LAMBDA t :
    [t EXCEPT !.fp.buf = m.disk[sect], !.fp.dsect = sect])

-----------------------------------------------------------------------------
(* f_read                                                                  *)

ReadCluster(m) ==
  IF Csect(m) # 0 THEN Ok(m)
  ELSE With(IF m.fp.fptr = 0 THEN Value(m, m.fp.sclust) ELSE get_fat(m, m.fp.clust), LAMBDA t :
         IF t.val < 2 THEN Return(t, "INT_ERR")
         ELSE Then(Status(t), LAMBDA u : [u EXCEPT !.fp.clust = u.val]))

Pass(m, bytes) == [m EXCEPT !.fp.fptr = @ + Len(bytes), !.out = @ \o bytes]
Bytes(sec, from, n) == [i \in 1 .. n |-> sec[from + i - 1]]

RECURSIVE ReadLoop(_, _)
ReadPart(m, btr) ==
  LET from == m.fp.fptr % SS
      n == Least(btr, SS - from)
  IN ReadLoop(Pass(m, Bytes(m.fp.buf, from, n)), btr - n)

ReadSectors(m, sect, cc, btr) ==
  LET now(s) == IF m.fp.dirty /\ m.fp.dsect = s THEN m.fp.buf ELSE m.disk[s]
      bytes == [i \in 1 .. cc * SS |-> now(sect + (i - 1) \div SS)[(i - 1) % SS]]
  IN Then(disk_read(m, sect), LAMBDA t : ReadLoop(Pass(t, bytes), btr - cc * SS))

ReadAt(m, sect, btr) ==
  LET cc == Least(btr \div SS, csize - Csect(m))
  IN IF cc > 0 THEN ReadSectors(m, sect, cc, btr)
     ELSE IF m.fp.dsect = sect THEN ReadPart(m, btr)
     ELSE Then(WriteBack(m), LAMBDA t : Then(Cache(t, sect), LAMBDA u : ReadPart(u, btr)))

ReadLoop(m, btr) ==
  IF btr = 0 THEN Ok(m)
  ELSE IF m.fp.fptr % SS # 0 THEN ReadPart(m, btr)
  ELSE Then(ReadCluster(m), LAMBDA t : Then(Sect(t), LAMBDA u : ReadAt(u, u.val, btr)))

f_read(m, n) ==
  IF m.fp.err # "OK" THEN Return(m, m.fp.err)
  ELSE Abort(ReadLoop(m, Least(n, m.fp.fsize - m.fp.fptr)))

-----------------------------------------------------------------------------
(* f_write                                                                 *)

WriteCluster(m) ==
  IF Csect(m) # 0 THEN Ok(m)
  ELSE With(IF m.fp.fptr = 0 /\ m.fp.sclust # 0 THEN Value(m, m.fp.sclust)
            ELSE create_chain(m, IF m.fp.fptr = 0 THEN 0 ELSE m.fp.clust), LAMBDA t :
         IF t.val = 0 THEN Return(t, "FULL")
         ELSE Then(Status(t), LAMBDA u :
                [u EXCEPT !.fp.clust = u.val, !.fp.sclust = IF @ = 0 THEN u.val ELSE @]))

Byte(m, at) == <<m.name, at, m.version>>

RECURSIVE WriteLoop(_, _)
WritePart(m, btw) ==
  LET from == m.fp.fptr % SS
      n == Least(btw, SS - from)
      new == [i \in 0 .. SS - 1 |-> IF i \in from .. from + n - 1
                                    THEN Byte(m, m.fp.fptr + i - from) ELSE m.fp.buf[i]]
  IN WriteLoop([m EXCEPT !.fp.buf = new, !.fp.dirty = TRUE, !.fp.fptr = @ + n], btw - n)

SectorAt(m, at) == [i \in 0 .. SS - 1 |-> Byte(m, at + i)]

RECURSIVE Put(_, _, _, _)
Put(m, sect, at, cc) ==
  IF cc = 0 THEN Ok(m)
  ELSE Then(disk_write(m, sect, SectorAt(m, at)), LAMBDA t : Put(t, sect + 1, at + SS, cc - 1))

\* A version of Refilled that leaves the sector buffer as it is.
RefilledNot(m, sect, cc) == m

\* The sector buffer, if it holds one of the sectors that were just written.
Refilled(m, sect, cc) ==
  IF m.fp.dsect \in sect .. sect + cc - 1
  THEN [m EXCEPT !.fp.buf = SectorAt(m, m.fp.fptr + (m.fp.dsect - sect) * SS),
                 !.fp.dirty = FALSE]
  ELSE m

WriteSectors(m, sect, cc) ==
  Then(Put(m, sect, m.fp.fptr, cc), LAMBDA t :
    [Refilled(t, sect, cc) EXCEPT !.fp.fptr = @ + cc * SS])

WriteAt(m, sect, btw) ==
  LET cc == Least(btw \div SS, csize - Csect(m))
  IN IF cc > 0
     THEN Then(WriteSectors(m, sect, cc), LAMBDA t : WriteLoop(t, btw - cc * SS))
     ELSE IF m.fp.dsect = sect THEN WritePart(m, btw)
     ELSE IF m.fp.fptr < m.fp.fsize
     THEN Then(Cache(m, sect), LAMBDA t : WritePart(t, btw))
     ELSE WritePart([m EXCEPT !.fp.dsect = sect], btw)

WriteLoop(m, btw) ==
  IF btw = 0 THEN Ok(m)
  ELSE IF m.fp.fptr % SS # 0 THEN WritePart(m, btw)
  ELSE Then(WriteCluster(m), LAMBDA t : Then(WriteBack(t), LAMBDA u :
         Then(Sect(u), LAMBDA v : WriteAt(v, v.val, btw))))

Grown(m) == IF m.fp.fptr > m.fp.fsize
            THEN [m EXCEPT !.fp.fsize = m.fp.fptr, !.fp.changed = TRUE] ELSE m

f_write(m, n) ==
  IF m.fp.err # "OK" THEN Return(m, m.fp.err)
  ELSE IF ~m.fp.write THEN Return(m, "DENIED")
  ELSE With(WriteLoop(m, n), LAMBDA t :
         IF t.res \in {"OK", "FULL"} THEN Ok([Grown(t) EXCEPT !.fp.changed = TRUE])
         ELSE Abort(t))

-----------------------------------------------------------------------------
(* f_lseek                                                                 *)

SeekEnd(m, c, ofs) ==
  LET t == [m EXCEPT !.fp.fptr = @ + ofs]
  IN IF ofs % SS = 0 THEN Ok(Value(t, 0))
     ELSE IF clust2sect(c) = 0 THEN Return(t, "INT_ERR")
     ELSE Ok(Value(t, clust2sect(c) + ofs \div SS))

\* At the end of the volume a file that is written ends with its last cluster.
RECURSIVE SeekFrom(_, _, _)
SeekFrom(m, c, ofs) ==
  IF ofs <= bcs THEN SeekEnd(m, c, ofs)
  ELSE With(IF m.fp.write THEN create_chain(m, c) ELSE get_fat(m, c), LAMBDA t :
         CASE m.fp.write /\ t.val = 0 -> SeekEnd(t, 0, bcs)
           [] t.val = Error -> Return(t, "DISK_ERR")
           [] t.val \in 2 .. n_fatent - 1 ->
                SeekFrom([t EXCEPT !.fp.clust = t.val, !.fp.fptr = @ + bcs], t.val, ofs - bcs)
           [] OTHER -> Return(t, "INT_ERR"))

SeekForward(m, ofs) ==
  LET start == ((m.fp.fptr - 1) \div bcs) * bcs
  IN SeekFrom([m EXCEPT !.fp.fptr = start], m.fp.clust, ofs - start)

SeekFromTop(m, ofs) ==
  With(IF m.fp.sclust = 0 THEN create_chain(m, 0) ELSE Value(m, m.fp.sclust), LAMBDA t :
    Then(Status(t), LAMBDA u :
      With([u EXCEPT !.fp.sclust = u.val, !.fp.clust = u.val], LAMBDA v :
        IF v.val = 0 THEN v ELSE SeekFrom(v, v.val, ofs))))

Seek(m, ofs) ==
  LET zero == [m EXCEPT !.fp.fptr = 0]
  IN IF ofs = 0 THEN Ok(Value(zero, 0))
     ELSE IF m.fp.fptr > 0 /\ (ofs - 1) \div bcs >= (m.fp.fptr - 1) \div bcs
     THEN SeekForward(m, ofs) ELSE SeekFromTop(zero, ofs)

FillCache(m) ==
  IF m.fp.fptr % SS = 0 \/ m.val = m.fp.dsect THEN m
  ELSE Then(WriteBack(m), LAMBDA t : Cache(t, m.val))

f_lseek(m, ofs) ==
  LET to == IF ofs > m.fp.fsize /\ ~m.fp.write THEN m.fp.fsize ELSE ofs
  IN IF m.fp.err # "OK" THEN Return(m, m.fp.err)
     ELSE Abort(Then(Seek(m, to), LAMBDA t : Then(FillCache(t), Grown)))

-----------------------------------------------------------------------------
(* f_sync, f_close, f_truncate                                             *)

PutEntry(m) ==
  LET e == [name |-> m.name, clust |-> m.fp.sclust, size |-> m.fp.fsize]
  IN [m EXCEPT !.fs.win[m.fp.dir_slot] = [@ EXCEPT !.clust = e.clust, !.size = e.size],
               !.fs.wflag = TRUE, !.fp.changed = FALSE]

\* A version of f_sync that does not look at whether the buffer was stored.
f_syncBlind(m) ==
  IF ~m.fp.changed THEN Ok(m)
  ELSE With(WriteBack(m), LAMBDA t :
         Then(move_window(Ok(t), m.fp.dir_sect), LAMBDA u : sync_fs(PutEntry(u))))

f_sync(m) ==
  IF ~m.fp.changed THEN Ok(m)
  ELSE Then(WriteBack(m), LAMBDA t :
         Then(move_window(t, m.fp.dir_sect), LAMBDA u : sync_fs(PutEntry(u))))

f_close(m) == Then(f_sync(m), LAMBDA t : [t EXCEPT !.fp = NoFile])

CutChain(m) ==
  Then(Status(get_fat(m, m.fp.clust)), LAMBDA t :
    IF t.val >= n_fatent THEN t
    ELSE Then(put_fat(t, m.fp.clust, EOC), LAMBDA u : remove_chain(u, t.val)))

\* A version of CutAll that forgets the clusters.
CutAllLost(m) == [Ok(m) EXCEPT !.fp.sclust = 0]

CutAll(m) == [remove_chain(m, m.fp.sclust) EXCEPT !.fp.sclust = 0]

Truncate(m) ==
  LET short == [m EXCEPT !.fp.fsize = m.fp.fptr, !.fp.changed = TRUE]
  IN IF m.fp.fsize <= m.fp.fptr THEN Ok(m)
     ELSE Then(IF m.fp.fptr = 0 THEN CutAll(short) ELSE CutChain(short), WriteBack)

f_truncate(m) ==
  IF m.fp.err # "OK" THEN Return(m, m.fp.err)
  ELSE Abort(IF m.fp.write THEN Truncate(m) ELSE Return(m, "DENIED"))

-----------------------------------------------------------------------------
(* f_open, f_unlink, f_getfree                                             *)

Creates(mode) == mode \in {"always", "create"}

\* An entry that is there is emptied if the mode says always, a new one is
\* made by both; the hole in the FAT is to be used again.
Emptied(m) ==
  LET c == Entry(m).clust
      t == SetEntry(m, [Entry(m) EXCEPT !.clust = 0, !.size = 0])
  IN IF c = 0 THEN Ok(t)
     ELSE Then(remove_chain(t, c), LAMBDA u :
            move_window([u EXCEPT !.fs.last_clust = c - 1], m.fs.winsect))

Found(m, mode) ==
  With(dir_find(m, m.name), LAMBDA t :
    CASE t.res = "NO_FILE" /\ Creates(mode) ->
           Value(Then(dir_register(Ok(t), m.name), Emptied), "new")
      [] t.res = "OK" /\ mode = "always" -> Value(Emptied(t), "new")
      [] OTHER -> Value(t, "old"))

f_open(m, mode) ==
  Then(find_volume([m EXCEPT !.fp = NoFile]), LAMBDA t :
    Then(Found(t, mode), LAMBDA u :
      [u EXCEPT !.fp = [NoFile EXCEPT
         !.open = TRUE, !.write = mode # "read", !.changed = u.val = "new",
         !.sclust = Entry(u).clust, !.fsize = Entry(u).size,
         !.dir_sect = u.fs.winsect, !.dir_slot = Slot(u)]]))

\* A version of f_unlink that frees the clusters before it removes the entry.
f_unlinkChainFirst(m) ==
  Then(find_volume(m), LAMBDA t :
    Then(dir_find(t, m.name), LAMBDA u :
      Then(IF Entry(u).clust = 0 THEN u ELSE remove_chain(u, Entry(u).clust), LAMBDA v :
        Then(dir_remove(v), sync_fs))))

f_unlink(m) ==
  Then(find_volume(m), LAMBDA t :
    Then(dir_find(t, m.name), LAMBDA u :
      Then(dir_remove(u), LAMBDA v :
        Then(IF Entry(u).clust = 0 THEN v ELSE remove_chain(v, Entry(u).clust), sync_fs))))

\* The sectors of the FAT from the first, the zeros among its first n_fatent
\* entries; a count that is broken off is kept all the same.
RECURSIVE CountFrom(_, _)
CountFrom(m, n) ==
  LET zeros(t) == {i \in 0 .. FatSlots - 1 :
                     n * FatSlots + i < n_fatent /\ t.fs.win[i] = 0}
  IN IF n >= fsize THEN m
     ELSE Then(move_window(m, fatbase + n), LAMBDA t :
            CountFrom([t EXCEPT !.val = @ + Cardinality(zeros(t))], n + 1))

f_getfree(m) ==
  Then(find_volume(m), LAMBDA t :
    IF t.fs.free_clust \in 0 .. n_fatent - 2 THEN t
    ELSE With(CountFrom(Value(t, 0), 0), LAMBDA u :
           SetFsi([u EXCEPT !.fs.free_clust = u.val])))

-----------------------------------------------------------------------------
(* The caller.                                                             *)

Start(d, s, f, fp, v) ==
  [disk |-> d, fs |-> s, dp |-> [index |-> 0, clust |-> 0, sect |-> 0], fp |-> fp,
   name |-> f, version |-> v, fault |-> "none", left |-> -1, hit |-> FALSE, res |-> "OK",
   val |-> 0, out |-> << >>, grew |-> FALSE]
Machine(f, v) == Start(disk, fs, f, fil[f], v)

\* A file is on the volume already, stored through the same calls.
Init ==
  /\ \E f \in Name, v \in Versions :
       LET at == 0 .. Held - 1
       IN /\ disk = f_close(f_write(f_open(Start(Formatted, Unmounted, f, NoFile, v),
                                           "always"), Held)).disk
          /\ past = [Nothings EXCEPT ![f].written = [o \in at |-> v], ![f].size = Held,
                                      ![f].bytes = [o \in at |-> {v}]]
  /\ fs = Unmounted /\ fil = [f \in Name |-> NoFile] /\ faults = 0 /\ calls = 0

Troubles ==
  {<<"none", -1>>} \cup IF faults < MaxFaults THEN Faults \X (0 .. MaxAccess) ELSE {}

Keep(g, Holds(_)) == [o \in {o \in DOMAIN g : Holds(o)} |-> g[o]]

\* A file after the power has gone: its bytes are those that are certain, and
\* if it was cut its entry is the one from before f_truncate.
Certain(h) ==
  LET one == Keep(h.bytes, LAMBDA o : Cardinality(h.bytes[o]) = 1)
  IN [h EXCEPT !.written = [o \in DOMAIN one |-> CHOOSE v \in one[o] : TRUE],
               !.cut = FALSE, !.entry = IF h.cut THEN "stale" ELSE @]

PowerOff(h) ==
  /\ fs' = Unmounted /\ fil' = [f \in Name |-> NoFile]
  /\ past' = [f \in Name |-> Certain(h[f])]

\* Bound: once a call has gone by a stale entry it may have changed clusters of
\* any file, nothing is said of the volume any more, and the behaviour ends.
Sound == \A f \in Name : past[f].entry # "used"

\* A call on f with bytes of version v, which leaves the past of f at After.
\* Nothing fails once a call has begun to add a cluster to the directory: it
\* links the cluster before it clears it, and would leave it there uncleared.
Call(f, v, Op(_), After(_)) ==
  /\ Sound
  /\ calls < MaxCalls /\ calls' = calls + 1
  /\ \E t \in Troubles :
       LET m == Op([Machine(f, v) EXCEPT !.fault = t[1], !.left = t[2]])
           h == [past EXCEPT ![f] = After(m)]
       IN /\ t[1] = "none" \/ m.hit
          /\ m.hit => ~m.grew
          /\ disk' = m.disk /\ faults' = faults + IF m.hit THEN 1 ELSE 0
          /\ IF t[1] = "off" THEN PowerOff(h)
             ELSE fs' = m.fs /\ fil' = [fil EXCEPT ![f] = m.fp] /\ past' = h

\* From offset n on, a file is given up when the call that shortens it begins.
Forget(f, n) ==
  LET before(o) == o < n
  IN [past[f] EXCEPT !.size = Least(@, n), !.bytes = Keep(@, before), !.written = Keep(@, before)]

\* A call that reads the entry of the file.
ByEntry(h) == [h EXCEPT !.entry = IF @ = "good" THEN "good" ELSE "used"]

Open(f, mode) ==
  /\ ~fil[f].open
  /\ Call(f, 0, LAMBDA m : f_open(m, mode),
          LAMBDA m : ByEntry(IF mode = "always" THEN Forget(f, 0) ELSE past[f]))

Read(f, n) == fil[f].open /\ Call(f, 0, LAMBDA m : f_read(m, n), LAMBDA m : past[f])

Written(f, n, v, m) ==
  LET at == fil[f].fptr
      upto == IF m.res = "OK" THEN m.fp.fptr ELSE at
      rest == Keep(past[f].written, LAMBDA o : o < at \/ o >= at + n)
  IN [past[f] EXCEPT
        !.bytes = [o \in DOMAIN @ |-> IF o \in at .. at + n - 1 THEN @[o] \cup {v} ELSE @[o]],
        !.written = rest @@ [o \in at .. upto - 1 |-> v]]

Write(f, n, v) ==
  /\ fil[f].open /\ fil[f].write /\ fil[f].err = "OK" /\ fil[f].fptr + n <= MaxSize
  /\ Call(f, v, LAMBDA m : f_write(m, n), LAMBDA m : Written(f, n, v, m))

Lseek(f, ofs) == fil[f].open /\ Call(f, 0, LAMBDA m : f_lseek(m, ofs), LAMBDA m : past[f])

Synced(f, m) ==
  IF m.res = "OK" /\ m.fault # "off" /\ fil[f].changed
  THEN [past[f] EXCEPT !.size = fil[f].fsize, !.cut = FALSE,
                       !.bytes = [o \in DOMAIN past[f].written |-> {past[f].written[o]}]]
  ELSE past[f]

\* A file whose truncation failed is never closed: f_close would store its
\* buffer in a cluster that may be another file's by now.
MayClose(f) == fil[f].open /\ (past[f].cut => fil[f].err = "OK")
Sync(f) == MayClose(f) /\ Call(f, 0, f_sync, LAMBDA m : Synced(f, m))
Close(f) == MayClose(f) /\ Call(f, 0, f_close, LAMBDA m : Synced(f, m))

TruncateFile(f) ==
  /\ fil[f].open /\ fil[f].write /\ fil[f].err = "OK"
  /\ Call(f, 0, f_truncate, LAMBDA m :
       [Forget(f, fil[f].fptr) EXCEPT !.cut = @ \/ fil[f].fptr < fil[f].fsize])

Unlink(f) == ~fil[f].open /\ Call(f, 0, f_unlink, LAMBDA m : ByEntry(Forget(f, 0)))

GetFree(f) == Call(f, 0, f_getfree, LAMBDA m : past[f])

\* f_mount, or the power goes between two calls.
Remount ==
  /\ Sound /\ fs.mounted /\ faults < MaxFaults
  /\ PowerOff(past) /\ faults' = faults + 1 /\ UNCHANGED <<disk, calls>>

Next ==
  \/ \E f \in Name :
       \/ \E mode \in Modes : Open(f, mode)
       \/ \E n \in Counts : Read(f, n) \/ \E v \in Versions : Write(f, n, v)
       \/ \E ofs \in Offsets : Lseek(f, ofs)
       \/ Sync(f) \/ Close(f) \/ TruncateFile(f) \/ Unlink(f) \/ GetFree(f)
  \/ Remount

Spec == Init /\ [][Next]_vars
-----------------------------------------------------------------------------
(* Properties.  A sector as the file system sees it is the window's, if    *)
(* that is where the window is.                                            *)

Seen(s) == IF fs.winsect = s THEN fs.win ELSE disk[s]
Fat(c) == Seen(FatSector(c))[c % FatSlots]


\* The clusters of a chain from c, n links of it at most: a longer one is a loop.
RECURSIVE Chain(_, _)
Chain(c, n) ==
  IF c \notin 2 .. n_fatent - 1 THEN << >>
  ELSE IF n = 0 THEN <<c>> ELSE <<c>> \o Chain(Fat(c), n - 1)
ChainOf(c) == Chain(c, n_fatent)
ClustersOf(c) == Range(ChainOf(c))
LastLink(c) == Fat(Last(ChainOf(c)))

RootSectors ==
  IF fs_type = 32
  THEN {clust2sect(c) + i : c \in ClustersOf(dirbase), i \in 0 .. csize - 1}
  ELSE dirbase .. database - 1
EntriesOf(f) ==
  {e \in UNION {Range(Seen(s)) : s \in RootSectors} : e.name = f}

\* Where a file begins and how long it is: as its object says while it is open.
Size(f) == IF fil[f].open THEN {<<fil[f].sclust, fil[f].fsize>>}
           ELSE {<<e.clust, e.size>> : e \in EntriesOf(f)}
Owned(f) == UNION {ClustersOf(p[1]) : p \in Size(f)}
Root == IF fs_type = 32 THEN ClustersOf(dirbase) ELSE {}

\* The files with an entry of their own: all but those whose entry is stale, as
\* long as no call has gone by one of these.
Kept == {f \in Name : Sound /\ past[f].entry = "good"}

\* A file that is open reads back what was written to it, from wherever its
\* pointer is, whatever its caches hold (f_write's and f_read's sector
\* buffer, the window), as long as no call on it has failed.
ReadsBack ==
  \A f \in Kept :
    LET m == f_read(Machine(f, 0), MaxSize)
    IN fil[f].open /\ fil[f].err = "OK" =>
         /\ m.res = "OK" /\ Len(m.out) = fil[f].fsize - fil[f].fptr
         /\ \A o \in DOMAIN past[f].written \cap fil[f].fptr .. MaxSize :
              m.out[o - fil[f].fptr + 1] = <<f, o, past[f].written[o]>>

\* What f_sync or f_close returned FR_OK for is there after the power goes now,
\* when only the disk is left: the file can be opened, is at least as long and
\* reads what was synced or written over it since, whatever calls on this or
\* another file have done, failed or been cut off since.  A file that is
\* truncated keeps, even under a stale entry, the bytes before the cut.
SyncedSurvive ==
  \A f \in Name :
    LET opened == f_open([Machine(f, 0) EXCEPT !.fs = Unmounted], "read")
        m == f_read(opened, past[f].size)
    IN Sound /\ past[f].size > 0 =>
         /\ opened.res = "OK" /\ m.res = "OK" /\ Len(m.out) = past[f].size
         /\ \A o \in DOMAIN past[f].bytes :
              \E v \in past[f].bytes[o] : m.out[o + 1] = <<f, o, v>>

\* No cluster is in two chains, or free in one: the chains of the files and of
\* the root are disjoint, end, and hold all of their file's size, even after
\* calls that failed half-way or lost the power there (create_chain,
\* remove_chain, f_open and f_unlink, each several writes of FAT and
\* directory).  The chain of a stale entry is not counted: the clusters it
\* names are free, or another file's by now.
NoCrossLinks ==
  fs.mounted =>
    /\ \A f \in Kept : \A p \in Size(f) :
         /\ Len(ChainOf(p[1])) * bcs >= p[2]
         /\ p[1] # 0 => LastLink(p[1]) = EOC
         /\ Owned(f) \cap Root = {} /\ Cardinality(Size(f)) = 1
         /\ \A g \in Kept \ {f} : Owned(f) \cap Owned(g) = {}

\* Without failures no cluster is lost, and free_clust is the number of free ones.
Accounted ==
  LET free == {c \in 2 .. n_fatent - 1 : Fat(c) = 0}
  IN fs.mounted /\ faults = 0 =>
       /\ fs.free_clust \in {Unknown, Cardinality(free)}
       /\ free = (2 .. n_fatent - 1) \ (Root \cup UNION {Owned(f) : f \in Name})
=============================================================================
