----------------------------- MODULE FatVolume -----------------------------
(***************************************************************************)
(* The inner layers of FatFs (driver/ff.c): the sector window, the FAT and *)
(* the root directory of one FAT16 or FAT32 volume.  A function of the     *)
(* code is an operator from the machine m it is called in to the machine   *)
(* it returns in, a record of                                              *)
(*   disk          the sectors of the volume                               *)
(*   fs            the file system object                                  *)
(*   dp            the directory object of the call                        *)
(*   fp            the file object of the call (module FatFs)              *)
(*   fault, left   what happens to an access of the disk, and how many are *)
(*                 left before it does (never, if negative)                *)
(*   grew          the call has added a cluster to the directory           *)
(*   res, val      the FRESULT and the value that were returned last       *)
(***************************************************************************)
EXTENDS Integers, Sequences

CONSTANTS
  fs_type,    \* 16 or 32
  n_fatent,   \* FAT entries: clusters + 2
  n_fats,     \* copies of the FAT
  csize,      \* sectors per cluster
  n_rootdir,  \* entries of a FAT16 root directory
  SS,         \* bytes of a sector
  FatSlots,   \* FAT entries in a sector
  DirSlots    \* directory entries in a sector

ASSUME VolumeAssumption ==
  /\ fs_type \in {16, 32} /\ n_fats \in {1, 2} /\ n_fatent \in Nat \ {0, 1, 2}
  /\ {csize, SS, FatSlots, DirSlots} \subseteq Nat \ {0}
  /\ IF fs_type = 32 THEN n_rootdir = 0 ELSE n_rootdir > 0 /\ n_rootdir % DirSlots = 0

fsize == (n_fatent + FatSlots - 1) \div FatSlots
FSInfo == 1
fatbase == 2
database == fatbase + n_fats * fsize + n_rootdir \div DirSlots
dirbase == IF fs_type = 32 THEN 2 ELSE fatbase + n_fats * fsize
Sector == 0 .. database + (n_fatent - 2) * csize - 1

Nowhere == 10000   \* 0xFFFFFFFF as a sector: the window holds nothing
Error == 20000     \* 0xFFFFFFFF as a FAT entry
EOC == 9999        \* 0x0FFFFFFF
Unknown == -1      \* 0xFFFFFFFF as a number of clusters

Free == [name |-> "", clust |-> 0, size |-> 0]          \* and no entry follows
Deleted == [name |-> "deleted", clust |-> 0, size |-> 0]
NoEntries == [i \in 0 .. DirSlots - 1 |-> Free]

Return(m, r) == [m EXCEPT !.res = r]
Ok(m) == Return(m, "OK")
Then(m, Step(_)) == IF m.res = "OK" THEN Step(m) ELSE m
With(m, Step(_)) == Step(m)
Value(m, v) == [m EXCEPT !.val = v]

-----------------------------------------------------------------------------
(* The disk: one access may fail, without or after all having stored what  *)
(* was written, or the power may go.                                       *)

Spent(m) == [m EXCEPT !.left = IF m.left = 0 /\ m.fault = "off" THEN 0 ELSE @ - 1,
                      !.hit = @ \/ m.left = 0]

disk_write(m, sect, data) ==
  LET stored == m.left # 0 \/ m.fault = "stored"
  IN Return([Spent(m) EXCEPT !.disk[sect] = IF stored THEN data ELSE @],
            IF m.left = 0 THEN "DISK_ERR" ELSE "OK")

disk_read(m, sect) == Return(Spent(m), IF m.left = 0 THEN "DISK_ERR" ELSE "OK")

disk_sync(m) == disk_read(m, 0)

-----------------------------------------------------------------------------
(* The window.                                                             *)

RECURSIVE Mirror(_, _)
Mirror(m, nf) ==
  IF nf >= n_fats THEN Ok(m)
  ELSE Mirror(disk_write(m, m.fs.winsect + nf * fsize, m.fs.win), nf + 1)

InFat(sect) == sect >= fatbase /\ sect < fatbase + fsize

sync_window(m) ==
  IF ~m.fs.wflag THEN Ok(m)
  ELSE Then(disk_write(m, m.fs.winsect, m.fs.win), LAMBDA t :
         LET clean == [t EXCEPT !.fs.wflag = FALSE]
         IN IF InFat(m.fs.winsect) THEN Mirror(clean, 1) ELSE clean)

Fill(m, sect) ==
  With(disk_read(m, sect), LAMBDA t :
    IF t.res = "OK" THEN [t EXCEPT !.fs.win = t.disk[sect], !.fs.winsect = sect]
    ELSE [t EXCEPT !.fs.winsect = Nowhere])

move_window(m, sect) ==
  IF sect = m.fs.winsect THEN Ok(m)
  ELSE Then(sync_window(m), LAMBDA t : Fill(t, sect))

SetFsi(m) == [m EXCEPT !.fs.fsi_flag = IF @ \in {0, 128} THEN @ + 1 ELSE @]

PutFSInfo(m) ==
  IF fs_type = 32 /\ m.fs.fsi_flag = 1
  THEN LET info == [free |-> m.fs.free_clust, nxt |-> m.fs.last_clust]
       IN [disk_write(m, FSInfo, info) EXCEPT
             !.fs.win = info, !.fs.winsect = FSInfo, !.fs.fsi_flag = 0]
  ELSE m

sync_fs(m) == Then(sync_window(m), LAMBDA t : disk_sync(PutFSInfo(t)))

-----------------------------------------------------------------------------
(* The FAT.                                                                *)

clust2sect(c) == IF c < 2 \/ c >= n_fatent THEN 0 ELSE (c - 2) * csize + database

FatSector(c) == fatbase + c \div FatSlots

get_fat(m, c) ==
  IF c < 2 \/ c >= n_fatent THEN Value(m, 1)
  ELSE With(move_window(m, FatSector(c)), LAMBDA t :
         Value(t, IF t.res = "OK" THEN t.fs.win[c % FatSlots] ELSE Error))

put_fat(m, c, v) ==
  IF c < 2 \/ c >= n_fatent THEN Return(m, "INT_ERR")
  ELSE Then(move_window(m, FatSector(c)), LAMBDA t :
         [t EXCEPT !.fs.win[c % FatSlots] = v, !.fs.wflag = TRUE])

\* The FRESULT of a value of get_fat or create_chain.
Status(m) == Return(m, CASE m.val = 1 -> "INT_ERR" [] m.val = Error -> "DISK_ERR"
                         [] OTHER -> "OK")

CountFree(m, n) ==
  IF m.fs.free_clust = Unknown THEN m ELSE SetFsi([m EXCEPT !.fs.free_clust = @ + n])

RECURSIVE FreeChain(_, _)
FreeChain(m, c) ==
  IF c >= n_fatent THEN Ok(m)
  ELSE Then(Status(get_fat(m, c)), LAMBDA t :
         IF t.val = 0 THEN t
         ELSE Then(put_fat(t, c, 0), LAMBDA u : FreeChain(CountFree(u, 1), t.val)))

remove_chain(m, c) ==
  IF c < 2 \/ c >= n_fatent THEN Return(m, "INT_ERR") ELSE FreeChain(m, c)

\* The first free cluster after ncl, round to scl; 0 if there is none.
RECURSIVE FindFree(_, _, _)
FreeAt(m, n, scl) == With(get_fat(m, n), LAMBDA t :
  CASE t.val = 0 -> Value(t, n)
    [] t.val \in {1, Error} -> t
    [] OTHER -> IF n = scl THEN Value(t, 0) ELSE FindFree(t, n, scl))
FindFree(m, ncl, scl) ==
  IF ncl + 1 < n_fatent THEN FreeAt(m, ncl + 1, scl)
  ELSE IF 2 > scl THEN Value(m, 0) ELSE FreeAt(m, 2, scl)

\* Cluster n ends the chain of c, which is longer by it.
Link(m, c, n) ==
  With(Then(put_fat(m, n, EOC), LAMBDA u : IF c = 0 THEN u ELSE put_fat(u, c, n)), LAMBDA t :
    IF t.res = "OK" THEN Value(CountFree([t EXCEPT !.fs.last_clust = n], -1), n)
    ELSE Value(t, IF t.res = "DISK_ERR" THEN Error ELSE 1))

NewCluster(m, c, scl) ==
  With(FindFree(m, scl, scl), LAMBDA t :
    IF t.val < 2 \/ t.val = Error THEN t ELSE Link(t, c, t.val))

create_chain(m, c) ==
  LET hint == m.fs.last_clust
  IN IF c = 0 THEN NewCluster(m, 0, IF hint < 1 \/ hint >= n_fatent THEN 1 ELSE hint)
     ELSE With(get_fat(m, c), LAMBDA t :
            CASE t.val < 2 -> Value(t, 1)
              [] t.val \in {Error} \cup 2 .. n_fatent - 1 -> t
              [] OTHER -> NewCluster(t, c, c))

-----------------------------------------------------------------------------
(* The root directory.  dp.dir points into the window, at dp.index.        *)

Slot(m) == m.dp.index % DirSlots
Entry(m) == m.fs.win[Slot(m)]
SetEntry(m, e) == [m EXCEPT !.fs.win[Slot(m)] = e, !.fs.wflag = TRUE]

RECURSIVE Follow(_, _, _)
Follow(m, c, n) ==
  IF n = 0 THEN Ok(Value(m, c))
  ELSE With(get_fat(m, c), LAMBDA t :
         CASE t.val = Error -> Return(t, "DISK_ERR")
           [] t.val \in 2 .. n_fatent - 1 -> Follow(t, t.val, n - 1)
           [] OTHER -> Return(t, "INT_ERR"))

EntriesPerCluster == DirSlots * csize

dir_sdi(m, idx) ==
  IF fs_type = 32
  THEN Then(Follow(m, dirbase, idx \div EntriesPerCluster), LAMBDA t :
         [t EXCEPT !.dp = [index |-> idx, clust |-> t.val,
            sect |-> clust2sect(t.val) + (idx % EntriesPerCluster) \div DirSlots]])
  ELSE IF idx >= n_rootdir THEN Return(m, "INT_ERR")
  ELSE Ok([m EXCEPT !.dp = [index |-> idx, clust |-> 0, sect |-> dirbase + idx \div DirSlots]])

RECURSIVE Clear(_, _)
Clear(m, n) ==
  IF n = 0 THEN [m EXCEPT !.fs.winsect = @ - csize]
  ELSE Then(sync_window([m EXCEPT !.fs.wflag = TRUE]), LAMBDA t :
         Clear([t EXCEPT !.fs.winsect = @ + 1], n - 1))

Stretch(m) ==
  Then(Status(create_chain(m, m.dp.clust)), LAMBDA t :
    IF t.val = 0 THEN Return(t, "DENIED")
    ELSE Then(sync_window([t EXCEPT !.grew = TRUE]), LAMBDA u :
           Clear([u EXCEPT !.fs.win = NoEntries, !.fs.winsect = clust2sect(t.val)], csize)))

NextDirCluster(m, stretch) ==
  With(get_fat(m, m.dp.clust), LAMBDA t :
    CASE t.val <= 1 -> Return(t, "INT_ERR")
      [] t.val = Error -> Return(t, "DISK_ERR")
      [] t.val \in 2 .. n_fatent - 1 -> Ok(t)
      [] OTHER -> IF stretch THEN Stretch(t) ELSE Return(t, "NO_FILE"))

dir_next(m, stretch) ==
  LET i == m.dp.index + 1
      to(t) == Ok([t EXCEPT !.dp.index = i])
  IN IF i % DirSlots # 0 THEN to(m)
     ELSE IF fs_type # 32
     THEN IF i >= n_rootdir THEN Return(m, "NO_FILE") ELSE to([m EXCEPT !.dp.sect = @ + 1])
     ELSE IF (i \div DirSlots) % csize # 0 THEN to([m EXCEPT !.dp.sect = @ + 1])
     ELSE Then(NextDirCluster(m, stretch), LAMBDA t :
            to([t EXCEPT !.dp.clust = t.val, !.dp.sect = clust2sect(t.val)]))

RECURSIVE FindFrom(_, _)
FindFrom(m, name) ==
  Then(move_window(m, m.dp.sect), LAMBDA t :
    IF Entry(t).name = "" THEN Return(t, "NO_FILE")
    ELSE IF Entry(t).name = name THEN t
    ELSE Then(dir_next(t, FALSE), LAMBDA u : FindFrom(u, name)))

dir_find(m, name) == Then(dir_sdi(m, 0), LAMBDA t : FindFrom(t, name))

RECURSIVE FreeSlot(_)
FreeSlot(m) ==
  Then(move_window(m, m.dp.sect), LAMBDA t :
    IF Entry(t).name \in {"", "deleted"} THEN t
    ELSE Then(dir_next(t, TRUE), LAMBDA u : FreeSlot(u)))

dir_alloc(m) ==
  With(Then(dir_sdi(m, 0), LAMBDA u : FreeSlot(u)), LAMBDA t :
    IF t.res = "NO_FILE" THEN Return(t, "DENIED") ELSE t)

dir_register(m, name) ==
  Then(dir_alloc(m), LAMBDA t :
    Then(move_window(t, t.dp.sect), LAMBDA u : SetEntry(u, [Free EXCEPT !.name = name])))

dir_remove(m) ==
  Then(dir_sdi(m, m.dp.index), LAMBDA t :
    Then(move_window(t, t.dp.sect), LAMBDA u : SetEntry(u, Deleted)))

-----------------------------------------------------------------------------
(* The volume.                                                             *)

Unmounted == [mounted |-> FALSE, win |-> << >>, winsect |-> Nowhere, wflag |-> FALSE,
              free_clust |-> Unknown, last_clust |-> Unknown, fsi_flag |-> 128]

ReadFSInfo(m) ==
  Then(move_window(m, FSInfo), LAMBDA t :
    [t EXCEPT !.fs.free_clust = t.fs.win.free, !.fs.last_clust = t.fs.win.nxt,
              !.fs.fsi_flag = 0])

\* find_volume of a volume that is not mounted: the boot sector, then FSINFO.
Mount(m) ==
  Then(move_window([m EXCEPT !.fs = Unmounted], 0), LAMBDA b :
    With(IF fs_type = 32 THEN ReadFSInfo(b) ELSE b, LAMBDA t :
      Ok([t EXCEPT !.fs.mounted = TRUE])))

find_volume(m) == IF m.fs.mounted THEN Ok(m) ELSE Mount(m)

\* A freshly formatted volume.
Formatted ==
  LET fat(c) == IF c < 2 \/ (fs_type = 32 /\ c = dirbase) THEN EOC ELSE 0
      root == IF fs_type = 32 THEN clust2sect(dirbase) .. clust2sect(dirbase) + csize - 1
              ELSE dirbase .. database - 1
  IN [s \in Sector |->
        CASE s = 0 -> << >>
          [] s = FSInfo -> [free |-> n_fatent - IF fs_type = 32 THEN 3 ELSE 2, nxt |-> 2]
          [] s \in fatbase .. fatbase + n_fats * fsize - 1 ->
               [i \in 0 .. FatSlots - 1 |-> fat(((s - fatbase) % fsize) * FatSlots + i)]
          [] s \in root -> NoEntries
          [] OTHER -> [i \in 0 .. SS - 1 |-> << >>]]
=============================================================================
