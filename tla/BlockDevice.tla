----------------------------- MODULE BlockDevice -----------------------------
(***************************************************************************)
(* What the SD card driver promises the file system (disk_read, disk_write *)
(* and disk_ioctl of diskio.h): one call at a time, blocks transferred in  *)
(* order from the first, a volatile cache in the card behind every write,  *)
(* and three facts a result of RES_OK stands for: all blocks were read,    *)
(* all were written, nothing is left in the cache.  A call that does not   *)
(* return RES_OK may have transferred any number of blocks.                *)
(***************************************************************************)
EXTENDS Integers, Sequences

CONSTANTS Sectors, Data

Sector == 0 .. Sectors - 1

VARIABLES
  media,    \* what is stored
  cache,    \* accepted by the card and not stored yet
  present,  \* whether the card is in its socket
  request,  \* the call in progress
  done,     \* blocks transferred for it
  buf,      \* blocks read for it
  reply     \* the last result

bdVars == <<media, cache, present, request, done, buf, reply>>

NoRequest == [fn |-> "none"]
View == [s \in Sector |-> IF s \in DOMAIN cache THEN cache[s] ELSE media[s]]

Init ==
  /\ media \in [Sector -> Data]
  /\ cache = << >>
  /\ present = TRUE
  /\ request = NoRequest
  /\ done = 0
  /\ buf = << >>
  /\ reply = "OK"

Start ==
  /\ request = NoRequest
  /\ request' \in {[fn |-> "control"], [fn |-> "sync"]}
       \cup [fn : {"read"}, sector : Nat, count : Nat]
       \cup [fn : {"write"}, sector : Nat, data : Seq(Data)]
  /\ done' = 0
  /\ buf' = << >>
  /\ UNCHANGED <<media, cache, present, reply>>

ReadBlock ==
  /\ request.fn = "read" /\ present
  /\ request.sector + done \in Sector
  /\ done < request.count
  /\ buf' = Append(buf, View[request.sector + done])
  /\ done' = done + 1
  /\ UNCHANGED <<media, cache, present, request, reply>>

WriteBlock ==
  /\ request.fn = "write" /\ present
  /\ request.sector + done \in Sector
  /\ done < Len(request.data)
  /\ LET here == request.sector + done IN
     cache' = [s \in DOMAIN cache \cup {here} |->
                 IF s = here THEN request.data[done + 1] ELSE cache[s]]
  /\ done' = done + 1
  /\ UNCHANGED <<media, present, request, buf, reply>>

\* What RES_OK stands for.
Complete ==
  /\ request.fn = "read" => done = request.count
  /\ request.fn = "write" => done = Len(request.data)
  /\ request.fn = "sync" => cache = << >>

Return ==
  /\ request # NoRequest
  /\ reply' \in {"OK", "ERROR"}
  /\ reply' = "OK" => Complete
  /\ request' = NoRequest
  /\ done' = 0
  /\ UNCHANGED <<media, cache, present, buf>>

\* A call that transfers nothing: wrong, to no initialised drive, or turning
\* the drive off.
AtOnce ==
  /\ request = NoRequest
  /\ reply' \in {"OK", "ERROR"}
  /\ UNCHANGED <<media, cache, present, request, done, buf>>

\* The card stores what it accepted.
Store ==
  /\ media' = View
  /\ cache' = << >>
  /\ UNCHANGED <<present, request, done, buf, reply>>

Remove ==
  /\ present' = FALSE
  /\ cache' = << >>
  /\ UNCHANGED <<media, request, done, buf, reply>>

Next == Start \/ ReadBlock \/ WriteBlock \/ Return \/ AtOnce \/ Store \/ Remove

Spec == Init /\ [][Next]_bdVars
=============================================================================
