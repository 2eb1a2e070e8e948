----------------------------- MODULE Boot_proof -----------------------------
(***************************************************************************)
(* The boot handshake for any set of harts, any number of them served and  *)
(* any number of segments.                                                 *)
(***************************************************************************)
EXTENDS Boot, TLAPS

\* The ids given away are below the counter, and no two alike.
IdsInv ==
  /\ num_harts_booted \in Nat \ {0}
  /\ hart_id[0] = 0
  /\ \A h \in Phys \ {0} : pc[h] # "reset" =>
       hart_id[h] > 0 /\ hart_id[h] < num_harts_booted
  /\ \A g, h \in Phys \ {0} : g # h /\ pc[g] # "reset" /\ pc[h] # "reset" =>
       hart_id[g] # hart_id[h]

\* What each place of the boot path knows.
PathInv ==
  /\ \A h \in Phys : pc[h] \in Loading => h = 0
  /\ root_page_table => pc[0] \in {"loaded", "supervisor"} /\ left = 0
  /\ elf_loaded => root_page_table
  /\ pc[0] \in {"close", "vm_init", "loaded"} => left = 0
  /\ pc[0] = "loaded" => root_page_table /\ 0 \in sptbr
  /\ \A h \in Phys : pc[h] \in {"in_bounds", "wait_elf"} => root_page_table /\ h \in sptbr
  /\ \A h \in Phys : pc[h] = "wait_elf" => hart_id[h] < num_harts

BootInv == TypeOK /\ IdsInv /\ PathInv /\ EntersWhenReady

LEMMA InitInv == Init => BootInv
  <1> SUFFICES ASSUME Init PROVE BootInv
    OBVIOUS
  <1>1. \A h \in Phys : pc[h] = "reset" /\ hart_id[h] = 0
    BY DEF Init
  <1>2. left = Segments /\ num_harts_booted = 1
    BY DEF Init
  <1>3. pc \in [Phys -> Starting \cup Loading \cup Waiting \cup Final]
    BY DEF Init, Starting
  <1>4. hart_id \in [Phys -> Nat]
    BY DEF Init
  <1>5. left \in 0 .. Segments /\ num_harts_booted \in Nat \ {0}
    BY <1>2, BoundsAssumption
  <1>6. TypeOK
    BY <1>3, <1>4, <1>5 DEF Init, TypeOK
  <1>7. IdsInv
    BY <1>1, <1>5, PhysAssumption DEF IdsInv
  <1>8. PathInv
    BY <1>1, PhysAssumption DEF Init, PathInv, Loading
  <1>9. EntersWhenReady
    BY <1>1 DEF EntersWhenReady
  <1>10. QED
    BY <1>6, <1>7, <1>8, <1>9 DEF BootInv

LEMMA ResetStep ==
  ASSUME BootInv, NEW h \in Phys, Reset(h)
  PROVE  BootInv'
  <1>1. CASE h = 0
    BY <1>1 DEF Reset, Goto, BootInv, TypeOK, IdsInv, PathInv, EntersWhenReady, Starting,
               Loading
  <1>2. CASE h # 0
    <2>1. /\ hart_id' = [hart_id EXCEPT ![h] = num_harts_booted]
          /\ num_harts_booted' = num_harts_booted + 1
          /\ pc[h] = "reset"
          /\ pc' = [pc EXCEPT ![h] = "machine_init"]
          /\ UNCHANGED <<fs_type, left, root_page_table, sptbr, elf_loaded>>
      BY <1>2 DEF Reset, Goto
    <2>2. TypeOK'
      BY <2>1 DEF BootInv, TypeOK, IdsInv, Starting
    <2>3. IdsInv'
      BY <1>2, <2>1, PhysAssumption DEF BootInv, TypeOK, IdsInv
    <2>4. PathInv' /\ EntersWhenReady'
      BY <1>2, <2>1, PhysAssumption DEF BootInv, TypeOK, PathInv, EntersWhenReady, Loading
    <2>5. QED
      BY <2>2, <2>3, <2>4 DEF BootInv
  <1>3. QED
    BY <1>1, <1>2

LEMMA StartStep ==
  ASSUME BootInv, NEW h \in Phys, Mount(h) \/ HartInit(h)
  PROVE  BootInv'
  <1>1. CASE Mount(h)
    BY <1>1, PhysAssumption DEF Mount, Goto, BootInv, TypeOK, IdsInv, PathInv,
       EntersWhenReady, Starting, Loading
  <1>2. CASE HartInit(h)
    <2>1. h # 0 => hart_id[h] # 0
      BY <1>2 DEF HartInit, Goto, BootInv, IdsInv, TypeOK
    <2>2. CASE Goto(h, "hls_init", "panic")
      BY <1>2, <2>2, PhysAssumption DEF HartInit, Goto, BootInv, TypeOK, IdsInv, PathInv,
         EntersWhenReady, Starting, Loading, Waiting, Final
    <2>3. CASE Goto(h, "hls_init", IF hart_id[h] = 0 THEN "file_init" ELSE "wait_vm")
      BY <1>2, <2>1, <2>3, PhysAssumption DEF HartInit, Goto, BootInv, TypeOK, IdsInv, PathInv,
         EntersWhenReady, Starting, Loading, Waiting
    <2>4. QED
      BY <1>2, <2>2, <2>3 DEF HartInit
  <1>3. QED
    BY <1>1, <1>2

LEMMA BootsStep ==
  ASSUME BootInv, NEW h \in Phys, Boots(h)
  PROVE  BootInv'
  <1>0. h = 0 /\ pc[0] \in Loading
    BY DEF Boots, FileInit, Open, Pread, ReadHeader, ReadPhdrs, ReadSegment, SegmentsRead,
           Close, SupervisorVmInit, EnterFirst, Goto, BootInv, PathInv, Loading
  <1> USE <1>0, PhysAssumption
          DEF Goto, Pread, bootVars, BootInv, TypeOK, IdsInv, PathInv, EntersWhenReady,
              Starting, Loading, Final
  <1>1. CASE FileInit(h)
    BY <1>1 DEF FileInit
  <1>2. CASE Open(h)
    <2>1. pc[0] = "open" /\ UNCHANGED <<hart_id, num_harts_booted, root_page_table, sptbr,
                                       elf_loaded, left>>
      BY <1>2 DEF Open
    <2>2. fs_type' \in BOOLEAN
      BY <1>2 DEF Open
    <2>3. pc' \in {[pc EXCEPT ![0] = "header"], [pc EXCEPT ![0] = "panic"]}
      BY <1>2 DEF Open
    <2>4. CASE pc' = [pc EXCEPT ![0] = "header"]
      BY <2>1, <2>2, <2>4
    <2>5. CASE pc' = [pc EXCEPT ![0] = "panic"]
      BY <2>1, <2>2, <2>5
    <2>6. QED
      BY <2>3, <2>4, <2>5
  <1>3. CASE ReadHeader(h)
    BY <1>3 DEF ReadHeader
  <1>4. CASE ReadPhdrs(h)
    BY <1>4 DEF ReadPhdrs
  <1>5. CASE ReadSegment(h)
    <2>1. left' \in 0 .. Segments
      BY <1>5, BoundsAssumption DEF ReadSegment, MoreSegments
    <2>2. ~root_page_table
      BY <1>5 DEF ReadSegment
    <2>3. QED
      BY <1>5, <2>1, <2>2 DEF ReadSegment
  <1>6. CASE SegmentsRead(h)
    <2>1. left = 0
      BY <1>6, BoundsAssumption DEF SegmentsRead, MoreSegments
    <2>2. QED
      BY <1>6, <2>1 DEF SegmentsRead
  <1>7. CASE Close(h)
    BY <1>7 DEF Close
  <1>8. CASE SupervisorVmInit(h)
    <2>1. CASE Goto(h, "vm_init", "loaded") /\ root_page_table' = TRUE /\ sptbr' = sptbr \cup {h}
      BY <1>8, <2>1 DEF SupervisorVmInit
    <2>2. CASE Goto(h, "vm_init", "panic") /\ UNCHANGED <<root_page_table, sptbr>>
      BY <1>8, <2>2 DEF SupervisorVmInit
    <2>3. QED
      BY <1>8, <2>1, <2>2 DEF SupervisorVmInit
  <1>9. CASE EnterFirst(h)
    BY <1>9, BoundsAssumption DEF EnterFirst
  <1>10. QED
    BY <1>1, <1>2, <1>3, <1>4, <1>5, <1>6, <1>7, <1>8, <1>9 DEF Boots

LEMMA FollowsStep ==
  ASSUME BootInv, NEW h \in Phys, Follows(h)
  PROVE  BootInv'
  <1> USE PhysAssumption
          DEF Goto, bootVars, BootInv, TypeOK, IdsInv, PathInv, EntersWhenReady, Loading,
              Waiting, Final
  <1>1. CASE WaitForVm(h)
    BY <1>1 DEF WaitForVm
  <1>2. CASE InBounds(h)
    BY <1>2, BoundsAssumption DEF InBounds
  <1>3. CASE EnterOther(h)
    BY <1>3 DEF EnterOther
  <1>4. QED
    BY <1>1, <1>2, <1>3 DEF Follows

THEOREM BootInvariant == Spec => []BootInv
  <1>1. BootInv /\ Next => BootInv'
    BY ResetStep, StartStep, BootsStep, FollowsStep DEF Next, Step
  <1>2. BootInv /\ UNCHANGED vars => BootInv'
    BY DEF vars, BootInv, TypeOK, IdsInv, PathInv, EntersWhenReady
  <1>3. QED
    BY InitInv, <1>1, <1>2, PTL DEF Spec

\* However the harts race through machine_init, no two ever run on one stack.
THEOREM StacksNeverShared == Spec => []StacksDisjoint
  <1>1. BootInv => StacksDisjoint
    <2> SUFFICES ASSUME BootInv, NEW g \in Phys, NEW h \in Phys, g # h,
                        pc[g] # "reset", pc[h] # "reset"
                 PROVE  hart_id[g] # hart_id[h]
      BY DEF StacksDisjoint
    <2> USE DEF BootInv, IdsInv, TypeOK
    <2>1. CASE g = 0
      BY <2>1
    <2>2. CASE h = 0
      BY <2>2
    <2>3. CASE g # 0 /\ h # 0
      BY <2>3
    <2>4. QED
      BY <2>1, <2>2, <2>3
  <1>2. QED
    BY <1>1, BootInvariant, PTL

\* A hart that enters the supervisor finds it loaded and mapped.
THEOREM EntryIsReady == Spec => []EntersWhenReady
  <1>1. BootInv => EntersWhenReady
    BY DEF BootInv
  <1>2. QED
    BY <1>1, BootInvariant, PTL
=============================================================================
