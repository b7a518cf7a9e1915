------------------------- MODULE PacketQueue_proofs -------------------------
(***************************************************************************)
(* Proofs about PacketQueue, for every Chunk, PtrBytes, GcLimit and number *)
(* of packets.                                                             *)
(***************************************************************************)
EXTENDS PacketQueue, TLAPS

\* The slots of the block queue_compact leaves behind.
ShrunkSlots == Chunk \div PtrBytes

-----------------------------------------------------------------------------
(* The inductive invariant.                                                *)

\* Between two visits nothing is queued, during one at most one packet is;
\* a stale packet consumed twice takes queue_bottom past queue_top.
AtMostOneQueued ==
    /\ pc \in {"idle", "compact", "recv"} => queue_top <= queue_bottom
    /\ pc \in {"peek", "handle"} => queue_top <= queue_bottom + 1
    /\ queue_top <= received

\* While the block is intact its bookkeeping is exact.
IntactShape ==
    ~wild =>
        /\ handled \in Nat
        /\ queue_bottom <= queue_top
        /\ received = handled + (queue_top - queue_bottom)
        /\ pc = "handle" =>
            /\ queue_top = queue_bottom + 1
            /\ InBlock(queue_bottom, queue_alloc)
        /\ queue_top > queue_bottom =>
            /\ InBlock(queue_bottom, queue_alloc)
            /\ queue[queue_bottom] = received

\* The server: queue_gc_ticks bounds queue_top, and every slot without
\* a queued packet is empty.
ServerShape ==
    user = "server" =>
        /\ queue_size = Chunk
        /\ pc = "idle" => queue_gc_ticks <= GcLimit /\ queue_top <= queue_gc_ticks + 1
        /\ pc = "compact" => queue_gc_ticks = GcLimit + 1 /\ queue_top <= GcLimit + 1
        /\ pc = "recv" => queue_gc_ticks <= GcLimit /\ queue_top <= queue_gc_ticks
        /\ pc \in {"peek", "handle"} =>
            /\ queue_gc_ticks <= GcLimit
            /\ queue_top <= queue_gc_ticks + 1
        /\ queue_top <= GcLimit + 1
        /\ ~wild => \A i \in 0 .. queue_alloc - 1 :
                        i < queue_bottom \/ i >= queue_top => queue[i] = Null

\* The server's block is the first one until GcLimit packets were received,
\* and then it has ShrunkSlots slots.
ServerBlock ==
    (user = "server" /\ ~wild) =>
        /\ pc = "idle" => received >= queue_gc_ticks
        /\ pc \in {"compact", "recv"} => received >= queue_gc_ticks - 1
        /\ pc \in {"peek", "handle"} =>
            received >= queue_gc_ticks - (IF queue_top > queue_bottom THEN 0 ELSE 1)
        /\ \/ queue_alloc = Chunk
           \/ queue_alloc = ShrunkSlots /\ queue_top <= received - GcLimit
        /\ (pc = "peek" /\ queue_top = queue_bottom) => queue_top <= GcLimit

\* The client never compacts: the block is as large as queue_size says.
ClientShape ==
    user = "client" =>
        /\ queue_gc_ticks = 0
        /\ pc # "compact"
        /\ queue_alloc = queue_size
        /\ queue_size >= Chunk
        /\ queue_top <= queue_size
        /\ queue_bottom <= queue_top
        /\ pc \in {"peek", "handle"} => queue_top = queue_bottom + 1

QueueInv ==
    TypeOK /\ AtMostOneQueued /\ IntactShape /\ ServerShape /\ ServerBlock /\ ClientShape
-----------------------------------------------------------------------------
(* Facts about the memory operators.                                       *)

LEMMA ShrunkFits == ShrunkSlots \in Nat /\ ShrunkSlots <= Chunk
  BY ChunkAssumption, PtrBytesAssumption, SMT DEF ShrunkSlots

\* The slots a block of n of them has keep their type under a store.
LEMMA StoreType ==
    ASSUME NEW n \in Nat, NEW block \in [0 .. n - 1 -> Nat \cup {Junk}],
           NEW i \in Nat, NEW v \in Nat \cup {Junk}
    PROVE  /\ Store(block, i, v) \in [0 .. n - 1 -> Nat \cup {Junk}]
           /\ \A j \in 0 .. n - 1 : Store(block, i, v)[j] = IF j = i THEN v ELSE block[j]
  BY DEF Store

LEMMA ReallocType ==
    ASSUME TypeOK, NEW n \in Nat
    PROVE  /\ Realloc(n) \in [0 .. n - 1 -> Nat \cup {Junk}]
           /\ \A j \in 0 .. n - 1 :
                Realloc(n)[j] = IF j < queue_alloc THEN queue[j] ELSE Junk
  BY DEF Realloc, InBlock, TypeOK, Junk

LEMMA MemsetType ==
    ASSUME NEW n \in Nat, NEW block \in [0 .. n - 1 -> Nat \cup {Junk}],
           NEW first \in Nat
    PROVE  MemsetNull(block, first) \in [0 .. n - 1 -> Nat \cup {Junk}]
  BY DEF MemsetNull, Null

LEMMA LoadType ==
    ASSUME TypeOK, NEW i \in Nat, NEW v \in Load(i)
    PROVE  v \in Nat \cup {Junk}
<1>1. CASE InBlock(i, queue_alloc)
  <2>1. v = queue[i]
    BY <1>1 DEF Load
  <2> QED
    BY <1>1, <2>1 DEF InBlock, TypeOK
<1>2. CASE ~InBlock(i, queue_alloc)
  <2>1. v = Null \/ v = Junk \/ v = received
    BY <1>2 DEF Load
  <2> QED
    BY <2>1 DEF TypeOK, Null
<1> QED
  BY <1>1, <1>2

-----------------------------------------------------------------------------
(* The invariant holds.                                                    *)

LEMMA InitInv == Init => QueueInv
<1> SUFFICES ASSUME Init PROVE QueueInv
  OBVIOUS
<1> USE ChunkAssumption, GcLimitAssumption DEF Init, Connection, Users, Null
<1>1. TypeOK
  <2>1. queue \in [0 .. queue_alloc - 1 -> Nat \cup {Junk}]
    OBVIOUS
  <2>2. queue_gc_ticks \in 0 .. GcLimit + 1
    OBVIOUS
  <2> QED
    BY <2>1, <2>2 DEF TypeOK, Phases
<1>2. AtMostOneQueued /\ IntactShape /\ ServerShape
  BY DEF AtMostOneQueued, IntactShape, ServerShape
<1>3. ServerBlock /\ ClientShape
  BY DEF ServerBlock, ClientShape
<1> QED
  BY <1>1, <1>2, <1>3 DEF QueueInv

\* One step of the loops keeps the invariant, action by action.
LEMMA NextInv == QueueInv /\ [Next]_vars => QueueInv'
<1> SUFFICES ASSUME QueueInv, [Next]_vars PROVE QueueInv'
  OBVIOUS
<1> USE ChunkAssumption, PtrBytesAssumption, GcLimitAssumption, BoundAssumption DEF QueueInv
<1>1. CASE ServerVisit
  BY <1>1 DEF ServerVisit, TypeOK, AtMostOneQueued, IntactShape, ServerShape,
      ServerBlock, ClientShape, memory, Phases, InBlock
<1>2. CASE ServerCompact
  <2>1. queue_bottom = queue_top /\ user = "server"
    BY <1>2 DEF ServerCompact, AtMostOneQueued, ClientShape, TypeOK, Users
  <2>2. CASE queue_bottom = 0
    BY <1>2, <2>1, <2>2 DEF ServerCompact, queue_compact, TypeOK, AtMostOneQueued,
        IntactShape, ServerShape, ServerBlock, ClientShape, memory, Phases, InBlock
  <2>3. CASE queue_bottom # 0 /\ CompactEmpty
    <3>1. /\ queue' = Realloc(ShrunkSlots)
          /\ queue_alloc' = ShrunkSlots
          /\ queue_bottom' = 0
          /\ queue_top' = 0
          /\ queue_gc_ticks' = 0
          /\ pc' = "recv"
          /\ UNCHANGED <<user, packet, received, handled, queue_size, wild>>
      BY <1>2, <2>3 DEF ServerCompact, CompactEmpty, ShrunkSlots
    <3>2. TypeOK'
      BY <3>1, ShrunkFits, ReallocType DEF TypeOK, Phases
    <3>3. AtMostOneQueued' /\ IntactShape' /\ ClientShape'
      BY <3>1, <2>1 DEF AtMostOneQueued, IntactShape, ClientShape, TypeOK, Users
    <3>4. ServerShape'
      <4>1. ~wild => \A i \in 0 .. ShrunkSlots - 1 : Realloc(ShrunkSlots)[i] = Null
        <5> SUFFICES ASSUME ~wild, NEW i \in 0 .. ShrunkSlots - 1
                     PROVE  Realloc(ShrunkSlots)[i] = Null
          OBVIOUS
        <5>1. i \in Nat /\ i < queue_alloc
          BY <2>1, ShrunkFits DEF ServerBlock, TypeOK
        <5>2. Realloc(ShrunkSlots)[i] = queue[i]
          BY <5>1, ShrunkFits, ReallocType
        <5>3. queue[i] = Null
          BY <2>1, <5>1 DEF ServerShape, TypeOK
        <5> QED
          BY <5>2, <5>3
      <4> QED
        BY <2>1, <3>1, <4>1 DEF ServerShape, TypeOK
    <3>5. ServerBlock'
      BY <1>2, <2>1, <3>1 DEF ServerBlock, ServerShape, ServerCompact, TypeOK
    <3> QED
      BY <3>2, <3>3, <3>4, <3>5
  <2> QED
    BY <1>2, <2>1, <2>2, <2>3 DEF ServerCompact, queue_compact, TypeOK
<1>3. CASE ServerCompactWraps
  BY <1>3 DEF ServerCompactWraps, TypeOK, AtMostOneQueued, IntactShape, ServerShape,
      ServerBlock, ClientShape, memory, Phases, InBlock
<1>4. CASE ClientVisit
  BY <1>4 DEF ClientVisit, TypeOK, AtMostOneQueued, IntactShape, ServerShape,
      ServerBlock, ClientShape, memory, Phases, InBlock, Users
<1>5. CASE RecvPacket
  <2> DEFINE new == received + 1
  <2>1. /\ pc = "recv"
        /\ pc' = "peek"
        /\ queue_top' = queue_top + 1
        /\ received' = new
        /\ UNCHANGED <<user, queue_gc_ticks, packet, handled, queue_bottom>>
        /\ new \in Nat
    BY <1>5 DEF RecvPacket, queue_add, TypeOK
  <2>2. CASE GrowQueue /\ queue_top = queue_size
    <3>1. user = "client"
      BY <2>1, <2>2 DEF ServerShape, TypeOK, Users
    <3> DEFINE size  == queue_size + Chunk
               block == MemsetNull(Realloc(size), PtrBytes * queue_size)
    <3>2. /\ queue_size' = size
          /\ queue_alloc' = size
          /\ queue' = Store(block, queue_top, new)
          /\ wild' \in BOOLEAN
          /\ ~wild' => ~wild
          /\ size \in Nat
          /\ queue_top \in 0 .. size - 1
      BY <2>2 DEF GrowQueue, TypeOK
    <3>3. block \in [0 .. size - 1 -> Nat \cup {Junk}]
      <4>1. PtrBytes * queue_size \in Nat
        BY DEF TypeOK
      <4> QED
        BY <3>2, <4>1, ReallocType, MemsetType
    <3>4. /\ queue' \in [0 .. size - 1 -> Nat \cup {Junk}]
          /\ queue'[queue_top] = new
      <4> HIDE DEF new, size, block
      <4>1. queue_top \in Nat
        BY DEF TypeOK
      <4> QED
        BY <2>1, <3>2, <3>3, <4>1, StoreType
    <3>5. TypeOK'
      BY <2>1, <3>2, <3>4 DEF TypeOK, Phases
    <3>6. AtMostOneQueued' /\ ServerShape' /\ ServerBlock'
      BY <2>1, <3>1 DEF AtMostOneQueued, ServerShape, ServerBlock, TypeOK
    <3>7. IntactShape' /\ ClientShape'
      BY <2>1, <2>2, <3>1, <3>2, <3>4
      DEF IntactShape, ClientShape, AtMostOneQueued, TypeOK, InBlock
    <3> QED
      BY <3>5, <3>6, <3>7
  <2>3. CASE UseSlot /\ queue_top # queue_size
    <3>1. /\ queue' = Store(queue, queue_top, new)
          /\ wild' \in BOOLEAN
          /\ ~wild' => ~wild /\ queue_top \in 0 .. queue_alloc - 1
          /\ UNCHANGED <<queue_size, queue_alloc>>
      BY <2>1, <2>3 DEF UseSlot, TypeOK, InBlock
    <3>2. /\ queue' \in [0 .. queue_alloc - 1 -> Nat \cup {Junk}]
          /\ \A j \in 0 .. queue_alloc - 1 :
                queue'[j] = IF j = queue_top THEN new ELSE queue[j]
      BY <2>1, <3>1, StoreType DEF TypeOK
    <3>3. TypeOK'
      BY <2>1, <3>1, <3>2 DEF TypeOK, Phases
    <3>4. AtMostOneQueued' /\ IntactShape' /\ ClientShape'
      BY <2>1, <2>3, <3>1, <3>2
      DEF AtMostOneQueued, IntactShape, ClientShape, TypeOK, InBlock, Users
    <3>5. ServerShape'
      BY <2>1, <3>1, <3>2 DEF ServerShape, IntactShape, TypeOK
    <3>6. ServerBlock'
      BY <2>1, <3>1 DEF ServerBlock, AtMostOneQueued, IntactShape, TypeOK
    <3> QED
      BY <3>3, <3>4, <3>5, <3>6
  <2> QED
    BY <1>5, <2>2, <2>3 DEF RecvPacket, queue_add
<1>6. CASE RecvNothing
  BY <1>6 DEF RecvNothing, TypeOK, AtMostOneQueued, IntactShape, ServerShape,
      ServerBlock, ClientShape, memory, Phases, InBlock, Users
<1>7. CASE PeekPacket
  <2>1. /\ pc = "peek"
        /\ packet' \in Load(queue_bottom)
        /\ pc' = IF packet' \in {Null, Junk} THEN "closed" ELSE "handle"
        /\ wild' \in BOOLEAN
        /\ ~wild' => ~wild /\ InBlock(queue_bottom, queue_alloc)
        /\ UNCHANGED <<user, memory, queue_gc_ticks, received, handled>>
    BY <1>7 DEF PeekPacket, TypeOK
  <2>2. pc' = "handle" /\ ~wild' => queue_top = queue_bottom + 1
    <3> SUFFICES ASSUME pc' = "handle", ~wild', queue_top = queue_bottom
                 PROVE  FALSE
      BY <2>1 DEF AtMostOneQueued, IntactShape, TypeOK
    <3>1. user = "server"
      BY <2>1 DEF ClientShape, TypeOK, Users
    <3>2. queue[queue_bottom] = Null
      BY <2>1, <3>1 DEF ServerShape, InBlock, TypeOK
    <3> QED
      BY <2>1, <3>2 DEF Load
  <2>3. TypeOK'
    BY <2>1, LoadType DEF TypeOK, Phases, memory
  <2>4. AtMostOneQueued' /\ IntactShape'
    BY <2>1, <2>2 DEF AtMostOneQueued, IntactShape, TypeOK, memory, InBlock
  <2>5. ServerShape' /\ ServerBlock' /\ ClientShape'
    BY <2>1 DEF ServerShape, ServerBlock, ClientShape, TypeOK, memory
  <2> QED
    BY <2>3, <2>4, <2>5
<1>8. CASE ConsumePacket
  <2>1. /\ pc = "handle"
        /\ pc' = "idle"
        /\ queue' = Store(queue, queue_bottom, Null)
        /\ queue_bottom' = queue_bottom + 1
        /\ wild' \in BOOLEAN
        /\ ~wild' => ~wild
        /\ handled' \in Load(queue_bottom)
        /\ UNCHANGED <<user, queue_alloc, queue_top, queue_size, queue_gc_ticks, packet, received>>
    BY <1>8 DEF ConsumePacket, queue_consume, TypeOK
  <2>2. /\ queue' \in [0 .. queue_alloc - 1 -> Nat \cup {Junk}]
        /\ \A j \in 0 .. queue_alloc - 1 :
              queue'[j] = IF j = queue_bottom THEN Null ELSE queue[j]
    BY <2>1, StoreType DEF TypeOK, Null
  <2>3. ~wild => handled' = received
    BY <2>1 DEF Load, IntactShape, TypeOK
  <2>4. TypeOK'
    BY <2>1, <2>2, LoadType DEF TypeOK, Phases
  <2>5. AtMostOneQueued' /\ IntactShape' /\ ClientShape'
    BY <2>1, <2>2, <2>3
    DEF AtMostOneQueued, IntactShape, ClientShape, TypeOK, InBlock
  <2>6. ServerShape'
    BY <2>1, <2>2 DEF ServerShape, TypeOK
  <2>7. ServerBlock'
    BY <2>1 DEF ServerBlock, IntactShape, AtMostOneQueued, TypeOK
  <2> QED
    BY <2>4, <2>5, <2>6, <2>7
<1>9. CASE UNCHANGED vars
  BY <1>9 DEF vars, memory, TypeOK, AtMostOneQueued, IntactShape, ServerShape,
      ServerBlock, ClientShape, InBlock
<1>10. QED
  BY <1>1, <1>2, <1>3, <1>4, <1>5, <1>6, <1>7, <1>8, <1>9 DEF Next

LEMMA Invariance == Spec => []QueueInv
  BY InitInv, NextInv, PTL DEF Spec

\* The state of the connection and of the loop that reads it stays well typed.
THEOREM TypeCorrect == Spec => []TypeOK
<1>1. QueueInv => TypeOK
  BY DEF QueueInv
<1> QED
  BY <1>1, Invariance, PTL

\* The server recognises the end of the stream by an empty slot: while the
\* block is intact the slot it reads when nothing came in is null.
THEOREM EmptySlotCorrect == Spec => []EmptySlotIsNull
<1>1. QueueInv => EmptySlotIsNull
  <2> SUFFICES ASSUME QueueInv, pc = "peek", ~wild, queue_top = queue_bottom,
                      InBlock(queue_bottom, queue_alloc)
               PROVE  queue[queue_bottom] = Null
    BY DEF EmptySlotIsNull
  <2>1. user = "server"
    BY DEF QueueInv, ClientShape, TypeOK, Users
  <2> QED
    BY <2>1 DEF QueueInv, ServerShape, TypeOK, InBlock
<1> QED
  BY <1>1, Invariance, PTL

\* queue_compact never has to move a packet.
THEOREM CompactionCorrect == Spec => []CompactionFindsQueueEmpty
<1>1. QueueInv => CompactionFindsQueueEmpty
  BY DEF QueueInv, CompactionFindsQueueEmpty, AtMostOneQueued, IntactShape, TypeOK
<1> QED
  BY <1>1, Invariance, PTL

\* However many packets a connection brings, the server's queue never reaches
\* the size at which queue_add would grow it.
THEOREM ServerQueueBounded == Spec => []ServerNeverGrows
<1>1. QueueInv => ServerNeverGrows
  BY DEF QueueInv, ServerNeverGrows, ServerShape
<1> QED
  BY <1>1, Invariance, PTL

-----------------------------------------------------------------------------
(* The queue implements PacketFIFO.                                        *)

LEMMA FifoInit == Init => Fifo!Init
  BY ChunkAssumption, GcLimitAssumption, ShrunkFits
  DEF Init, Fifo!Init, SafePackets, ShrunkSlots

\* Where an access leaves the block, SafePackets packets have arrived; every
\* other step adds a packet, hands over the next one or does neither.
LEMMA FifoNext == QueueInv /\ [Next]_vars => [Fifo!Next]_(Fifo!vars)
<1> SUFFICES ASSUME QueueInv, [Next]_vars
             PROVE  [Fifo!Next]_(Fifo!vars)
  OBVIOUS
<1> USE ChunkAssumption, PtrBytesAssumption, GcLimitAssumption DEF QueueInv
<1>1. user' = user
  BY DEF Next, vars, ServerVisit, ServerCompact, ServerCompactWraps, ClientVisit,
         RecvPacket, RecvNothing, PeekPacket, ConsumePacket
<1>2. UNCHANGED SafePackets
  BY <1>1 DEF SafePackets
<1>3. CASE wild
  <2>1. wild'
    BY <1>3, Zenon
    DEF Next, vars, ServerVisit, ServerCompact, ServerCompactWraps, ClientVisit,
        RecvPacket, RecvNothing, PeekPacket, ConsumePacket, memory, queue_add, GrowQueue,
        UseSlot, queue_consume, queue_compact, CompactEmpty, CompactQueued
  <2> QED
    BY <1>2, <1>3, <2>1 DEF Fifo!Next, Fifo!Broken
<1>4. CASE ~wild /\ RecvPacket
  <2>1. received' = received + 1 /\ UNCHANGED handled /\ pc = "recv"
    BY <1>4 DEF RecvPacket, queue_add
  <2>2. CASE ~wild'
    <3>1. wild' = wild
      BY <1>4, <2>2 DEF RecvPacket, queue_add, GrowQueue, UseSlot, TypeOK
    <3>2. SafePackets' = SafePackets
      BY <1>2
    <3> QED
      BY <1>4, <2>1, <3>1, <3>2 DEF Fifo!Next, Fifo!Put
  <2>3. CASE wild'
    <3>1. wild' = TRUE
      BY <1>4, <2>3 DEF RecvPacket, queue_add, GrowQueue, UseSlot, TypeOK
    <3>2. received' >= SafePackets
      <4>1. CASE GrowQueue /\ queue_top = queue_size
        BY <2>1, <4>1 DEF SafePackets, ServerShape, ClientShape, AtMostOneQueued, TypeOK, Users
      <4>2. CASE UseSlot /\ queue_top # queue_size
        <5>1. queue_top >= queue_alloc
          BY <1>4, <2>3, <4>2 DEF UseSlot, InBlock, TypeOK
        <5>2. user = "server"
          BY <4>2, <5>1 DEF ClientShape, TypeOK, Users
        <5> QED
          BY <1>4, <2>1, <5>1, <5>2, ShrunkFits
          DEF SafePackets, ShrunkSlots, ServerShape, ServerBlock, TypeOK
      <4> QED
        BY <1>4, <4>1, <4>2 DEF RecvPacket, queue_add
    <3>3. SafePackets' = SafePackets
      BY <1>2
    <3> QED
      BY <3>1, <3>2, <3>3 DEF Fifo!Next, Fifo!Break
  <2> QED
    BY <2>2, <2>3
<1>5. CASE ~wild /\ PeekPacket
  <2>1. pc = "peek" /\ UNCHANGED <<received, handled>>
    BY <1>5 DEF PeekPacket
  <2>2. CASE ~wild'
    <3>1. wild' = wild
      BY <1>5, <2>2 DEF PeekPacket, TypeOK
    <3> QED
      BY <1>2, <2>1, <3>1 DEF Fifo!vars
  <2>3. CASE wild'
    <3>1. wild' = TRUE /\ ~InBlock(queue_bottom, queue_alloc)
      BY <1>5, <2>3 DEF PeekPacket, TypeOK
    <3>2. queue_bottom >= queue_alloc /\ queue_top = queue_bottom
      BY <1>5, <2>1, <3>1 DEF InBlock, IntactShape, AtMostOneQueued, TypeOK
    <3>3. user = "server"
      BY <2>1, <3>2 DEF ClientShape, TypeOK, Users
    <3>4. received' >= SafePackets
      BY <1>5, <2>1, <3>2, <3>3, ShrunkFits
      DEF SafePackets, ShrunkSlots, ServerShape, ServerBlock, TypeOK
    <3>5. SafePackets' = SafePackets
      BY <1>2
    <3> QED
      BY <3>1, <3>4, <3>5 DEF Fifo!Next, Fifo!Break
  <2> QED
    BY <2>2, <2>3
<1>6. CASE ~wild /\ ConsumePacket
  <2>1. /\ queue_top = queue_bottom + 1
        /\ InBlock(queue_bottom, queue_alloc)
        /\ queue[queue_bottom] = received
        /\ received = handled + 1
        /\ handled \in Nat
    BY <1>6 DEF ConsumePacket, IntactShape, TypeOK
  <2>2. handled' = received /\ received' = received
    BY <1>6, <2>1 DEF ConsumePacket, Load
  <2>3. wild' = wild
    BY <1>6, <2>1 DEF ConsumePacket, queue_consume, TypeOK
  <2>4. SafePackets' = SafePackets
    BY <1>2
  <2>5. handled < received /\ handled' = handled + 1
    BY <2>1, <2>2
  <2> QED
    BY <1>6, <2>2, <2>3, <2>4, <2>5 DEF Fifo!Next, Fifo!Take
<1>7. CASE ~wild /\ ServerCompact
  <2>1. queue_bottom = queue_top /\ UNCHANGED <<received, handled>>
    BY <1>7 DEF ServerCompact, AtMostOneQueued, TypeOK
  <2>2. wild' = wild
    BY <1>7, <2>1 DEF ServerCompact, queue_compact, CompactEmpty
  <2> QED
    BY <1>2, <2>1, <2>2 DEF Fifo!vars
<1>8. CASE ServerVisit \/ ServerCompactWraps \/ ClientVisit \/ RecvNothing \/ UNCHANGED vars
  BY <1>2, <1>8 DEF ServerVisit, ServerCompactWraps, ClientVisit, RecvNothing, vars, Fifo!vars
<1> QED
  BY <1>3, <1>4, <1>5, <1>6, <1>7, <1>8 DEF Next, TypeOK

\* The queue hands over every packet once and in order of arrival, until the
\* number of packets its memory survives has arrived.
THEOREM QueueImplementsFifo == Spec => ImplementsFifo
  BY FifoInit, FifoNext, Invariance, PTL DEF Spec, ImplementsFifo, Fifo!Spec
=============================================================================
