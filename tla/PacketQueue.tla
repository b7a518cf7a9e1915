---------------------------- MODULE PacketQueue ----------------------------
(***************************************************************************)
(* The receive queue of an ircreborn_connection (networking.cc) and the    *)
(* two loops that use it: one visit of the server's poll loop              *)
(* (server.cc), which counts the visits and compacts the queue, and the    *)
(* client's client_run_tasks (client.cc), which never does.                *)
(*                                                                         *)
(* The queue is a heap block of queue_alloc slots.  What the source calls  *)
(* queue_size is what it believes queue_alloc to be.  Pointer arithmetic   *)
(* is in slots, malloc, realloc and memset are in bytes: a slot has        *)
(* PtrBytes bytes.  Packets are numbered by arrival.  The connection uses  *)
(* protocol 1 throughout (module Server has the other case).               *)
(***************************************************************************)
EXTENDS Integers

CONSTANTS
    Chunk,      \* 256: slots added by queue_add, BYTES kept by queue_compact
    PtrBytes,   \* sizeof(void*)
    GcLimit,    \* 100: visits of the poll loop before a compaction
    MaxPackets  \* bound: how many packets arrive for each kind of user

Users == {"server", "client"}

ASSUME ChunkAssumption    == Chunk \in Nat \ {0}
ASSUME PtrBytesAssumption == PtrBytes \in Nat \ {0}
ASSUME GcLimitAssumption  == GcLimit \in Nat /\ GcLimit < Chunk
ASSUME BoundAssumption    == MaxPackets \in [Users -> Nat]

Null == 0   \* an empty slot
Junk == -1  \* the content of memory nobody initialised

VARIABLES
    user,            \* which loop owns the connection
    queue,           \* the heap block: slot number -> content
    queue_alloc,     \* the number of slots the block really has
    queue_bottom,
    queue_top,
    queue_size,
    queue_gc_ticks,
    pc,              \* where the loop's handler is
    packet,          \* the packet queue_get(0) returned
    received,        \* packets added so far
    handled,         \* the last packet consumed
    wild             \* some access has left the block

memory == <<queue, queue_alloc, queue_bottom, queue_top, queue_size>>
vars == <<user, memory, queue_gc_ticks, pc, packet, received, handled, wild>>

Phases == {"idle", "compact", "recv", "peek", "handle", "closed"}

-----------------------------------------------------------------------------
(* Memory.  A store outside the block changes memory that belongs to       *)
(* something else; a load from there may find anything, the value stored   *)
(* there included.                                                         *)

InBlock(i, alloc) == i \in 0 .. alloc - 1

Store(block, i, v) ==
    [j \in DOMAIN block |-> IF j = i THEN v ELSE block[j]]

Load(i) == IF InBlock(i, queue_alloc) THEN {queue[i]} ELSE {Null, Junk, received}

Realloc(n) ==
    [i \in 0 .. n - 1 |-> IF InBlock(i, queue_alloc) THEN queue[i] ELSE Junk]

MemsetNull(block, first) ==
    [i \in DOMAIN block |->
        IF first <= i /\ i < first + Chunk THEN Null ELSE block[i]]

-----------------------------------------------------------------------------
(* ircreborn_connection                                                    *)

\* The constructor.
Connection ==
    /\ queue = [i \in 0 .. Chunk - 1 |-> Null]
    /\ queue_alloc = Chunk
    /\ queue_bottom = 0
    /\ queue_top = 0
    /\ queue_size = Chunk

\* The memset that should clear the new slots scales its offset twice.
GrowQueue ==
    LET size == queue_size + Chunk IN
    /\ queue_size' = size
    /\ queue_alloc' = size
    /\ queue' = Store(MemsetNull(Realloc(size), PtrBytes * queue_size),
                      queue_top, received + 1)
    /\ wild' = (wild \/ PtrBytes * queue_size + Chunk > size)

UseSlot ==
    /\ queue' = Store(queue, queue_top, received + 1)
    /\ wild' = (wild \/ ~InBlock(queue_top, queue_alloc))
    /\ UNCHANGED <<queue_size, queue_alloc>>

queue_add ==
    /\ IF queue_top = queue_size THEN GrowQueue ELSE UseSlot
    /\ queue_top' = queue_top + 1
    /\ received' = received + 1
    /\ UNCHANGED queue_bottom

\* Mutant: the consumed slot keeps its packet.
queue_consume_keeps_slot ==
    /\ queue_bottom' = queue_bottom + 1
    /\ UNCHANGED <<queue, queue_alloc, queue_top, queue_size, wild>>

queue_consume ==
    /\ queue' = Store(queue, queue_bottom, Null)
    /\ queue_bottom' = queue_bottom + 1
    /\ wild' = (wild \/ ~InBlock(queue_bottom, queue_alloc))
    /\ UNCHANGED <<queue_alloc, queue_top, queue_size>>

\* Mutant: queue_top is not reset with queue_bottom.
CompactEmptyKeepsTop ==
    /\ queue_alloc' = Chunk \div PtrBytes
    /\ queue' = Realloc(Chunk \div PtrBytes)
    /\ queue_bottom' = 0
    /\ UNCHANGED <<queue_top, queue_size, wild>>

\* Nothing is queued: the block keeps Chunk bytes, queue_size is not told.
CompactEmpty ==
    /\ queue_alloc' = Chunk \div PtrBytes
    /\ queue' = Realloc(Chunk \div PtrBytes)
    /\ queue_bottom' = 0
    /\ queue_top' = 0
    /\ UNCHANGED <<queue_size, wild>>

\* Something is queued: ns packets move to a new block.  Its size is in
\* bytes again and the offset of the copy is scaled twice.
CompactQueued ==
    LET ns    == queue_top - queue_bottom
        slots == (ns - (ns % Chunk) + Chunk) \div PtrBytes
        from  == queue_bottom * PtrBytes
    IN
    /\ queue_alloc' = slots
    /\ queue' = [i \in 0 .. slots - 1 |->
                    IF i >= ns THEN Null
                    ELSE IF InBlock(from + i, queue_alloc) THEN queue[from + i]
                    ELSE Junk]
    /\ queue_top' = ns
    /\ queue_bottom' = 0
    /\ wild' = (wild \/ ns > slots \/ ~InBlock(from + ns - 1, queue_alloc))
    /\ UNCHANGED queue_size

queue_compact ==
    IF queue_bottom = 0 THEN UNCHANGED <<memory, wild>>
    ELSE IF queue_top = queue_bottom THEN CompactEmpty
    ELSE CompactQueued

-----------------------------------------------------------------------------
(* The two loops                                                           *)

Init ==
    /\ user \in Users
    /\ Connection
    /\ queue_gc_ticks = 0
    /\ pc = "idle"
    /\ packet = Null
    /\ received = 0
    /\ handled = 0
    /\ wild = FALSE

\* The server's poll loop finds the connection readable.
ServerVisit ==
    /\ pc = "idle"
    /\ user = "server"
    /\ queue_gc_ticks' = queue_gc_ticks + 1
    /\ pc' = IF queue_gc_ticks + 1 > GcLimit THEN "compact" ELSE "recv"
    /\ UNCHANGED <<user, memory, packet, received, handled, wild>>

ServerCompact ==
    /\ pc = "compact"
    /\ queue_bottom <= queue_top
    /\ queue_compact
    /\ queue_gc_ticks' = 0
    /\ pc' = "recv"
    /\ UNCHANGED <<user, packet, received, handled>>

\* After a stale packet was consumed twice the unsigned difference of top and
\* bottom wraps, and the copy of that many slots ends the process.
ServerCompactWraps ==
    /\ pc = "compact"
    /\ queue_bottom > queue_top
    /\ pc' = "closed"
    /\ UNCHANGED <<user, memory, queue_gc_ticks, packet, received, handled, wild>>

\* client_run_tasks finds data on the socket.
ClientVisit ==
    /\ pc = "idle"
    /\ user = "client"
    /\ received < MaxPackets[user]
    /\ pc' = "recv"
    /\ UNCHANGED <<user, memory, queue_gc_ticks, packet, received, handled, wild>>

\* recv_packet with data on the socket.
RecvPacket ==
    /\ pc = "recv"
    /\ received < MaxPackets[user]
    /\ queue_add
    /\ pc' = "peek"
    /\ UNCHANGED <<user, queue_gc_ticks, packet, handled>>

\* recv_packet at the end of the stream adds nothing.  Only the server gets
\* here: the client looks for data before it calls.
RecvNothing ==
    /\ pc = "recv"
    /\ user = "server"
    /\ pc' = "peek"
    /\ UNCHANGED <<user, memory, queue_gc_ticks, packet, received, handled, wild>>

\* queue_get(0).  A null packet ends the connection; so does, one way or
\* another, dereferencing junk.
PeekPacket ==
    /\ pc = "peek"
    /\ packet' \in Load(queue_bottom)
    /\ pc' = IF packet' \in {Null, Junk} THEN "closed" ELSE "handle"
    /\ wild' = (wild \/ ~InBlock(queue_bottom, queue_alloc))
    /\ UNCHANGED <<user, memory, queue_gc_ticks, received, handled>>

\* Mutant: an ignored packet stays in the queue.
IgnorePacket ==
    /\ pc = "handle"
    /\ handled' = packet
    /\ pc' = "idle"
    /\ UNCHANGED <<user, memory, queue_gc_ticks, packet, received, wild>>

\* The branch for the packet's opcode consumes it, whatever the opcode.
ConsumePacket ==
    /\ pc = "handle"
    /\ queue_consume
    /\ handled' \in Load(queue_bottom)
    /\ pc' = "idle"
    /\ UNCHANGED <<user, queue_gc_ticks, packet, received>>

Next ==
    \/ ServerVisit
    \/ ServerCompact
    \/ ServerCompactWraps
    \/ ClientVisit
    \/ RecvPacket
    \/ RecvNothing
    \/ PeekPacket
    \/ ConsumePacket

Spec == Init /\ [][Next]_vars

-----------------------------------------------------------------------------
(* Properties                                                              *)

TypeOK ==
    /\ user \in Users
    /\ queue_alloc \in Nat
    /\ queue \in [0 .. queue_alloc - 1 -> Nat \cup {Junk}]
    /\ queue_bottom \in Nat
    /\ queue_top \in Nat
    /\ queue_size \in Nat
    /\ queue_gc_ticks \in 0 .. GcLimit + 1
    /\ pc \in Phases
    /\ packet \in Nat \cup {Junk}
    /\ received \in Nat
    /\ handled \in Nat \cup {Junk}
    /\ wild \in BOOLEAN

\* How many packets a connection can receive before the next access may leave
\* the block.  The server is good for the packets up to its first compaction
\* and as many more as the shrunk block has slots; the client for one block.
SafePackets ==
    IF user = "server" THEN GcLimit + Chunk \div PtrBytes ELSE Chunk

\* The queue implements PacketFIFO: every packet is handled once, in order of
\* arrival, for as long as no access has left the block, and no access leaves
\* it while fewer than SafePackets have arrived.
Fifo == INSTANCE PacketFIFO WITH safe <- SafePackets, broken <- wild
ImplementsFifo == Fifo!Spec

\* The poll loop takes the end of the stream from an empty slot: while the
\* block is intact, the slot queue_get(0) reads when nothing was added is
\* null, whatever was consumed, grown or compacted before, so that the server
\* never handles a packet it has already freed.
EmptySlotIsNull ==
    (pc = "peek" /\ ~wild /\ queue_top = queue_bottom
                /\ InBlock(queue_bottom, queue_alloc))
        => queue[queue_bottom] = Null

\* While the block is intact the branch of queue_compact that moves queued
\* packets is never taken: every visit consumes what it received before the
\* next compaction.
CompactionFindsQueueEmpty ==
    (pc = "compact" /\ ~wild) => queue_bottom = queue_top

\* Compaction comes often enough that the server's queue never grows, even
\* for a connection that lives for ever.
ServerNeverGrows ==
    user = "server" => queue_size = Chunk /\ queue_top <= GcLimit + 1

\* networking.cc:156 says of queue_add "resize the queue if needed": after it
\* the block has a slot for everything up to queue_top.
ResizedIfNeeded ==
    queue_top <= queue_alloc
=============================================================================
