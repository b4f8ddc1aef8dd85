----------------------------- MODULE PiecePool -----------------------------
(***************************************************************************)
(* The process-wide cache of 4 KiB buffer pieces behind newPiece() and     *)
(* deletePiece() (net/piece/piece_allocator.cpp).  Every EventLoop thread  *)
(* and every sending thread uses it.  What happens under mutex_ is one     *)
(* step; operator new and delete run outside the lock and are steps of     *)
(* their own.  using_count_ is an integer here: the wrap of the uint32_t   *)
(* after 2^32 unreturned pieces is not modelled, its underflow is.         *)
(***************************************************************************)
EXTENDS Integers, Sequences, FiniteSets, Functions

CONSTANTS
    Thread,             \* threads that call the allocator
    Piece,              \* addresses operator new may return
    BASE_CACHE_COUNT,
    MAX_DELETE_ONCE,
    MaxCleared          \* bound: pieces freed behind the pool's back

ASSUME ConstAssumption ==
    /\ IsFiniteSet(Thread)
    /\ IsFiniteSet(Piece)
    /\ BASE_CACHE_COUNT \in Nat
    /\ MAX_DELETE_ONCE \in Nat \ {0, 1}
    /\ MaxCleared \in Nat

VARIABLES
    queue,          \* queue_: the cached pieces
    using_count,    \* using_count_
    held,           \* pieces handed out by newPiece and not given back
    heap,           \* addresses operator new returned and nobody deleted
    pc,             \* where each thread is: idle, in new, or in the delete loop
    del_array,      \* the part of del_array a thread still has to delete
    cleared,        \* number of pieces Buffer::clear() deleted directly
    alive           \* FALSE once ~PiecePool has run

vars == <<queue, using_count, held, heap, pc, del_array, cleared, alive>>

Init ==
    /\ queue = << >>
    /\ using_count = 0
    /\ held = {}
    /\ heap = {}
    /\ pc = [t \in Thread |-> "idle"]
    /\ del_array = [t \in Thread |-> << >>]
    /\ cleared = 0
    /\ alive = TRUE

-----------------------------------------------------------------------------
(* Mutants: an allocation is not counted; the cached piece is read but not *)
(* removed.                                                                *)
NewPieceUncounted(t) ==
    /\ alive /\ pc[t] = "idle"
    /\ IF queue # << >>
       THEN /\ using_count' = using_count + 1
            /\ queue' = Tail(queue)
            /\ held' = held \cup {Head(queue)}
            /\ UNCHANGED pc
       ELSE /\ pc' = [pc EXCEPT ![t] = "new"]
            /\ UNCHANGED <<queue, held, using_count>>
    /\ UNCHANGED <<heap, del_array, cleared, alive>>
NewPieceNoPop(t) ==
    /\ alive /\ pc[t] = "idle"
    /\ using_count' = using_count + 1
    /\ IF queue # << >>
       THEN held' = held \cup {Head(queue)} /\ UNCHANGED pc
       ELSE pc' = [pc EXCEPT ![t] = "new"] /\ UNCHANGED held
    /\ UNCHANGED <<queue, heap, del_array, cleared, alive>>

(* newPiece(): the critical section. *)
NewPiece(t) ==
    /\ alive /\ pc[t] = "idle"
    /\ using_count' = using_count + 1
    /\ IF queue # << >>
       THEN /\ queue' = Tail(queue)
            /\ held' = held \cup {Head(queue)}
            /\ UNCHANGED pc
       ELSE /\ pc' = [pc EXCEPT ![t] = "new"]
            /\ UNCHANGED <<queue, held>>
    /\ UNCHANGED <<heap, del_array, cleared, alive>>

(* newPiece(): the cache was empty, new Piece after the unlock. *)
Allocate(t) ==
    /\ pc[t] = "new"
    /\ \E p \in Piece \ heap : /\ heap' = heap \cup {p}
                               /\ held' = held \cup {p}
    /\ pc' = [pc EXCEPT ![t] = "idle"]
    /\ UNCHANGED <<queue, using_count, del_array, cleared, alive>>

DelCountOne(limit) == 1     \* mutant: only the returned piece is freed
(* The number of pieces deletePiece() frees when the cache is full. *)
DelCount(limit) ==
    LET n == Len(queue) - limit + 1
    IN  IF n > MAX_DELETE_ONCE THEN MAX_DELETE_ONCE ELSE n

(* deletePiece(item): the critical section. *)
DeletePiece(t, item) ==
    /\ alive /\ pc[t] = "idle" /\ item \in held
    /\ held' = held \ {item}
    /\ using_count' = using_count - 1
    /\ LET limit == using_count' + BASE_CACHE_COUNT
       IN  IF Len(queue) < limit
           THEN /\ queue' = Append(queue, item)
                /\ UNCHANGED <<pc, del_array>>
           ELSE /\ del_array' = [del_array EXCEPT
                     ![t] = <<item>> \o SubSeq(queue, 1, DelCount(limit) - 1)]
                /\ queue' = SubSeq(queue, DelCount(limit), Len(queue))
                /\ pc' = [pc EXCEPT ![t] = "delete"]
    /\ UNCHANGED <<heap, cleared, alive>>

(* Mutant: the entry is taken out of del_array and not deleted. *)
DeleteNextLeaks(t) ==
    /\ pc[t] = "delete"
    /\ del_array' = [del_array EXCEPT ![t] = Tail(@)]
    /\ pc' = [pc EXCEPT ![t] = IF Len(del_array[t]) = 1 THEN "idle" ELSE @]
    /\ UNCHANGED <<queue, using_count, held, heap, cleared, alive>>

(* deletePiece(): one iteration of the loop that deletes after the unlock. *)
DeleteNext(t) ==
    /\ pc[t] = "delete"
    /\ heap' = heap \ {Head(del_array[t])}
    /\ del_array' = [del_array EXCEPT ![t] = Tail(@)]
    /\ pc' = [pc EXCEPT ![t] = IF Len(del_array[t]) = 1 THEN "idle" ELSE @]
    /\ UNCHANGED <<queue, using_count, held, cleared, alive>>

(* Buffer::clear() uses the delete operator on a piece it took from the    *)
(* pool, so using_count_ is not decremented.                               *)
BufferClear(item) ==
    /\ item \in held /\ cleared < MaxCleared
    /\ held' = held \ {item}
    /\ heap' = heap \ {item}
    /\ cleared' = cleared + 1
    /\ UNCHANGED <<queue, using_count, pc, del_array, alive>>

(* ~PiecePool at process exit, when no thread is inside the allocator. *)
Clear ==
    /\ alive /\ \A t \in Thread : pc[t] = "idle"
    /\ heap' = heap \ Range(queue)
    /\ queue' = << >>
    /\ alive' = FALSE
    /\ UNCHANGED <<using_count, held, pc, del_array, cleared>>

Next ==
    \/ \E t \in Thread :
         \/ NewPiece(t)
         \/ Allocate(t)
         \/ \E p \in Piece : DeletePiece(t, p)
         \/ DeleteNext(t)
    \/ \E p \in Piece : BufferClear(p)
    \/ Clear

Spec == Init /\ [][Next]_vars

-----------------------------------------------------------------------------
(* The types of the pool's members and of each thread's local state. *)
TypeOK ==
    /\ queue \in Seq(Piece)
    /\ using_count \in Int
    /\ held \subseteq Piece
    /\ heap \subseteq Piece
    /\ pc \in [Thread -> {"idle", "new", "delete"}]
    /\ del_array \in [Thread -> Seq(Piece)]
    /\ cleared \in 0..MaxCleared
    /\ alive \in BOOLEAN

(* using_count_ counts exactly the pieces in use, those being allocated    *)
(* and those Buffer::clear() deleted without telling the pool; so the      *)
(* uint32_t never goes below zero in deletePiece().                        *)
UsingCountExact ==
    using_count = Cardinality(held) + cleared
                    + Cardinality({t \in Thread : pc[t] = "new"})

(* The cache never holds more than BASE_CACHE_COUNT pieces above the       *)
(* number in use: the limit of deletePiece() is kept by every interleaving *)
(* of newPiece() and deletePiece(), although it moves with using_count_.   *)
CacheBounded == Len(queue) <= using_count + BASE_CACHE_COUNT

(* deletePiece() fills at most two entries of del_array, so the            *)
(* MAX_DELETE_ONCE clamp never leaves the cache above its limit, and every *)
(* entry is a piece (pop() on the cache never returned null).              *)
DelArrayBounded ==
    \A t \in Thread : /\ Len(del_array[t]) <= 2
                      /\ pc[t] = "delete" <=> del_array[t] # << >>

(* A piece is in one place only: with a caller, once in the cache, or once *)
(* in the del_array of one thread.  No two callers share a piece and none  *)
(* is deleted while it is cached or in use.                                *)
NoAlias ==
    /\ IsInjective(queue)
    /\ Range(queue) \cap held = {}
    /\ \A t \in Thread :
         /\ IsInjective(del_array[t])
         /\ Range(del_array[t]) \cap (held \cup Range(queue)) = {}
         /\ \A u \in Thread \ {t} : Range(del_array[t]) \cap Range(del_array[u]) = {}

(* What operator new returned is held, cached or about to be deleted: the  *)
(* pool neither leaks a piece nor keeps a deleted one.                     *)
HeapExact ==
    heap = held \cup Range(queue) \cup UNION {Range(del_array[t]) : t \in Thread}
=============================================================================
