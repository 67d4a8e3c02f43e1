--------------------------------- MODULE Pool ---------------------------------
(***************************************************************************)
(* Pool<T> of pool.hpp: slabs of objects under a LIFO free list.  Objects  *)
(* are numbered in address order, slab after slab; a pool is a record of   *)
(* the free list (first element = free_head_), live_ and capacity_.        *)
(***************************************************************************)
EXTENDS Integers, Sequences

PoolState == [free : Seq(Nat), live : Nat, capacity : Nat]

EmptyPool == [free |-> <<>>, live |-> 0, capacity |-> 0]

\* A new slab is threaded back-to-front in front of the free list, so that its
\* objects are handed out in ascending order.
AddSlab(pool, slab) ==
    [pool EXCEPT !.free = [i \in 1 .. slab |-> pool.capacity + i] \o @,
                 !.capacity = @ + slab]

\* Slabs until at least n objects exist.
Reserve(n, slab) ==
    LET Grown[k \in 0 .. (n + slab - 1) \div slab] ==
            IF k = 0 THEN EmptyPool ELSE AddSlab(Grown[k - 1], slab)
    IN  Grown[(n + slab - 1) \div slab]

\* The pool an allocation is served from.
WithFree(pool, slab) == IF pool.free = <<>> THEN AddSlab(pool, slab) ELSE pool
Allocated(pool, slab) == Head(WithFree(pool, slab).free)
Alloc(pool, slab) ==
    [WithFree(pool, slab) EXCEPT !.free = Tail(@), !.live = @ + 1]

Dealloc(pool, obj) == [pool EXCEPT !.free = <<obj>> \o @, !.live = @ - 1]

InUse(pool) == 1 .. pool.capacity \ {pool.free[i] : i \in DOMAIN pool.free}
=============================================================================
