----------------------------- MODULE SpscRingSize -----------------------------
(***************************************************************************)
(* size_approx of spsc_ring.hpp called by a thread that is neither the     *)
(* producer nor the consumer.  The two loads are operands of one           *)
(* subtraction, so the build may make either of them first; they are taken *)
(* from the newest stores, which is the most favourable memory.            *)
(***************************************************************************)
EXTENDS SpscRing

VARIABLES observer,   \* "idle", which load is still to come, or "returned"
          loaded,     \* the word of the first load
          size,       \* what the last call returned
          most        \* most values the ring has held since the call began

sizeVars == <<vars, observer, loaded, size, most>>

SizeInit == Init /\ observer = "idle" /\ loaded = 0 /\ size = 0 /\ most = 0

LoadTailFirst == /\ observer = "idle"
                 /\ observer' = "head" /\ loaded' = Word(tail) /\ most' = tail - head
                 /\ UNCHANGED <<vars, size>>
LoadHeadFirst == /\ observer = "idle"
                 /\ observer' = "tail" /\ loaded' = Word(head) /\ most' = tail - head
                 /\ UNCHANGED <<vars, size>>
LoadHeadLast == /\ observer = "head"
                /\ observer' = "returned" /\ size' = Word(loaded - Word(head))
                /\ UNCHANGED <<vars, loaded, most>>
LoadTailLast == /\ observer = "tail"
                /\ observer' = "returned" /\ size' = Word(Word(tail) - loaded)
                /\ UNCHANGED <<vars, loaded, most>>
Used == observer = "returned" /\ observer' = "idle" /\ UNCHANGED <<vars, loaded, size, most>>

\* The two threads go on meanwhile.
RingStep == /\ Next
            /\ most' = IF tail' - head' > most THEN tail' - head' ELSE most
            /\ UNCHANGED <<observer, loaded, size>>

SizeNext == LoadTailFirst \/ LoadHeadFirst \/ LoadHeadLast \/ LoadTailLast \/ Used \/ RingStep
SizeSpec == SizeInit /\ [][SizeNext]_sizeVars

\* "exact for the consumer, a lower bound elsewhere" (spsc_ring.hpp:62): what
\* another thread is told is at most what the ring held at some time in the call.
SizeIsLowerBound == observer = "returned" => size <= most
=============================================================================
