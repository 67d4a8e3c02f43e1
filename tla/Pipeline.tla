------------------------------- MODULE Pipeline -------------------------------
(***************************************************************************)
(* The deployment of bench_ring.cpp: a feed thread pushes messages through *)
(* the ring, and the engine thread pops one, applies it, and pops the next *)
(* when the call has returned.  The ring carries the index of a message    *)
(* for the message.                                                        *)
(***************************************************************************)
EXTENDS SpscRing

CONSTANTS OrderId, Participant, Price, Qty, StpPolicies, None, QtyMod,
          OrderSlab, LevelSlab, ExpectedOrders, ExpectedLevels,
          Workloads   \* the sequences of messages, each Items long

ASSUME WorkloadsAssumption == \A w \in Workloads : Len(w) = Items

VARIABLES heap, stp, pc, taker, cursor, event,   \* the engine
          ops, applied

engineVars == <<heap, stp, pc, taker, cursor, event, ops, applied>>
pipelineVars == <<vars, engineVars>>

Engine == INSTANCE DirectFeed

PipelineInit == Init /\ Engine!Init /\ ops \in Workloads /\ applied = 0

FeedThread == Push /\ UNCHANGED engineVars

\* try_pop, again and again until it succeeds
PopNext == /\ pc = "idle" /\ applied = Len(received)
           /\ PopAll /\ UNCHANGED engineVars

\* mutant: what try_pop failed to overwrite is applied again
ApplyPoppedTwice == /\ pc = "idle" /\ received # <<>>
                    /\ Engine!Apply(ops[received[Len(received)] + 1])
                    /\ UNCHANGED vars

ApplyPopped == /\ pc = "idle" /\ applied < Len(received)
               /\ Engine!Apply(ops[received[applied + 1] + 1])
               /\ UNCHANGED vars

EngineThread == PopNext \/ ApplyPopped \/ (Engine!InCall /\ UNCHANGED vars)

StoresTravel == Visibility /\ UNCHANGED engineVars

\* feed.join(), and all is consumed
Finished == /\ producer = "done" /\ consumer = "done" /\ applied = Items /\ pc = "idle"
            /\ UNCHANGED pipelineVars

PipelineNext == FeedThread \/ EngineThread \/ StoresTravel \/ Finished

\* Both threads are scheduled, and every store becomes visible in time.
PipelineSpec == /\ PipelineInit /\ [][PipelineNext]_pipelineVars
                /\ WF_pipelineVars(FeedThread) /\ WF_pipelineVars(EngineThread)
                /\ WF_pipelineVars(TailArrives /\ UNCHANGED engineVars)
                /\ WF_pipelineVars(HeadArrives /\ UNCHANGED engineVars)

-----------------------------------------------------------------------------
\* Two threads and a ring do what one thread does that calls the engine directly:
\* the calls are those of the messages, in their order, one at a time.
SameAsDirectFeed == Engine!Safety

\* Every message is applied and its call returns, whatever the calls do.
AllApplied == <>[](applied = Items /\ pc = "idle")
=============================================================================
