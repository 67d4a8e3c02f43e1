--------------------------- MODULE MirroredExchange ---------------------------
(***************************************************************************)
(* The mirror and an exchange (external) it follows without a gap: a       *)
(* snapshot, then diffs that carry the absolute quantities of the levels   *)
(* touched in a window, in any order, some of them unchanged or never      *)
(* seen before.  The exchange's book is never crossed when a window ends.  *)
(***************************************************************************)
EXTENDS BookMirror

VARIABLE windowBook   \* quantity of each level at the end of the last window

mirroredVars == <<engineVars, mirrorVars, windowBook>>

Uncrossed(levels) ==
    \A b, a \in Price : levels["Bid"][b] > 0 /\ levels["Ask"][a] > 0 => b < a
ExchangeBook == {levels \in [Side -> [Price -> Qty]] : Uncrossed(levels)}

Listed(levels) == {l \in Level : levels[l[1]][l[2]] > 0}
Differing(old, new) == {l \in Level : old[l[1]][l[2]] # new[l[1]][l[2]]}

\* The updates for some levels of one side, and all lists of updates for some levels:
\* the bids in some order, then the asks.
UpdatesOf(levels, touched, side) ==
    {[side |-> side, price |-> l[2], qty |-> levels[side][l[2]]] :
        l \in touched \cap ({side} \X Price)}
Listings(levels, touched) ==
    {bids \o asks : bids \in SetToSeqs(UpdatesOf(levels, touched, "Bid")),
                    asks \in SetToSeqs(UpdatesOf(levels, touched, "Ask"))}

MirroredInit == /\ MirrorInit
                /\ windowBook = [side \in Side |-> [p \in Price |-> 0]]

\* The first record is a snapshot: every level it lists.
Snapshot ==
    /\ tracked = {}
    /\ \E new \in ExchangeBook : \E us \in Listings(new, Listed(new)) :
          ApplySnapshot(us) /\ windowBook' = new

\* A window lists each level that changed, and some that changed back.
Window ==
    \E new \in ExchangeBook : \E same \in SUBSET (Level \ Differing(windowBook, new)) :
       \E us \in Listings(new, Differing(windowBook, new) \cup same) :
          ApplyDiff(us) /\ windowBook' = new

MirrorTurn == MirrorRuns /\ UNCHANGED windowBook

MirroredNext == Snapshot \/ Window \/ MirrorTurn

MirroredSpec == MirroredInit /\ [][MirroredNext]_mirroredVars

-----------------------------------------------------------------------------
(* Properties                                                              *)

\* What the replay tool validates against later snapshots: between calls the
\* engine's depth at every level is the exchange's at the end of the window, in
\* whatever order the window listed the levels.
MirrorEqualsExchange ==
    call = "idle" => \A side \in Side, p \in Price : DepthAt(side, p) = windowBook[side][p]

\* The point of the two passes (12-18): an uncrossed input never makes the
\* mirror trade with itself, whatever prices a window jumps over.
NoSelfMatch == event = None \/ event.type # "trade"

\* The mirror's ids and the engine's agree whenever a level is looked at, so no
\* update is lost in a call the engine rejects.
TrackedIsLive ==
    pc = "idle" => tracked = {l \in Level : live[l] # None}
=============================================================================
