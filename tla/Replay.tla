-------------------------------- MODULE Replay --------------------------------
(***************************************************************************)
(* replay_binance.cpp over the book mirror: a capture is read record by    *)
(* record, the first snapshot seeds a mirrored book, the diffs after it    *)
(* are applied in sequence, and whenever the sequence reaches the id of a  *)
(* later snapshot the book is compared with it.                            *)
(*                                                                         *)
(* External: the exchange gives each change of a level the next id, a diff *)
(* reports the levels a window touched, diffs may be lost, a snapshot,     *)
(* fetched on another connection, may land anywhere in the file, and the   *)
(* capture may stop in the middle of a line.                               *)
(***************************************************************************)
EXTENDS BookMirror

CONSTANTS CompareDepth,   \* kCompareDepth
          SnapshotDepth,  \* levels per side that a snapshot carries
          MaxUpdates,     \* bound: ids the exchange gives out
          MaxSnapshots,   \* bound: ids at which the capture has snapshots
          Lossy,          \* may diffs be lost
          MayStop         \* may the capture stop in the middle of a line

ASSUME DepthAssumption == CompareDepth \in Nat \ {0} /\ SnapshotDepth \in Nat

\* std::nullopt is none of the values that may be there.
ASSUME NulloptAssumption == /\ None \notin Nat
                            /\ None \notin Seq(Update)
                            /\ None \notin [first : Nat, last : Nat, updates : Seq(Update)]
                            /\ \A levels \in SUBSET Level : levels # None

VARIABLES exchange,    \* external: quantity of each level
          lastId,      \* external: id of the exchange's last change
          window,      \* external: first id of the open window and levels it touched
          snapIds,     \* external: ids at which snapshots were taken
          wire,        \* diffs of the capture that are still to be read
          cutOff,      \* external: None, or the levels cut off the last line
          stage,       \* "empty": not seeded, "reading", "validating", "ended"
          lastU, synced,                 \* of MirroredBook
          trades,                        \* of SinkHandler
          targets,                       \* snapshots still to be compared
          gaps, unreachable, pass, fail, \* counters of run()
          asOf,        \* ghost: the exchange's book when it gave out lastU
          missed       \* ghost: ids above the seed that never reached the mirror

exchangeVars == <<exchange, lastId, window, snapIds, cutOff>>
replayVars   == <<stage, lastU, synced, targets, gaps, unreachable, pass, fail, asOf>>
vars == <<engineVars, mirrorVars, exchangeVars, wire, replayVars, trades, missed>>

Capture == INSTANCE CaptureLine

Books == [Side -> [Price -> Qty]]
\* The book of a live market is not crossed, and not empty.
Market(levels) ==
    /\ \A b, a \in Price : levels["Bid"][b] > 0 /\ levels["Ask"][a] > 0 => b < a
    /\ \E side \in Side, p \in Price : levels[side][p] > 0

\* The levels of some prices of a side, best first.
Ladder(levels, side, prices) ==
    LET Ahead(p) == {q \in prices : Engine!Better(side, q, p)}
        Ranked(i) == CHOOSE p \in prices : Cardinality(Ahead(p)) = i - 1
        At(p) == [side |-> side, price |-> p, qty |-> levels[side][p]]
    IN  [i \in 1 .. Cardinality(prices) |-> At(Ranked(i))]
First(n, ladder) == SubSeq(ladder, 1, IF n < Len(ladder) THEN n ELSE Len(ladder))
Top(n, levels, side) == First(n, Ladder(levels, side, {p \in Price : levels[side][p] > 0}))

Init ==
    /\ MirrorInit
    /\ exchange \in {levels \in Books : Market(levels)}
    /\ lastId = 0 /\ window = [first |-> 1, touched |-> {}] /\ snapIds = {} /\ wire = <<>>
    /\ cutOff = None
    /\ stage = "empty" /\ lastU = 0 /\ synced = FALSE /\ trades = 0 /\ targets = {}
    /\ gaps = 0 /\ unreachable = 0 /\ pass = 0 /\ fail = 0
    /\ asOf = exchange /\ missed = {}

-----------------------------------------------------------------------------
(* The exchange and its streams; a file is complete before it is read, so  *)
(* nothing is lost if they rest while a record is being worked on.         *)

BetweenRecords == call = "idle" /\ stage \in {"empty", "reading"}
Capturing == BetweenRecords /\ cutOff = None

ChangeLevel(l, q) ==
    /\ Capturing /\ lastId < MaxUpdates /\ exchange[l[1]][l[2]] # q
    /\ exchange' = [exchange EXCEPT ![l[1]][l[2]] = q] /\ Market(exchange')
    /\ lastId' = lastId + 1
    /\ window' = [window EXCEPT !.touched = @ \cup {l}]
    /\ UNCHANGED <<engineVars, mirrorVars, snapIds, cutOff, wire, replayVars, trades, missed>>

\* The window's diff, and the line of the capture it becomes.
Touched(side) == Ladder(exchange, side, {p \in Price : <<side, p>> \in window.touched})
Line == Capture!DiffLine(window.first, lastId, Touched("Bid"), Touched("Ask"))

\* run() parses the whole file first; a line that yields a record is as good as the record.
Written(line) ==
    LET diff == Capture!ParseDiff(line)
    IN  IF diff = None THEN wire
        ELSE Append(wire, [first |-> diff.first, last |-> diff.last, updates |-> diff.updates,
                           after |-> exchange])
MissedWindow == missed \cup {i \in window.first .. lastId : i > lastU}

CloseWindow ==
    /\ Capturing /\ window.touched # {}
    /\ window' = [first |-> lastId + 1, touched |-> {}]
    /\ \/ wire' = Written(Line) /\ UNCHANGED missed
       \/ Lossy /\ missed' = MissedWindow /\ UNCHANGED wire
    /\ UNCHANGED <<engineVars, mirrorVars, exchange, lastId, snapIds, cutOff, replayVars, trades>>

\* The last line is half written.
StopInLine(line) ==
    LET listed == IF Written(line) = wire THEN window.touched
                  ELSE {Id(u) : u \in ToSet(Last(Written(line)).updates)}
    IN
    /\ MayStop /\ Capturing /\ window.touched # {}
    /\ window' = [first |-> lastId + 1, touched |-> {}]
    /\ wire' = Written(line) /\ cutOff' = window.touched \ listed
    /\ missed' = IF wire' = wire THEN MissedWindow ELSE missed
    /\ UNCHANGED <<engineVars, mirrorVars, exchange, lastId, snapIds, replayVars, trades>>

\* mutant: what was taken out of the targets may come back
EmplacedAgain(snap) == targets \cup {snap}

\* The targets are a map from ids, and run() fills it from the whole file before it
\* reads the first record: of the snapshots with one id it keeps the first, and one that
\* repeats the id of the seed goes with it.
Emplaced(snap) == IF snap.id \in snapIds THEN targets ELSE targets \cup {snap}

\* A snapshot of the book as it is: any number of them while no id is given out, but none
\* for a new id that the diffs have already reached.
TakeSnapshot ==
    /\ Capturing
    /\ \/ lastId \in snapIds
       \/ Cardinality(snapIds) < MaxSnapshots /\ (stage = "empty" \/ lastId > lastU)
    /\ snapIds' = snapIds \cup {lastId}
    /\ targets' = Emplaced([id |-> lastId, book |-> exchange])
    /\ UNCHANGED <<engineVars, mirrorVars, exchange, lastId, window, cutOff, wire, stage, lastU,
                   synced, gaps, unreachable, pass, fail, asOf, trades, missed>>

-----------------------------------------------------------------------------
(* The records.  A snapshot record after the first changes nothing.        *)

Carried(snap, side) == Top(SnapshotDepth, snap.book, side)

Seed(snap) ==
    /\ stage = "empty" /\ snap \in targets
    /\ ApplySnapshot(Carried(snap, "Bid") \o Carried(snap, "Ask"))
    /\ stage' = "reading" /\ lastU' = snap.id /\ synced' = FALSE
    /\ targets' = targets \ {snap}
    /\ asOf' = snap.book /\ missed' = {i \in missed : i > snap.id}
    /\ UNCHANGED <<exchangeVars, wire, gaps, unreachable, pass, fail, trades>>

NextDiff == Head(wire)
TakeDiff == BetweenRecords /\ wire # <<>> /\ wire' = Tail(wire)

IgnoreDiff ==
    /\ stage = "empty" /\ TakeDiff
    /\ missed' = missed \cup (NextDiff.first .. NextDiff.last)
    /\ UNCHANGED <<engineVars, mirrorVars, exchangeVars, replayVars, trades>>

SkipDiff ==
    /\ stage = "reading" /\ TakeDiff /\ NextDiff.last <= lastU
    /\ UNCHANGED <<engineVars, mirrorVars, exchangeVars, replayVars, trades, missed>>

\* mutant: the first diff is held to the rule of the others
IsGapStrict(diff) == diff.first # lastU + 1
\* mutant: only the first diff is looked at
IsGapAtSeed(diff) == ~synced /\ diff.first > lastU + 1

\* The first applied diff must cover lastU + 1, the others begin with it.
IsGap(diff) == IF synced THEN diff.first # lastU + 1 ELSE diff.first > lastU + 1

\* mutant: diffs older than the seed are applied
ApplyStaleDiff ==
    /\ stage = "reading" /\ TakeDiff
    /\ gaps' = IF IsGap(NextDiff) THEN gaps + 1 ELSE gaps
    /\ synced' = TRUE /\ lastU' = NextDiff.last /\ asOf' = NextDiff.after
    /\ ApplyDiff(NextDiff.updates)
    /\ stage' = "validating"
    /\ UNCHANGED <<exchangeVars, targets, unreachable, pass, fail, trades, missed>>
\* mutant: the id of the diff to come
ApplyNextDiffAhead ==
    /\ stage = "reading" /\ TakeDiff /\ NextDiff.last > lastU
    /\ gaps' = IF IsGap(NextDiff) THEN gaps + 1 ELSE gaps
    /\ synced' = TRUE /\ lastU' = NextDiff.last + 1 /\ asOf' = NextDiff.after
    /\ ApplyDiff(NextDiff.updates)
    /\ stage' = "validating"
    /\ UNCHANGED <<exchangeVars, targets, unreachable, pass, fail, trades, missed>>

\* A gap is counted, and the diff is applied all the same.
ApplyNextDiff ==
    /\ stage = "reading" /\ TakeDiff /\ NextDiff.last > lastU
    /\ gaps' = IF IsGap(NextDiff) THEN gaps + 1 ELSE gaps
    /\ synced' = TRUE /\ lastU' = NextDiff.last /\ asOf' = NextDiff.after
    /\ ApplyDiff(NextDiff.updates)
    /\ stage' = "validating"
    /\ UNCHANGED <<exchangeVars, targets, unreachable, pass, fail, trades, missed>>

MirrorStep ==
    /\ MirrorRuns
    /\ trades' = IF event' # None /\ event'.type = "trade" THEN trades + 1 ELSE trades
    /\ UNCHANGED <<exchangeVars, wire, replayVars, missed>>

\* compare_to_snapshot: as deep as both books go, and at least one level.
OurBook == [side \in Side |-> [p \in Price |-> DepthAt(side, p)]]
Ours(side) == Top(CompareDepth, OurBook, side)
Theirs(snap, side) == First(CompareDepth, Carried(snap, side))
Compared(snap, side) == DOMAIN Ours(side) \cap DOMAIN Theirs(snap, side)
Passes(snap) ==
    /\ \E side \in Side : Compared(snap, side) # {}
    /\ \A side \in Side : \A i \in Compared(snap, side) : Ours(side)[i] = Theirs(snap, side)[i]

\* mutant: a snapshot between two diff ends is compared with the later one
HitOvershot(snap) == snap.id <= lastU
Hit(snap) == snap.id = lastU

\* The targets up to lastU are compared, or overshot, and forgotten.
Validate ==
    LET reached == {snap \in targets : snap.id <= lastU}
        passing == {snap \in reached : Hit(snap) /\ Passes(snap)}
        failing == {snap \in reached : Hit(snap) /\ ~Passes(snap)}
    IN
    /\ stage = "validating" /\ call = "idle"
    /\ pass' = pass + Cardinality(passing) /\ fail' = fail + Cardinality(failing)
    /\ unreachable' = unreachable + Cardinality(reached \ (passing \cup failing))
    /\ targets' = targets \ reached
    /\ stage' = "reading"
    /\ UNCHANGED <<engineVars, mirrorVars, exchangeVars, wire, lastU, synced, gaps, asOf, trades,
                   missed>>

\* The end of the file; the snapshots never reached are counted.  (A file without
\* a diff is turned away before; it would only seed and end.)
EndOfFile ==
    /\ stage = "reading" /\ call = "idle" /\ wire = <<>>
    /\ stage' = "ended" /\ unreachable' = unreachable + Cardinality(targets)
    /\ UNCHANGED <<engineVars, mirrorVars, exchangeVars, wire, lastU, synced, targets, gaps, pass,
                   fail, asOf, trades, missed>>

Ended == stage = "ended" /\ UNCHANGED vars

\* A capture that stopped before its first snapshot is turned away.
TurnedAway == stage = "empty" /\ cutOff # None /\ targets = {} /\ UNCHANGED vars

-----------------------------------------------------------------------------
ExchangeRuns == \/ \E l \in Level, q \in Qty : ChangeLevel(l, q)
                \/ CloseWindow \/ TakeSnapshot
                \/ \E line \in Capture!Cuts(Line) : StopInLine(line)
ReplayRuns == \/ \E snap \in targets : Seed(snap)
              \/ IgnoreDiff \/ SkipDiff \/ ApplyNextDiff \/ MirrorStep \/ Validate
              \/ EndOfFile \/ Ended \/ TurnedAway

Next == ExchangeRuns \/ ReplayRuns
Spec == Init /\ [][Next]_vars

-----------------------------------------------------------------------------
(* Properties                                                              *)

\* Types of the replay's state and the shape of the capture.
TypeOK ==
    /\ MirrorTypeOK
    /\ exchange \in Books /\ asOf \in Books
    /\ \A i \in DOMAIN wire : wire[i].first \in 1 .. wire[i].last /\ wire[i].last < window.first
    /\ stage \in {"empty", "reading", "validating", "ended"}
    /\ stage = "validating" => synced
    /\ lastU \in 0 .. lastId
    /\ cutOff = None \/ cutOff \subseteq Level
    /\ {trades, gaps, unreachable, pass, fail} \subseteq Nat

Settled == stage # "empty" /\ call = "idle"

\* The levels of the last diff that a half-written line has kept from the mirror.
Lost == IF wire = <<>> /\ cutOff # None THEN cutOff ELSE {}

\* "must equal the exchange's own book at that instant" (README.md:186-188): as
\* long as no gap was counted, the mirrored book is the exchange's at lastU,
\* wherever in the stream the seed landed, stale diffs skipped and the first
\* diff straddling it.  A half-written last line takes only its own levels out.
\* The seed must carry the whole book: of levels outside it the mirror knows nothing.
GapFreeMirrors ==
    Settled /\ gaps = 0 /\ trades = 0 =>
        \A side \in Side, p \in Price :
            <<side, p>> \in Lost \/ OurBook[side][p] = asOf[side][p]

\* "Returns nullopt on lines that are malformed", such as a "half-written last line"
\* (binance_parser.hpp:128-130), holds of the bids alone: the line is refused unless
\* all of them are there, since the asks are searched behind them.
CutLosesAsksOnly == cutOff # None => \A l \in cutOff : l[1] = "Ask"

\* The sequence check misses nothing and makes nothing up: a gap is counted
\* exactly when an id between the seed and lastU never reached the mirror.
GapsAreLosses == Settled => (gaps > 0 <=> \E i \in missed : i <= lastU)

\* The anomaly the tool counts as "crossed input" (book_mirror.hpp:16-18) cannot
\* come from the mirror itself: without a gap, or asks that were cut off the last
\* line, there is no match.
PhantomMeansGap == trades > 0 => gaps > 0 \/ Lost # {}

\* A gap-free replay never fails a validation: no comparison is made too early,
\* too late, or against a truncated list that the other side does not match.
\* Of the seed it needs what GapFreeMirrors needs.
GapFreeValidates == gaps = 0 /\ Lost = {} => fail = 0

\* "Counted and reported rather than silently skipped" (240-241), which is true of the ids
\* and not of the records: each id at which the file has a snapshot is that of the seed,
\* still a target, or in exactly one counter, however often a record repeats it; the
\* repetitions are in none.
SnapshotsAccountedFor ==
    stage # "empty" =>
        LET waiting == IF stage = "ended" THEN 0 ELSE Cardinality(targets)
        IN  1 + waiting + pass + fail + unreachable = Cardinality(snapIds)

\* "If the engine still reports a trade during mirroring, the input itself was
\* crossed" (book_mirror.hpp:16-18); no input of this exchange is.
NoPhantomMatch == trades = 0

\* "a truncated `ours` at the touch is itself a failure" (replay_binance.cpp:136):
\* when a comparison passes, no side of ours is empty where the snapshot's is not.
TruncatedSideFails ==
    stage = "validating" /\ call = "idle" =>
        \A snap \in targets : snap.id = lastU /\ Passes(snap) =>
            \A side \in Side : Theirs(snap, side) # <<>> => Ours(side) # <<>>
=============================================================================
