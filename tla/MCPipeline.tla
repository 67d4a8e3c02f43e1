------------------------------ MODULE MCPipeline ------------------------------
(* Workloads for TLC: orders that queue, sweep, rest, grow, shrink and die. *)
EXTENDS Pipeline
CONSTANTS o1, o2, o3, p1

Limit(id, side, price, qty) == Engine!AddLimitMsg(id, p1, side, price, qty, "GTC")
Ioc(id, side, price, qty)   == Engine!AddLimitMsg(id, p1, side, price, qty, "IOC")
Market(id, side, qty)       == Engine!AddMarketMsg(id, p1, side, qty)

\* A queue of two that a market order sweeps, and ids that are used again.
Sweep == << Limit(o1, "Bid", 1, 1), Limit(o2, "Bid", 2, 2), Limit(o1, "Bid", 2, 1),
            Market(o3, "Ask", 2), Limit(o2, "Ask", 2, 1), Market(o3, "Ask", 2),
            Limit(o1, "Ask", 1, 0), Engine!CancelMsg(o1), Engine!CancelMsg(o2),
            Market(o3, "Bid", 1) >>
\* Modifications that shrink, grow, trade and remove.
Amend == << Limit(o1, "Bid", 1, 2), Limit(o2, "Ask", 2, 2), Engine!ModifyMsg(o1, 1, 1),
            Engine!ModifyMsg(o1, 2, 2), Engine!ModifyMsg(o2, 2, 1), Limit(o3, "Bid", 1, 2),
            Ioc(o1, "Ask", 1, 1), Engine!ModifyMsg(o3, 1, 2), Engine!ModifyMsg(o3, 1, 0),
            Engine!CancelMsg(o3) >>
\* Immediate orders that find too little, and a level that is left and refilled.
Dry   == << Ioc(o1, "Bid", 2, 2), Limit(o1, "Ask", 2, 1), Ioc(o2, "Bid", 2, 2),
            Limit(o1, "Ask", 1, 2), Limit(o2, "Ask", 2, 2), Market(o3, "Bid", 2),
            Limit(o3, "Bid", 2, 1), Engine!CancelMsg(o2), Limit(o3, "Bid", 1, 1),
            Limit(o3, "Ask", 1, 2) >>
TenMessages == {Sweep, Amend, Dry}
Orders == {o1, o2, o3}
Traders == {p1}
=============================================================================
