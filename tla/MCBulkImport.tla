---------------------------- MODULE MCBulkImport ----------------------------
(* Two tasks that write the same two points in opposite orders.               *)
EXTENDS BulkImport

CONSTANTS t1, t2, t3, p, q

MCPayload == [t \in Tasks |-> IF t = t1 THEN <<p, q>> ELSE IF t = t2 THEN <<q, p>> ELSE <<p>>]
MCStamp   == [t \in Tasks |-> IF t = t1 THEN 2 ELSE IF t = t2 THEN 1 ELSE 3]

Setting(tasks, limit, expiring, pruned, n) ==
    [tasks |-> tasks, limit |-> limit, expiring |-> expiring, pruned |-> pruned, troubles |-> n]

\* One task with everything that can go wrong; two that deadlock, or of which one
\* fails for ever.
MCSettings == {Setting({t1}, 1, {t1, Slots}, {}, 2), Setting({t1, t2}, 2, {}, {t1}, 0)}

\* Nothing goes wrong, one slot.
OneSlot == {Setting({t1, t2, t3}, 1, {}, {}, 0)}
=============================================================================
