---------------------------- MODULE RefreshQueue ----------------------------
(***************************************************************************)
(* The debounce of xterm.js's refresh, as operators: `queued' is           *)
(* _refreshIsQueued, `full' _fullRefreshNext, and `timers' are the pending *)
(* timers with the range of rows each one captured.                        *)
(***************************************************************************)
LOCAL INSTANCE Integers
LOCAL INSTANCE Sequences

Painter == [queued : BOOLEAN, full : BOOLEAN, timers : Seq([start : Nat, end : Int])]

\* Mutant: the range of the second call is forgotten.
RefreshOnce(p, start, end) ==
    IF p.queued THEN p
    ELSE [p EXCEPT !.queued = TRUE,
                   !.timers = Append(@, [start |-> start, end |-> end])]

\* refresh(start, end): order a painting, or a full one if one is ordered.
Refresh(p, start, end) ==
    IF p.queued THEN [p EXCEPT !.full = TRUE]
    ELSE [p EXCEPT !.queued = TRUE,
                   !.timers = Append(@, [start |-> start, end |-> end])]

\* The timer fires: the locks are released, whatever the painting does.
Fired(p) == [queued |-> FALSE, full |-> FALSE, timers |-> Tail(p.timers)]

\* The rows it paints, on a terminal with that many rows.
Paint(p, rows) == IF p.full THEN 0 .. rows - 1
                  ELSE Head(p.timers).start .. Head(p.timers).end
=============================================================================
