------------------------------ MODULE MCBadge ------------------------------
EXTENDS Badge

NothingToDetect == [d \in {} |-> 0]

Ahead(t) == IF t = NoTime THEN NoTime ELSE Wsub(t, now)

TimeView ==
    << [rt EXCEPT !.phase.at = IF rt.phase = Stopped THEN 0 ELSE Ahead(@),
                  !.next_wake = Ahead(@),
                  !.shutdown_deadline = Ahead(@),
                  !.frog_epoch = 0],
       [timer EXCEPT !.wake_at = IF timer.wake_armed THEN Ahead(@) ELSE 0, !.tmos = Ahead(@)],
       board, radio, callbacks, todo, ret >>
=============================================================================
