------------------------------- MODULE MCTools -------------------------------
EXTENDS Tools, TLC

CONSTANTS p1, p2

MCDuty == (p1 :> {"live", "record", "replay"}) @@ (p2 :> {"record", "migrate"})

Sound(id, adapter, tool) ==
    [shaped |-> TRUE, id |-> id, adapter |-> adapter, config |-> TRUE,
     credential |-> "own", access |-> "read", holds |-> "found",
     expected |-> TRUE, tool |-> tool]

\* Each thing that may be wrong with a binding, one at a time.
Variants(b) ==
    {b,
     [b EXCEPT !.shaped = FALSE], [b EXCEPT !.id = "x"],
     [b EXCEPT !.adapter = "other"], [b EXCEPT !.adapter = "lab"],
     [b EXCEPT !.config = FALSE], [b EXCEPT !.credential = None],
     [b EXCEPT !.credential = "foreign"], [b EXCEPT !.access = "write"],
     [b EXCEPT !.holds = "absent"], [b EXCEPT !.holds = "unreadable"],
     [b EXCEPT !.expected = FALSE], [b EXCEPT !.tool = "t"]}

MCBindings ==
    {<<b, c>> : b \in Variants(Sound("x", "github", "t")),
                c \in Variants(Sound("y", "github", "u"))}

=============================================================================
