---------------------- MODULE MCBuiltinCollectors -----------------------
(* Every collector alone, and beside the generic one of the same name, in    *)
(* both orders of --collectors.                                              *)
EXTENDS BuiltinCollectors

CONSTANTS r1, r2

Lists(native) ==
    LET generic == {<<"generic", n>> : n \in GenericNames}
        twins   == {c \in native : c[2] \in GenericNames}
    IN  {<<c>> : c \in native \cup generic \cup {Prom}}
        \cup {<<c, <<"generic", c[2]>> >> : c \in twins}
        \cup {<< <<"generic", c[2]>>, c>> : c \in twins}

MCEnabled ==
    [linux   |-> Lists({<<"procfs", n>> : n \in ProcfsNames}),
     windows |-> Lists({<<"wmi", n>> : n \in WmiNames} \cup {Gpu}),
     other   |-> Lists({})]

=========================================================================
