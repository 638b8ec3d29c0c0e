--------------------------- MODULE MCDataChannel ---------------------------
(***************************************************************************)
(* TLC instance of DataChannel: both directions limited, with a counter    *)
(* that wraps soon after the limit.                                        *)
(***************************************************************************)
EXTENDS DataChannel

MCRedLimit == [m \in Mode |-> 4]

=============================================================================
