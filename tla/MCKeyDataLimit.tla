--------------------------- MODULE MCKeyDataLimit ---------------------------
(***************************************************************************)
(* TLC instance of KeyDataLimit.                                           *)
(***************************************************************************)
EXTENDS KeyDataLimit

MCRedLimit == [m \in Mode |-> 4]

=============================================================================
