---------------------------- MODULE MCEthFilter ----------------------------
(* Small instances of EthFilter. *)
EXTENDS EthFilter

CONSTANTS t1, t2

All == [from |-> Some(0), to |-> None, limit |-> None]

Last == [from |-> None, to |-> Some(2), limit |-> Some(1)]

AllFilters == {All, Last}

OneFilter == {All}
=============================================================================
