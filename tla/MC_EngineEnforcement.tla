------------------------ MODULE MC_EngineEnforcement ------------------------
(***************************************************************************)
(* Groups with a scan or a filter on a registered engine, enforcers on GP. *)
(***************************************************************************)
EXTENDS EngineEnforcement

CONSTANTS GP, X

MC_DefaultEngine == [op \in {"Sort", "Motion", "Spool"} |-> GP]

(* RegisterEngineTransform stores one flag for distribution and rewindability *)
MC_KeepDistribution == [from \in Engine |-> [to \in Engine |-> {"distribution", "rewindability"}]]

(* a table scan on X and an external scan on GP *)
MC_Scans ==
    {BaseOp("TableScan", [o |-> FALSE, d |-> "Hashed", r |-> MarkRestore, h |-> FALSE, e |-> X]),
     BaseOp("ExternalScan", [o |-> FALSE, d |-> "Hashed", r |-> None, h |-> FALSE, e |-> GP])}

(* a filter on X *)
MC_Filter ==
    {BaseOp("Filter", [o |-> FALSE, d |-> "Hashed", r |-> Rewindable, h |-> FALSE, e |-> X])}

(* an ordered result on one segment, to be scanned once or again *)
MC_RequestsGP ==
    {c \in Context : /\ c.e = GP /\ c.o /\ c.d = "Singleton"
                     /\ c.r \in {None, Rescannable} /\ (c.r = None => ~c.h)}

(* the inner side of a merge join *)
MC_RequestsMerge ==
    {[o |-> TRUE, d |-> "Hashed", r |-> MarkRestore, h |-> FALSE, e |-> GP]}

=============================================================================
