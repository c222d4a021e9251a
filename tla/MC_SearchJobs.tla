--------------------------- MODULE MC_SearchJobs ---------------------------
(***************************************************************************)
(* A query with a root group R over groups A (a CTE producer) and B, and a *)
(* scalar group S.  Exploration commutes R's expression and, in the second *)
(* stage, rewrites B over a new group C, and over a new group D that turns *)
(* out to be a duplicate of B.  B can be asked for its rows in an order    *)
(* (context b1) that only the enforcer sb delivers, A for another one (a1) *)
(* with the enforcer sa.                                                   *)
(***************************************************************************)
EXTENDS SearchJobs, TLC

MC_Job == 1..13
MC_Group == {"R", "A", "B", "C", "D", "S"}
MC_Ctx == {"r0", "a0", "a1", "b0", "b1", "c0"}
MC_Queue == ({"Exploration", "Implementation"} \X MC_Group)
            \cup ({"Optimization"} \X MC_Ctx)
MC_Level == [q \in MC_Queue |-> 0]
MC_CtxGroup == "r0" :> "R" @@ "a0" :> "A" @@ "a1" :> "A"
               @@ "b0" :> "B" @@ "b1" :> "B" @@ "c0" :> "C"

MC_Logical == {"r1", "r2", "a", "b1st", "b2nd", "bcirc", "c", "d"}
MC_GExpr == MC_Logical \cup {"seq", "join", "nlj", "pa", "sa", "pb", "mb", "pc2", "pcc", "sb", "sc"}
MC_GroupOf ==
    [e \in MC_GExpr |->
        CASE e \in {"r1", "r2", "seq", "join", "nlj"} -> "R"
          [] e \in {"a", "pa", "sa"}                  -> "A"
          [] e \in {"b1st", "b2nd", "bcirc", "pb", "mb", "pc2", "sb"} -> "B"
          [] e \in {"c", "pcc"}                       -> "C"
          [] e = "d"                                  -> "D"
          [] e = "sc"                                 -> "S"]
MC_Kids ==
    [e \in MC_GExpr |->
        CASE e \in {"r1", "seq", "nlj"} -> <<"A", "B", "S">>
          [] e \in {"r2", "join"}       -> <<"B", "S", "A">>
          [] e \in {"b2nd", "pc2"}      -> <<"C">>
          [] e = "bcirc"                -> <<"D">>
          [] e = "sa"                   -> <<"A">>
          [] e = "sb"                   -> <<"B">>
          [] OTHER                      -> <<>>]
MC_Seed == "R" :> <<"r1">> @@ "A" :> <<"a">> @@ "B" :> <<"b1st">>
           @@ "C" :> <<>> @@ "D" :> <<>> @@ "S" :> <<"sc">>
(* Transformations that may or may not apply. *)
MC_Xform ==
    [s \in 0..1 |->
        [Exploration |-> [e \in MC_GExpr |->
            CASE e = "r1" -> <<{<<>>, <<"r2">>}>>
              [] e = "b1st" /\ s = 1 -> <<{<<"bcirc", "d", "b2nd", "c">>}>>
              [] OTHER -> <<>>],
         Implementation |-> [e \in MC_GExpr |->
            CASE e = "r1" -> <<{<<>>, <<"seq">>}, {<<"nlj">>}>>
              [] e = "r2" -> <<{<<"join">>}>>
              [] e = "a" -> <<{<<"pa">>}>>
              [] e = "b1st" -> <<{<<>>, <<"pb", "mb">>}>>
              [] e \in {"b2nd", "bcirc"} -> <<{<<"pc2">>}>>
              [] e = "c" -> <<{<<"pcc">>}>>
              [] OTHER -> <<>>]]]

MC_Circular == 0 :> {} @@ 1 :> {"bcirc"}

(* The same transformations, all applying. *)
MC_XformAll ==
    [s \in 0..1 |-> [ph \in {"Exploration", "Implementation"} |-> [e \in MC_GExpr |->
        [n \in DOMAIN MC_Xform[s][ph][e] |-> MC_Xform[s][ph][e][n] \ {<<>>}]]]]

(* sb's second request asks its own context of its own group. *)
MC_Request ==
    [e \in MC_GExpr |-> [c \in MC_Ctx |->
        CASE e = "seq"  -> << <<"a0", "b0", None>>, <<"a0", "b1", None>> >>
          [] e = "nlj"  -> << <<"a0", "b0", None>>, <<"a0", "b0", None>> >>
          [] e = "join" -> << <<"b1", None, "a0">> >>
          [] e = "pc2"  -> << <<"c0">> >>
          [] e = "sa"   -> << <<"a0">> >>
          [] e = "sb"   -> << <<"b0">>, <<"b1">> >>
          [] OTHER      -> << <<>> >>]]
MC_Provides == {<<"seq", "r0">>, <<"nlj", "r0">>, <<"join", "r0">>,
                <<"pa", "a0">>, <<"pa", "a1">>, <<"sa", "a1">>,
                <<"pb", "b0">>, <<"mb", "b0">>, <<"pb", "b1">>, <<"pc2", "b0">>, <<"pc2", "b1">>,
                <<"sb", "b1">>, <<"pcc", "c0">>}
MC_Delivers == MC_Provides \ {<<"pa", "a1">>, <<"pb", "b1">>, <<"pc2", "b1">>}
MC_Enforcers == [e \in MC_GExpr |-> [c \in MC_Ctx |->
                    IF <<e, c>> = <<"pa", "a1">> THEN <<"sa">>
                    ELSE IF <<e, c>> \in {<<"pb", "b1">>, <<"pc2", "b1">>} THEN <<"sb">>
                    ELSE <<>>]]
MC_Rejected == {<<"sb", "mb">>}
MC_Eol == [e \in MC_GExpr |-> IF e = "seq" THEN 1 ELSE 0]
MC_CTECtx == [e \in MC_GExpr |-> IF e = "seq" THEN "a1" ELSE None]
MC_LocalCost ==
    [e \in MC_GExpr |->
        CASE e = "seq" -> 5 [] e = "join" -> 1 [] e = "nlj" -> 12
          [] e = "pa" -> 3 [] e = "sa" -> 2 [] e = "pb" -> 6 [] e = "mb" -> 7
          [] e = "sb" -> 2
          [] e = "pc2" -> 1 [] e = "pcc" -> 2 [] OTHER -> 0]
=============================================================================
