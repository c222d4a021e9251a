------------------------ MODULE DynamicRegistry_proofs ------------------------
(***************************************************************************)
(* Every registered transformation sits in the slot of its id, provided    *)
(* that the built-in ones are instantiated before the first is registered. *)
(* The argument is that the array then has one slot more than the last id, *)
(* so that an append lands exactly at the next id.                         *)
(*                                                                         *)
(* The registry refers to nothing that was removed, and a removal leaves   *)
(* the other engines alone, provided that names in use are not registered  *)
(* again and that only registered engines are removed.                     *)
(***************************************************************************)
EXTENDS DynamicRegistry, TLAPS

(* the array before and after the built-in transformations are added *)
SlotsInv ==
    /\ rgpxf \in Seq(Int)
    /\ rgpxf[1] = NoXform => Len(rgpxf) = ExfSentinel /\ lastXform = ExfSentinel
    /\ rgpxf[1] # NoXform =>
          /\ Len(rgpxf) = lastXform + 1
          /\ \A x \in ExfSentinel + 1 .. lastXform : rgpxf[x + 1] = x

(* names resolve to ids that have been handed out *)
IdsInv ==
    /\ lastXform \in Nat /\ lastXform >= ExfSentinel
    /\ lastEngine \in Nat /\ lastEngine >= EetDynamicStart
    /\ engines \subseteq EngineType
    /\ xformId \in [XformName -> {0} \cup ExfSentinel + 1 .. lastXform]
    /\ transforms \in [EngineType -> Seq(XformName)]

XInv == IdsInv /\ SlotsInv

(* Initially the array holds one empty slot for each built-in one. *)
LEMMA XInvInit == RegistryInit => XInv
<1>1. SUFFICES ASSUME RegistryInit PROVE XInv
  OBVIOUS
<1>2. ExfSentinel \in Nat /\ ExfSentinel > 0
  BY RegistryAssumption
<1>3. IdsInv
  <2>1. transforms = [e \in EngineType |-> <<>>] /\ xformId = [n \in XformName |-> 0]
    BY <1>1 DEF RegistryInit
  <2>2. transforms \in [EngineType -> Seq(XformName)]
    BY <2>1
  <2>3. xformId \in [XformName -> {0} \cup ExfSentinel + 1 .. lastXform]
    BY <2>1
  <2>4. lastXform = ExfSentinel /\ lastEngine = 2 /\ engines = {EetGP}
    BY <1>1 DEF RegistryInit, EetDynamicStart, ExfDynamicStart
  <2> QED
    BY <1>2, <2>2, <2>3, <2>4 DEF IdsInv, EetDynamicStart, EngineType
<1>4. rgpxf = [i \in 1 .. ExfSentinel |-> NoXform]
  BY <1>1 DEF RegistryInit
<1>5. rgpxf \in Seq(Int) /\ Len(rgpxf) = ExfSentinel /\ rgpxf[1] = NoXform
  BY <1>2, <1>4 DEF NoXform
<1>6. lastXform = ExfSentinel
  BY <1>1 DEF RegistryInit, ExfDynamicStart
<1> QED
  BY <1>3, <1>5, <1>6 DEF XInv, SlotsInv

(* Steps that touch neither the array nor the names keep the invariant. *)
LEMMA XInvUnchanged ==
    ASSUME XInv, UNCHANGED <<rgpxf, xformId, transforms, lastXform, engines, lastEngine>>
    PROVE  XInv'
BY DEF XInv, IdsInv, SlotsInv

(* Instantiate fills the slots of the built-in ones and adds the sentinel. *)
LEMMA XInvDefaults == XInv /\ UseDefaultCPUTransforms => XInv'
<1>1. SUFFICES ASSUME XInv, UseDefaultCPUTransforms PROVE XInv'
  OBVIOUS
<1>2. ExfSentinel \in Nat /\ ExfSentinel > 0
  BY RegistryAssumption
<1>3. /\ rgpxf \in Seq(Int) /\ Len(rgpxf) = ExfSentinel /\ lastXform = ExfSentinel
      /\ UNCHANGED <<xformId, transforms, counters, engines>>
  BY <1>1 DEF UseDefaultCPUTransforms, XInv, SlotsInv, names
<1> DEFINE filled == [i \in 1 .. Len(rgpxf) |-> IF i <= ExfSentinel THEN i - 1 ELSE rgpxf[i]]
<1>4. rgpxf' = Append(filled, NoXform)
  BY <1>1 DEF UseDefaultCPUTransforms
<1>5. filled \in Seq(Int) /\ Len(filled) = ExfSentinel /\ filled[1] = 0
  BY <1>2, <1>3
<1> HIDE DEF filled
<1>6. /\ rgpxf' \in Seq(Int) /\ Len(rgpxf') = ExfSentinel + 1
      /\ rgpxf'[1] = 0
  BY <1>2, <1>4, <1>5 DEF NoXform
<1>7. SlotsInv'
  BY <1>2, <1>3, <1>6 DEF SlotsInv, NoXform, counters
<1>8. IdsInv'
  BY <1>1, <1>3 DEF XInv, IdsInv, counters
<1> QED
  BY <1>7, <1>8 DEF XInv

(* The id handed out is the length of the array, where Add appends. *)
LEMMA XInvRegister ==
    ASSUME DefaultsFirst, XInv, NEW e \in EngineType, NEW n \in XformName, RegisterTransform(e, n)
    PROVE  XInv'
<1>1. ExfSentinel \in Nat /\ ExfSentinel > 0
  BY RegistryAssumption
<1> DEFINE id == lastXform + 1
<1>2. /\ rgpxf[1] # NoXform
      /\ lastXform' = id /\ UNCHANGED <<engines, lastEngine>>
      /\ xformId' = [xformId EXCEPT ![n] = id]
      /\ transforms' = [transforms EXCEPT ![e] = Append(transforms[e], n)]
      /\ rgpxf' = IF id >= Len(rgpxf) THEN Append(rgpxf, id) ELSE [rgpxf EXCEPT ![id + 1] = id]
  BY DEF RegisterTransform, Add, names
<1>3. /\ rgpxf \in Seq(Int) /\ Len(rgpxf) = id
      /\ \A x \in ExfSentinel + 1 .. lastXform : rgpxf[x + 1] = x
      /\ lastXform \in Nat /\ lastXform >= ExfSentinel
  BY <1>2 DEF XInv, SlotsInv, IdsInv
<1>4. rgpxf' = Append(rgpxf, id)
  BY <1>2, <1>3
<1>5. lastXform' \in Nat /\ lastXform' = id
  BY <1>2, <1>3
<1>6. IdsInv'
  <2>1. xformId' \in [XformName -> {0} \cup ExfSentinel + 1 .. id]
    BY <1>1, <1>2, <1>3 DEF XInv, IdsInv
  <2>2. transforms' \in [EngineType -> Seq(XformName)]
    BY <1>2 DEF XInv, IdsInv
  <2> QED
    BY <1>1, <1>2, <1>3, <1>5, <2>1, <2>2 DEF XInv, IdsInv
<1>7. SlotsInv'
  <2>1. rgpxf' \in Seq(Int) /\ Len(rgpxf') = id + 1
    BY <1>3, <1>4
  <2>2. rgpxf'[1] = rgpxf[1] /\ rgpxf'[id + 1] = id
    BY <1>1, <1>3, <1>4
  <2>3. \A x \in ExfSentinel + 1 .. lastXform : rgpxf'[x + 1] = rgpxf[x + 1]
    BY <1>1, <1>3, <1>4
  <2>4. \A x \in ExfSentinel + 1 .. id : rgpxf'[x + 1] = x
    BY <1>1, <1>3, <2>2, <2>3
  <2> QED
    BY <1>2, <1>5, <2>1, <2>2, <2>4 DEF SlotsInv, NoXform
<1> QED
  BY <1>6, <1>7 DEF XInv

(* Removing an engine forgets names; the array and the ids stay. *)
LEMMA XInvRemove ==
    ASSUME XInv, NEW n \in EngineName, RemoveEngine(n)
    PROVE  XInv'
<1>1. PICK e : RemoveTransforms(e)
  BY DEF RemoveEngine
<1>2. UNCHANGED <<rgpxf, counters>> /\ engines' \subseteq engines
  BY <1>1 DEF RemoveEngine, RemoveTransforms
<1>3. xformId' \in [XformName -> {0} \cup ExfSentinel + 1 .. lastXform]
  BY <1>1 DEF RemoveTransforms, XInv, IdsInv
<1>4. transforms' \in [EngineType -> Seq(XformName)]
  <2>1. transforms' = [transforms EXCEPT ![e] = <<>>]
    BY <1>1 DEF RemoveTransforms
  <2>2. transforms \in [EngineType -> Seq(XformName)] /\ <<>> \in Seq(XformName)
    BY DEF XInv, IdsInv
  <2> QED
    BY <2>1, <2>2
<1> QED
  BY <1>2, <1>3, <1>4 DEF XInv, IdsInv, SlotsInv, counters

(* Every call of the registry keeps the invariant. *)
LEMMA XInvNext == ASSUME DefaultsFirst PROVE XInv /\ [RegistryNext]_vars => XInv'
<1>1. SUFFICES ASSUME XInv, [RegistryNext]_vars PROVE XInv'
  OBVIOUS
<1>3. CASE \E n \in EngineName : RegisterEngine(n)
  <2>1. /\ UNCHANGED <<rgpxf, xformId, transforms, lastXform>>
        /\ lastEngine < MaxEngine
        /\ lastEngine' = lastEngine + 1 /\ engines' = engines \cup {lastEngine + 1}
    BY <1>3 DEF RegisterEngine, xforms
  <2>2. lastEngine + 1 \in EngineType
    BY <1>1, <2>1, RegistryAssumption DEF XInv, IdsInv, EngineType, EetDynamicStart
  <2> QED
    BY <1>1, <2>1, <2>2 DEF XInv, IdsInv, SlotsInv, EetDynamicStart
<1>4. CASE \E e \in EngineType, n \in OpName : RegisterPhysicalOperator(e, n)
  BY <1>1, <1>4, XInvUnchanged DEF RegisterPhysicalOperator, xforms, names
<1>5. CASE \E e \in EngineType, n \in OpName, b \in BOOLEAN : RegisterLogicalOperator(e, n, b)
  BY <1>1, <1>5, XInvUnchanged DEF RegisterLogicalOperator, xforms, names
<1>6. CASE UseDefaultCPUTransforms
  BY <1>1, <1>6, XInvDefaults
<1>7. CASE \E e \in EngineType, n \in XformName : RegisterTransform(e, n)
  BY <1>1, <1>7, XInvRegister
<1>8. CASE \E op \in {EopLogicalGet} \cup OpId, x \in XformId : HookTransformToOp(op, x)
  BY <1>1, <1>8, XInvUnchanged DEF HookTransformToOp, xforms, names, counters
<1>9. CASE \E x \in XformId, op \in OpId : HookOpToTransform(x, op)
  BY <1>1, <1>9, XInvUnchanged DEF HookOpToTransform, xforms, names, counters
<1>10. CASE \E from \in EngineType : \E to \in EngineType \ {from} : RegisterEngineTransform(from, to)
  BY <1>1, <1>10, XInvUnchanged DEF RegisterEngineTransform, xforms, counters
<1>11. CASE \E e \in EngineType, r \in RuleName : RegisterPreprocessingRule(e, r)
  BY <1>1, <1>11, XInvUnchanged DEF RegisterPreprocessingRule, xforms, counters
<1>12. CASE \E n \in EngineName : RemoveEngine(n)
  BY <1>1, <1>12, XInvRemove
<1>13. CASE UNCHANGED vars
  BY <1>1, <1>13, XInvUnchanged DEF vars, xforms, names, counters
<1> QED
  BY <1>1, <1>3, <1>4, <1>5, <1>6, <1>7, <1>8, <1>9, <1>10, <1>11, <1>12, <1>13 DEF RegistryNext

(* The invariant puts every registered transformation into its slot. *)
LEMMA XInvSlots == XInv => XformAtItsId
<1>1. SUFFICES ASSUME XInv, NEW x \in LiveXforms PROVE x < Len(rgpxf) /\ rgpxf[x + 1] = x
  BY DEF XformAtItsId
<1>2. PICK e \in engines : x \in XformsOf(e)
  BY DEF LiveXforms
<1>3. PICK n \in Elements(transforms[e]) : x = xformId[n] /\ x # 0
  BY <1>2 DEF XformsOf
<1>4. n \in XformName
  <2>1. transforms[e] \in Seq(XformName)
    BY <1>1, <1>2 DEF XInv, IdsInv
  <2> QED
    BY <1>3, <2>1 DEF Elements
<1>5. x \in ExfSentinel + 1 .. lastXform
  BY <1>1, <1>3, <1>4 DEF XInv, IdsInv
<1>6. rgpxf[1] # NoXform
  BY <1>1, <1>5, RegistryAssumption DEF XInv, SlotsInv
<1> QED
  BY <1>1, <1>5, <1>6, RegistryAssumption DEF XInv, SlotsInv, IdsInv

(***************************************************************************)
(* CXformFactory::Pxf finds every registered transformation under its id   *)
(* for any number of engines and transformations, when the built-in ones   *)
(* are instantiated first.                                                 *)
(***************************************************************************)
THEOREM XformsFound == ASSUME DefaultsFirst PROVE RegistrySpec => []XformAtItsId
<1>1. XInv /\ [RegistryNext]_vars => XInv'
  BY XInvNext
<1> QED
  BY <1>1, XInvInit, XInvSlots, PTL DEF RegistrySpec

-----------------------------------------------------------------------------
(***************************************************************************)
(* What the registry holds belongs to engines that are registered.  The    *)
(* invariant that carries this says who owns each id: a name of one engine *)
(* only, with one id, that nothing else has had.                           *)
(***************************************************************************)

(* ids are between the built-in ones and the counters *)
CountInv ==
    /\ lastEngine \in Nat /\ lastOp \in Nat /\ lastXform \in Nat
    /\ lastEngine >= EetDynamicStart /\ lastOp >= EopSentinel /\ lastXform >= ExfSentinel
    /\ \A e \in engines : e = EetGP \/ e <= lastEngine
    /\ \A e \in EngineType, n \in OpName : opId[e][n] <= lastOp
    /\ \A n \in XformName : xformId[n] <= lastXform
    /\ \A x \in disabled : x > ExfSentinel /\ x <= lastXform

(* an engine that is not registered has nothing; no two engines share a name *)
EngineInv ==
    /\ \A n \in EngineName : engineType[n] # NoEngine => engineType[n] \in engines
    /\ \A m, n \in EngineName : engineType[m] = engineType[n] /\ m # n => engineType[m] = NoEngine
    /\ \A e \in EngineType : e \notin engines =>
          /\ physicalOps[e] = <<>> /\ logicalOps[e] = <<>> /\ transforms[e] = <<>>
          /\ engineRules[e] = {}
          /\ \A n \in OpName : opId[e][n] = 0

(* an operator has an id exactly while it is listed, once, and ids are unique *)
OpInv ==
    /\ \A e \in EngineType, n \in OpName :
          opId[e][n] # 0 <=> n \in Elements(physicalOps[e]) \cup Elements(logicalOps[e])
    /\ \A e \in EngineType :
          /\ Elements(physicalOps[e]) \cap Elements(logicalOps[e]) = {}
          /\ ~Repeats(physicalOps[e]) /\ ~Repeats(logicalOps[e])
    /\ \A e, f \in EngineType, m, n \in OpName :
          opId[e][m] = opId[f][n] /\ opId[e][m] # 0 => e = f /\ m = n

(* the same for transformations, whose names all engines share *)
XformInv ==
    /\ \A e \in EngineType : ~Repeats(transforms[e])
    /\ \A e \in EngineType : \A n \in Elements(transforms[e]) : xformId[n] # 0
    /\ \A e, f \in EngineType : e # f => Elements(transforms[e]) \cap Elements(transforms[f]) = {}
    /\ \A m, n \in XformName : xformId[m] = xformId[n] /\ xformId[m] # 0 => m = n
    /\ \A x \in disabled : \A n \in XformName : xformId[n] # x

(* what the cost model and the hooks refer to is owned by registered engines *)
RefInv ==
    /\ \A x \in costs : \E e \in engines : \E n \in Elements(physicalOps[e]) : x = opId[e][n]
    /\ \A x \in projects : \E e \in engines : \E n \in Elements(logicalOps[e]) : x = opId[e][n]
    /\ \A h \in relevant :
          /\ h[1] = EopLogicalGet \/ \E e \in engines : h[1] \in LogicalOpsOf(e)
          /\ \E e \in engines : h[2] \in XformsOf(e)
    /\ \A h \in factories :
          /\ \E e \in engines : h[1] \in XformsOf(e)
          /\ \E e \in engines : h[2] \in OpsOf(e)

(* so are transitions and rules *)
RuleInv ==
    /\ links \subseteq engines \X engines
    /\ rules = UNION {engineRules[e] : e \in engines}
    /\ \A e, f \in EngineType : e # f => engineRules[e] \cap engineRules[f] = {}

(* the inductive invariant *)
ClosedInv == RegistryTypeOK /\ CountInv /\ EngineInv /\ OpInv /\ XformInv /\ RefInv /\ RuleInv

(* What the lists of names need from sequences. *)
LEMMA AppendElements ==
    ASSUME NEW S, NEW s \in Seq(S), NEW x \in S
    PROVE  /\ Append(s, x) \in Seq(S)
           /\ Elements(Append(s, x)) = Elements(s) \cup {x}
           /\ ~Repeats(s) /\ x \notin Elements(s) => ~Repeats(Append(s, x))
           /\ Elements(s) \subseteq S
<1>1. /\ Append(s, x) \in Seq(S) /\ Len(Append(s, x)) = Len(s) + 1 /\ Len(s) \in Nat
      /\ \A i \in 1 .. Len(s) : Append(s, x)[i] = s[i] /\ s[i] \in S
      /\ Append(s, x)[Len(s) + 1] = x
  OBVIOUS
<1>2. Elements(Append(s, x)) = Elements(s) \cup {x}
  BY <1>1 DEF Elements
<1>3. ASSUME ~Repeats(s), x \notin Elements(s), NEW i \in 1 .. Len(Append(s, x)),
             NEW j \in 1 .. Len(Append(s, x)), i # j
      PROVE  Append(s, x)[i] # Append(s, x)[j]
  BY <1>1, <1>3 DEF Elements, Repeats
<1>4. Elements(s) \subseteq S
  BY <1>1 DEF Elements
<1>5. QED
  BY <1>1, <1>2, <1>3, <1>4 DEF Repeats

(* The lists RemoveEngine leaves behind. *)
LEMMA EmptyElements == Elements(<<>>) = {} /\ ~Repeats(<<>>)
BY DEF Elements, Repeats

(* Names in a list are names. *)
LEMMA ElementsIn == ASSUME NEW S, NEW s \in Seq(S) PROVE Elements(s) \subseteq S
BY DEF Elements

(* Initially only GP is registered, and it has nothing. *)
LEMMA ClosedInit == RegistryInit => ClosedInv
<1> SUFFICES ASSUME RegistryInit PROVE ClosedInv
  OBVIOUS
<1> USE RegistryAssumption DEF RegistryInit, EetGP, EetDynamicStart, EopSentinel, ExfDynamicStart, NoEngine, EopLogicalGet
<1>1. RegistryTypeOK
  <2>1. EetGP \in EngineType
    BY DEF EngineType
  <2>2. engineType \in [EngineName -> EngineType \cup {NoEngine}]
    BY <2>1
  <2>3. opId \in [EngineType -> [OpName -> OpId \cup {0}]] /\ xformId \in [XformName -> XformId \cup {0}]
    OBVIOUS
  <2>4. rgpxf \in Seq({NoXform} \cup Nat)
    OBVIOUS
  <2>5. counters \in Nat \X Nat \X Nat
    BY DEF counters
  <2>6. /\ physicalOps \in [EngineType -> Seq(OpName)] /\ logicalOps \in [EngineType -> Seq(OpName)]
        /\ transforms \in [EngineType -> Seq(XformName)]
    OBVIOUS
  <2>7. QED
    BY <2>1, <2>2, <2>3, <2>4, <2>5, <2>6 DEF RegistryTypeOK
<1>2. CountInv
  BY DEF CountInv
<1>3. EngineInv
  BY DEF EngineInv, EngineType
<1>4. OpInv /\ XformInv
  BY EmptyElements DEF OpInv, XformInv
<1>5. RefInv /\ RuleInv
  BY DEF RefInv, RuleInv, EngineType
<1>6. QED
  BY <1>1, <1>2, <1>3, <1>4, <1>5 DEF ClosedInv

(* An engine that is new has nothing yet. *)
LEMMA ClosedRegisterEngine ==
    ASSUME ClosedInv, NEW n \in EngineName, RegisterEngine(n)
    PROVE  ClosedInv'
<1> USE DEF ClosedInv
<1> DEFINE e == lastEngine + 1
<1>1. /\ lastEngine < MaxEngine /\ engineType[n] = NoEngine
      /\ lastEngine' = e /\ engineType' = [engineType EXCEPT ![n] = e] /\ engines' = engines \cup {e}
      /\ UNCHANGED <<engineRules, rules, links, ops, xforms, hooks, lastOp, lastXform>>
  BY DEF RegisterEngine
<1>2. lastEngine \in Nat /\ lastEngine >= 2 /\ MaxEngine \in Nat
  BY RegistryAssumption DEF CountInv, EetDynamicStart
<1>3. e \in EngineType /\ e \notin engines /\ e # NoEngine /\ e # EetGP
  BY <1>1, <1>2 DEF EngineType, CountInv, EetDynamicStart, EetGP, NoEngine
<1> HIDE DEF e
<1>4. RegistryTypeOK'
  <2>1. counters' \in Nat \X Nat \X Nat
    BY <1>1, <1>2 DEF counters, RegistryTypeOK, e
  <2>2. engineType' \in [EngineName -> EngineType \cup {NoEngine}] /\ engines' \subseteq EngineType
    BY <1>1, <1>3 DEF RegistryTypeOK
  <2>3. QED
    BY <1>1, <2>1, <2>2 DEF RegistryTypeOK, ops, xforms, hooks
<1>5. CountInv'
  BY <1>1, <1>2, <1>3 DEF CountInv, ops, xforms, e, RegistryTypeOK, EngineType, EetDynamicStart, EetGP
<1>6. EngineInv'
  <2>1. \A m \in EngineName : m # n => engineType'[m] = engineType[m]
    BY <1>1 DEF RegistryTypeOK
  <2>2. engineType'[n] = e
    BY <1>1 DEF RegistryTypeOK
  <2>3. \A m \in EngineName : engineType[m] # e
    BY <1>3 DEF EngineInv
  <2>4. QED
    BY <1>1, <1>3, <2>1, <2>2, <2>3 DEF EngineInv, ops, xforms
<1>7. OpInv' /\ XformInv'
  BY <1>1 DEF OpInv, XformInv, ops, xforms
<1>8. RefInv'
  BY <1>1 DEF RefInv, ops, xforms, hooks, OpsOf, LogicalOpsOf, XformsOf
<1>9. RuleInv'
  <2>1. engineRules[e] = {}
    BY <1>3 DEF EngineInv
  <2>2. QED
    BY <1>1, <2>1 DEF RuleInv
<1>10. QED
  BY <1>4, <1>5, <1>6, <1>7, <1>8, <1>9

(* A name that is not used gets a fresh operator id. *)
LEMMA FreshOp ==
    ASSUME ClosedInv, UniqueNames, NEW e \in EngineType, NEW n \in OpName,
           e \in engines, NewOpName(e, n), lastOp < MaxOp
    PROVE  /\ lastOp + 1 \in OpId /\ lastOp + 1 # 0 /\ opId[e][n] = 0
           /\ n \notin Elements(physicalOps[e]) /\ n \notin Elements(logicalOps[e])
           /\ \A f \in EngineType, m \in OpName : opId[f][m] # lastOp + 1 /\ opId[f][m] \in Int
           /\ lastOp \in Nat
<1> USE DEF ClosedInv
<1>1. lastOp \in Nat /\ MaxOp \in Nat /\ lastOp >= 1
  BY RegistryAssumption DEF CountInv, EopSentinel
<1>2. lastOp + 1 \in OpId
  BY <1>1 DEF OpId, EopSentinel
<1>3. n \notin Elements(physicalOps[e]) /\ n \notin Elements(logicalOps[e])
  BY DEF NewOpName
<1>4. opId[e][n] = 0
  BY <1>3 DEF OpInv
<1>5. \A f \in EngineType, m \in OpName : opId[f][m] # lastOp + 1 /\ opId[f][m] \in Int
  BY <1>1 DEF CountInv, RegistryTypeOK, OpId
<1>6. QED
  BY <1>1, <1>2, <1>3, <1>4, <1>5

(* Registering an operator changes one entry, and nobody refers to it yet. *)
LEMMA ClosedRegisterPhysical ==
    ASSUME ClosedInv, UniqueNames, NEW e \in EngineType, NEW n \in OpName,
           RegisterPhysicalOperator(e, n)
    PROVE  ClosedInv'
<1> USE DEF ClosedInv
<1> DEFINE id == lastOp + 1
<1>1. /\ e \in engines /\ NewOpName(e, n) /\ lastOp < MaxOp
      /\ lastOp' = id /\ costs' = costs \cup {id}
      /\ opId' = [opId EXCEPT ![e] = [opId[e] EXCEPT ![n] = id]]
      /\ physicalOps' = [physicalOps EXCEPT ![e] = Append(physicalOps[e], n)]
      /\ UNCHANGED <<names, logicalOps, projects, xforms, hooks, lastEngine, lastXform>>
  BY DEF RegisterPhysicalOperator
<1>2. /\ id \in OpId /\ id # 0 /\ opId[e][n] = 0 /\ lastOp \in Nat
      /\ n \notin Elements(physicalOps[e]) /\ n \notin Elements(logicalOps[e])
      /\ \A f \in EngineType, m \in OpName : opId[f][m] # id /\ opId[f][m] \in Int
  BY <1>1, FreshOp
<1>3. /\ \A f \in EngineType, m \in OpName :
            opId'[f][m] = IF f = e /\ m = n THEN id ELSE opId[f][m]
      /\ \A f \in EngineType : f # e => opId'[f] = opId[f]
      /\ opId' \in [EngineType -> [OpName -> OpId \cup {0}]]
  BY <1>1, <1>2 DEF RegistryTypeOK
<1>4. physicalOps[e] \in Seq(OpName)
  BY DEF RegistryTypeOK
<1>5. /\ physicalOps'[e] = Append(physicalOps[e], n)
      /\ \A f \in EngineType : f # e => physicalOps'[f] = physicalOps[f]
      /\ Append(physicalOps[e], n) \in Seq(OpName)
      /\ physicalOps' \in [EngineType -> Seq(OpName)]
      /\ Elements(physicalOps'[e]) = Elements(physicalOps[e]) \cup {n}
      /\ ~Repeats(physicalOps[e]) => ~Repeats(physicalOps'[e])
  BY <1>1, <1>2, <1>4, AppendElements DEF RegistryTypeOK
<1>6. RegistryTypeOK'
  <2>1. counters' \in Nat \X Nat \X Nat
    BY <1>1, <1>2 DEF counters, RegistryTypeOK
  <2>2. costs' \subseteq OpId
    BY <1>1, <1>2 DEF RegistryTypeOK
  <2>3. QED
    BY <1>1, <1>3, <1>5, <2>1, <2>2 DEF RegistryTypeOK, names, xforms, hooks
<1> HIDE DEF id
<1>7. CountInv'
  <2>1. id > lastOp /\ id \in Nat /\ id >= EopSentinel
    BY <1>2 DEF id, EopSentinel, OpId
  <2>2. \A f \in EngineType, m \in OpName : opId'[f][m] <= id
    BY <1>2, <1>3, <2>1 DEF CountInv
  <2>3. QED
    BY <1>1, <2>1, <2>2 DEF CountInv, names, xforms
<1>8. EngineInv'
  BY <1>1, <1>3, <1>5 DEF EngineInv, names, xforms
<1>9. OpInv'
  <2>1. \A f \in EngineType, m \in OpName :
          opId'[f][m] # 0 <=> m \in Elements(physicalOps'[f]) \cup Elements(logicalOps'[f])
    BY <1>1, <1>2, <1>3, <1>5 DEF OpInv
  <2>2. \A f \in EngineType :
          /\ Elements(physicalOps'[f]) \cap Elements(logicalOps'[f]) = {}
          /\ ~Repeats(physicalOps'[f]) /\ ~Repeats(logicalOps'[f])
    BY <1>1, <1>2, <1>5 DEF OpInv
  <2>3. \A f, g \in EngineType, m, k \in OpName :
          opId'[f][m] = opId'[g][k] /\ opId'[f][m] # 0 => f = g /\ m = k
    BY <1>2, <1>3 DEF OpInv
  <2>4. QED
    BY <2>1, <2>2, <2>3 DEF OpInv
<1>10. XformInv' /\ RuleInv'
  <2>1. XformInv'
    BY <1>1 DEF XformInv, xforms
  <2>2. RuleInv'
    BY <1>1 DEF RuleInv, names
  <2>3. QED
    BY <2>1, <2>2
<1>11. RefInv'
  <2>1. \A f \in EngineType : \A m \in Elements(physicalOps[f]) :
           m \in Elements(physicalOps'[f]) /\ opId'[f][m] = opId[f][m]
    <3> SUFFICES ASSUME NEW f \in EngineType, NEW m \in Elements(physicalOps[f])
                 PROVE  m \in Elements(physicalOps'[f]) /\ opId'[f][m] = opId[f][m]
      OBVIOUS
    <3>1. m \in OpName
      BY ElementsIn DEF RegistryTypeOK
    <3>2. QED
      BY <1>2, <1>3, <1>5, <3>1
  <2>2. \A f \in EngineType : \A m \in Elements(logicalOps[f]) :
           m \in Elements(logicalOps'[f]) /\ opId'[f][m] = opId[f][m]
    BY <1>1, <1>2, <1>3, ElementsIn DEF RegistryTypeOK
  <2>3. \A f \in EngineType : LogicalOpsOf(f) \subseteq LogicalOpsOf(f)' /\ XformsOf(f)' = XformsOf(f)
    BY <1>1, <2>2 DEF LogicalOpsOf, XformsOf, xforms
  <2>4. \A f \in EngineType : OpsOf(f) \subseteq OpsOf(f)'
    BY <1>2, <1>3 DEF OpsOf
  <2>5. engines' = engines /\ engines \subseteq EngineType
    BY <1>1 DEF names, RegistryTypeOK
  <2>6. \A x \in costs' : \E f \in engines' : \E m \in Elements(physicalOps'[f]) : x = opId'[f][m]
    BY <1>1, <1>3, <1>5, <2>1, <2>5 DEF RefInv
  <2>7. \A x \in projects' : \E f \in engines' : \E m \in Elements(logicalOps'[f]) : x = opId'[f][m]
    BY <1>1, <2>2, <2>5 DEF RefInv
  <2>8. \A h \in relevant' :
          /\ h[1] = EopLogicalGet \/ \E f \in engines' : h[1] \in LogicalOpsOf(f)'
          /\ \E f \in engines' : h[2] \in XformsOf(f)'
    BY <1>1, <2>3, <2>5 DEF RefInv, hooks
  <2>9. \A h \in factories' :
          /\ \E f \in engines' : h[1] \in XformsOf(f)'
          /\ \E f \in engines' : h[2] \in OpsOf(f)'
    BY <1>1, <2>3, <2>4, <2>5 DEF RefInv, hooks
  <2>10. QED
    BY <2>6, <2>7, <2>8, <2>9 DEF RefInv
<1>12. QED
  BY <1>6, <1>7, <1>8, <1>9, <1>10, <1>11

(* The same for logical operators, which may also be projections. *)
LEMMA ClosedRegisterLogical ==
    ASSUME ClosedInv, UniqueNames, NEW e \in EngineType, NEW n \in OpName,
           NEW b \in BOOLEAN, RegisterLogicalOperator(e, n, b)
    PROVE  ClosedInv'
<1> USE DEF ClosedInv
<1> DEFINE id == lastOp + 1
<1>1. /\ e \in engines /\ NewOpName(e, n) /\ lastOp < MaxOp
      /\ lastOp' = id /\ projects' \subseteq projects \cup {id}
      /\ opId' = [opId EXCEPT ![e] = [opId[e] EXCEPT ![n] = id]]
      /\ logicalOps' = [logicalOps EXCEPT ![e] = Append(logicalOps[e], n)]
      /\ UNCHANGED <<names, physicalOps, costs, xforms, hooks, lastEngine, lastXform>>
  BY DEF RegisterLogicalOperator
<1>2. /\ id \in OpId /\ id # 0 /\ opId[e][n] = 0 /\ lastOp \in Nat
      /\ n \notin Elements(logicalOps[e]) /\ n \notin Elements(physicalOps[e])
      /\ \A f \in EngineType, m \in OpName : opId[f][m] # id /\ opId[f][m] \in Int
  BY <1>1, FreshOp
<1>3. /\ \A f \in EngineType, m \in OpName :
            opId'[f][m] = IF f = e /\ m = n THEN id ELSE opId[f][m]
      /\ \A f \in EngineType : f # e => opId'[f] = opId[f]
      /\ opId' \in [EngineType -> [OpName -> OpId \cup {0}]]
  BY <1>1, <1>2 DEF RegistryTypeOK
<1>4. logicalOps[e] \in Seq(OpName)
  BY DEF RegistryTypeOK
<1>5. /\ logicalOps'[e] = Append(logicalOps[e], n)
      /\ \A f \in EngineType : f # e => logicalOps'[f] = logicalOps[f]
      /\ Append(logicalOps[e], n) \in Seq(OpName)
      /\ logicalOps' \in [EngineType -> Seq(OpName)]
      /\ Elements(logicalOps'[e]) = Elements(logicalOps[e]) \cup {n}
      /\ ~Repeats(logicalOps[e]) => ~Repeats(logicalOps'[e])
  BY <1>1, <1>2, <1>4, AppendElements DEF RegistryTypeOK
<1>6. RegistryTypeOK'
  <2>1. counters' \in Nat \X Nat \X Nat
    BY <1>1, <1>2 DEF counters, RegistryTypeOK
  <2>2. projects' \subseteq OpId
    BY <1>1, <1>2 DEF RegistryTypeOK
  <2>3. QED
    BY <1>1, <1>3, <1>5, <2>1, <2>2 DEF RegistryTypeOK, names, xforms, hooks
<1> HIDE DEF id
<1>7. CountInv'
  <2>1. id > lastOp /\ id \in Nat /\ id >= EopSentinel
    BY <1>2 DEF id, EopSentinel, OpId
  <2>2. \A f \in EngineType, m \in OpName : opId'[f][m] <= id
    BY <1>2, <1>3, <2>1 DEF CountInv
  <2>3. QED
    BY <1>1, <2>1, <2>2 DEF CountInv, names, xforms
<1>8. EngineInv'
  BY <1>1, <1>3, <1>5 DEF EngineInv, names, xforms
<1>9. OpInv'
  <2>1. \A f \in EngineType, m \in OpName :
          opId'[f][m] # 0 <=> m \in Elements(logicalOps'[f]) \cup Elements(physicalOps'[f])
    BY <1>1, <1>2, <1>3, <1>5 DEF OpInv
  <2>2. \A f \in EngineType :
          /\ Elements(physicalOps'[f]) \cap Elements(logicalOps'[f]) = {}
          /\ ~Repeats(logicalOps'[f]) /\ ~Repeats(physicalOps'[f])
    BY <1>1, <1>2, <1>5 DEF OpInv
  <2>3. \A f, g \in EngineType, m, k \in OpName :
          opId'[f][m] = opId'[g][k] /\ opId'[f][m] # 0 => f = g /\ m = k
    BY <1>2, <1>3 DEF OpInv
  <2>4. QED
    BY <2>1, <2>2, <2>3 DEF OpInv
<1>10. XformInv' /\ RuleInv'
  <2>1. XformInv'
    BY <1>1 DEF XformInv, xforms
  <2>2. RuleInv'
    BY <1>1 DEF RuleInv, names
  <2>3. QED
    BY <2>1, <2>2
<1>11. RefInv'
  <2>1. \A f \in EngineType : \A m \in Elements(logicalOps[f]) :
           m \in Elements(logicalOps'[f]) /\ opId'[f][m] = opId[f][m]
    <3> SUFFICES ASSUME NEW f \in EngineType, NEW m \in Elements(logicalOps[f])
                 PROVE  m \in Elements(logicalOps'[f]) /\ opId'[f][m] = opId[f][m]
      OBVIOUS
    <3>1. m \in OpName
      BY ElementsIn DEF RegistryTypeOK
    <3>2. QED
      BY <1>2, <1>3, <1>5, <3>1
  <2>2. \A f \in EngineType : \A m \in Elements(physicalOps[f]) :
           m \in Elements(physicalOps'[f]) /\ opId'[f][m] = opId[f][m]
    BY <1>1, <1>2, <1>3, ElementsIn DEF RegistryTypeOK
  <2>3. \A f \in EngineType : LogicalOpsOf(f) \subseteq LogicalOpsOf(f)' /\ XformsOf(f)' = XformsOf(f)
    BY <1>1, <2>1 DEF LogicalOpsOf, XformsOf, xforms
  <2>4. \A f \in EngineType : OpsOf(f) \subseteq OpsOf(f)'
    BY <1>2, <1>3 DEF OpsOf
  <2>5. engines' = engines /\ engines \subseteq EngineType
    BY <1>1 DEF names, RegistryTypeOK
  <2>6. \A x \in projects' : \E f \in engines' : \E m \in Elements(logicalOps'[f]) : x = opId'[f][m]
    BY <1>1, <1>3, <1>5, <2>1, <2>5 DEF RefInv
  <2>7. \A x \in costs' : \E f \in engines' : \E m \in Elements(physicalOps'[f]) : x = opId'[f][m]
    BY <1>1, <2>2, <2>5 DEF RefInv
  <2>8. \A h \in relevant' :
          /\ h[1] = EopLogicalGet \/ \E f \in engines' : h[1] \in LogicalOpsOf(f)'
          /\ \E f \in engines' : h[2] \in XformsOf(f)'
    BY <1>1, <2>3, <2>5 DEF RefInv, hooks
  <2>9. \A h \in factories' :
          /\ \E f \in engines' : h[1] \in XformsOf(f)'
          /\ \E f \in engines' : h[2] \in OpsOf(f)'
    BY <1>1, <2>3, <2>4, <2>5 DEF RefInv, hooks
  <2>10. QED
    BY <2>6, <2>7, <2>8, <2>9 DEF RefInv
<1>12. QED
  BY <1>6, <1>7, <1>8, <1>9, <1>10, <1>11

(* The built-in transformations only touch the factory's array. *)
LEMMA ClosedDefaults == ASSUME ClosedInv, UseDefaultCPUTransforms PROVE ClosedInv'
<1> USE DEF ClosedInv
<1>1. /\ UNCHANGED <<names, ops, xformId, transforms, disabled, hooks, counters>>
      /\ rgpxf' = Append([i \in 1 .. Len(rgpxf) |-> IF i <= ExfSentinel THEN i - 1 ELSE rgpxf[i]], NoXform)
  BY DEF UseDefaultCPUTransforms
<1> DEFINE filled == [i \in 1 .. Len(rgpxf) |-> IF i <= ExfSentinel THEN i - 1 ELSE rgpxf[i]]
<1>2. filled \in Seq({NoXform} \cup Nat)
  BY RegistryAssumption DEF RegistryTypeOK
<1>3. rgpxf' \in Seq({NoXform} \cup Nat)
  BY <1>1, <1>2
<1>4. RegistryTypeOK'
  BY <1>1, <1>3 DEF RegistryTypeOK, names, ops, hooks, counters
<1>5. CountInv' /\ EngineInv'
  BY <1>1 DEF CountInv, EngineInv, names, ops, counters
<1>6. OpInv' /\ XformInv'
  <2>1. OpInv'
    BY <1>1 DEF OpInv, ops
  <2>2. XformInv'
    BY <1>1 DEF XformInv
  <2>3. QED
    BY <2>1, <2>2
<1>7. RefInv'
  BY <1>1 DEF RefInv, names, ops, hooks, OpsOf, LogicalOpsOf, XformsOf
<1>8. RuleInv'
  BY <1>1 DEF RuleInv, names
<1>9. QED
  BY <1>4, <1>5, <1>6, <1>7, <1>8

(* The array keeps its type wherever Add puts the transformation. *)
LEMMA AddType ==
    ASSUME rgpxf \in Seq({NoXform} \cup Nat), NEW id \in Nat, Add(id)
    PROVE  rgpxf' \in Seq({NoXform} \cup Nat)
<1>1. CASE id >= Len(rgpxf)
  BY <1>1 DEF Add
<1>2. CASE ~(id >= Len(rgpxf))
  BY <1>2 DEF Add
<1>3. QED
  BY <1>1, <1>2

(* A new transformation gets an id that no name has and no flag disables. *)
LEMMA ClosedRegisterTransform ==
    ASSUME ClosedInv, UniqueNames, NEW e \in EngineType, NEW n \in XformName, RegisterTransform(e, n)
    PROVE  ClosedInv'
<1> USE DEF ClosedInv
<1> DEFINE id == lastXform + 1
<1>1. /\ e \in engines /\ lastXform < MaxXform
      /\ \A f \in EngineType : n \notin Elements(transforms[f])
      /\ lastXform' = id /\ Add(id)
      /\ xformId' = [xformId EXCEPT ![n] = id]
      /\ transforms' = [transforms EXCEPT ![e] = Append(transforms[e], n)]
      /\ UNCHANGED <<names, ops, disabled, hooks, lastEngine, lastOp>>
  BY DEF RegisterTransform
<1>2. /\ lastXform \in Nat /\ lastXform >= ExfSentinel
      /\ ExfSentinel \in Nat /\ ExfSentinel > 0 /\ MaxXform \in Nat
  BY RegistryAssumption DEF CountInv
<1>3. /\ id \in XformId /\ id # 0 /\ id > ExfSentinel /\ id \in Nat /\ id > lastXform
      /\ id \notin disabled
      /\ \A m \in XformName : xformId[m] # id
  BY <1>1, <1>2 DEF XformId, ExfDynamicStart, CountInv, RegistryTypeOK
<1>4. rgpxf' \in Seq({NoXform} \cup Nat)
  BY <1>1, <1>3, AddType DEF RegistryTypeOK
<1> HIDE DEF id
<1>5. /\ \A m \in XformName : xformId'[m] = IF m = n THEN id ELSE xformId[m]
      /\ xformId' \in [XformName -> XformId \cup {0}]
  BY <1>1, <1>3 DEF RegistryTypeOK
<1>6. transforms[e] \in Seq(XformName)
  BY DEF RegistryTypeOK
<1>7. /\ transforms'[e] = Append(transforms[e], n)
      /\ \A f \in EngineType : f # e => transforms'[f] = transforms[f]
      /\ transforms' \in [EngineType -> Seq(XformName)]
      /\ Elements(transforms'[e]) = Elements(transforms[e]) \cup {n}
      /\ ~Repeats(transforms[e]) => ~Repeats(transforms'[e])
  BY <1>1, <1>6, AppendElements DEF RegistryTypeOK
<1>8. \A f \in EngineType : Elements(transforms[f]) \subseteq XformName
  BY ElementsIn DEF RegistryTypeOK
<1>9. RegistryTypeOK'
  <2>1. counters' \in Nat \X Nat \X Nat
    BY <1>1, <1>3 DEF counters, RegistryTypeOK
  <2>2. QED
    BY <1>1, <1>4, <1>5, <1>7, <2>1 DEF RegistryTypeOK, names, ops, hooks
<1>10. CountInv'
  <2>1. \A m \in XformName : xformId'[m] <= id
    <3> SUFFICES ASSUME NEW m \in XformName PROVE xformId'[m] <= id
      OBVIOUS
    <3>1. xformId[m] <= lastXform /\ xformId[m] \in Int
      BY <1>2 DEF CountInv, RegistryTypeOK, XformId
    <3>2. QED
      BY <1>2, <1>3, <1>5, <3>1
  <2>2. \A x \in disabled : x > ExfSentinel /\ x <= id
    <3> SUFFICES ASSUME NEW x \in disabled PROVE x > ExfSentinel /\ x <= id
      OBVIOUS
    <3>1. x <= lastXform /\ x > ExfSentinel /\ x \in Int
      BY <1>2 DEF CountInv, RegistryTypeOK, XformId
    <3>2. QED
      BY <1>2, <1>3, <3>1
  <2>3. id \in Nat /\ id >= ExfSentinel
    BY <1>2, <1>3
  <2>4. QED
    BY <1>1, <2>1, <2>2, <2>3 DEF CountInv, names, ops
<1>11. EngineInv'
  BY <1>1, <1>7 DEF EngineInv, names, ops
<1>12. OpInv'
  BY <1>1 DEF OpInv, ops
<1>13. XformInv'
  <2>1. \A f \in EngineType : ~Repeats(transforms'[f])
    BY <1>7 DEF XformInv
  <2>2. \A f \in EngineType : \A m \in Elements(transforms'[f]) : xformId'[m] # 0
    <3> SUFFICES ASSUME NEW f \in EngineType, NEW m \in Elements(transforms'[f])
                 PROVE  xformId'[m] # 0
      OBVIOUS
    <3>1. m \in Elements(transforms[f]) \/ m = n
      BY <1>7
    <3>2. m \in XformName
      BY <1>8, <3>1
    <3>3. QED
      BY <1>3, <1>5, <3>1, <3>2 DEF XformInv
  <2>3. \A f, g \in EngineType : f # g => Elements(transforms'[f]) \cap Elements(transforms'[g]) = {}
    BY <1>1, <1>7 DEF XformInv
  <2>4. \A m, k \in XformName : xformId'[m] = xformId'[k] /\ xformId'[m] # 0 => m = k
    BY <1>3, <1>5 DEF XformInv
  <2>5. \A x \in disabled' : \A m \in XformName : xformId'[m] # x
    BY <1>1, <1>3, <1>5 DEF XformInv
  <2>6. QED
    BY <2>1, <2>2, <2>3, <2>4, <2>5 DEF XformInv
<1>14. RefInv'
  <2>1. \A f \in EngineType : XformsOf(f) \subseteq XformsOf(f)'
    <3> SUFFICES ASSUME NEW f \in EngineType, NEW m \in Elements(transforms[f]), xformId[m] # 0
                 PROVE  m \in Elements(transforms'[f]) /\ xformId'[m] = xformId[m]
      BY DEF XformsOf
    <3>1. m \in XformName /\ m # n
      BY <1>1, <1>8
    <3>2. QED
      BY <1>5, <1>7, <3>1
  <2>2. engines' = engines /\ engines \subseteq EngineType
    BY <1>1 DEF names, RegistryTypeOK
  <2>3. \A f \in EngineType : LogicalOpsOf(f)' = LogicalOpsOf(f) /\ OpsOf(f)' = OpsOf(f)
    BY <1>1 DEF LogicalOpsOf, OpsOf, ops
  <2>4. /\ \A x \in costs' : \E f \in engines' : \E m \in Elements(physicalOps'[f]) : x = opId'[f][m]
        /\ \A x \in projects' : \E f \in engines' : \E m \in Elements(logicalOps'[f]) : x = opId'[f][m]
    BY <1>1, <2>2 DEF RefInv, ops
  <2>5. \A h \in relevant' :
          /\ h[1] = EopLogicalGet \/ \E f \in engines' : h[1] \in LogicalOpsOf(f)'
          /\ \E f \in engines' : h[2] \in XformsOf(f)'
    BY <1>1, <2>1, <2>2, <2>3 DEF RefInv, hooks
  <2>6. \A h \in factories' :
          /\ \E f \in engines' : h[1] \in XformsOf(f)'
          /\ \E f \in engines' : h[2] \in OpsOf(f)'
    BY <1>1, <2>1, <2>2, <2>3 DEF RefInv, hooks
  <2>7. QED
    BY <2>4, <2>5, <2>6 DEF RefInv
<1>15. RuleInv'
  BY <1>1 DEF RuleInv, names
<1>16. QED
  BY <1>9, <1>10, <1>11, <1>12, <1>13, <1>14, <1>15

(* Hooks are made between what is registered. *)
LEMMA ClosedHooks ==
    ASSUME ClosedInv,
           \/ \E op \in {EopLogicalGet} \cup OpId, x \in XformId : HookTransformToOp(op, x)
           \/ \E x \in XformId, op \in OpId : HookOpToTransform(x, op)
    PROVE  ClosedInv'
<1> USE DEF ClosedInv
<1>1. UNCHANGED <<names, ops, xforms, counters>>
  BY DEF HookTransformToOp, HookOpToTransform
<1>2. /\ engines' = engines
      /\ \A f : LogicalOpsOf(f)' = LogicalOpsOf(f) /\ OpsOf(f)' = OpsOf(f) /\ XformsOf(f)' = XformsOf(f)
  BY <1>1 DEF LogicalOpsOf, OpsOf, XformsOf, ops, xforms, names
<1>3. /\ relevant' \subseteq ({EopLogicalGet} \cup OpId) \X XformId
      /\ \A h \in relevant' :
          /\ h[1] = EopLogicalGet \/ \E f \in engines : h[1] \in LogicalOpsOf(f)
          /\ \E f \in engines : h[2] \in XformsOf(f)
  <2>1. CASE relevant' = relevant
    BY <2>1 DEF RefInv, RegistryTypeOK
  <2>2. ASSUME NEW op \in {EopLogicalGet} \cup OpId, NEW x \in XformId, HookTransformToOp(op, x)
        PROVE  /\ relevant' = relevant \cup {<<op, x>>}
               /\ op = EopLogicalGet \/ \E f \in engines : op \in LogicalOpsOf(f)
               /\ \E f \in engines : x \in XformsOf(f)
    BY <2>2 DEF HookTransformToOp
  <2>3. \A op, x : <<op, x>>[1] = op /\ <<op, x>>[2] = x
    OBVIOUS
  <2>4. CASE relevant' # relevant
    <3>1. PICK op \in {EopLogicalGet} \cup OpId, x \in XformId : HookTransformToOp(op, x)
      BY <2>4 DEF HookOpToTransform
    <3>2. /\ relevant' = relevant \cup {<<op, x>>}
          /\ op = EopLogicalGet \/ \E f \in engines : op \in LogicalOpsOf(f)
          /\ \E f \in engines : x \in XformsOf(f)
      BY <2>2, <3>1
    <3>3. QED
      BY <2>3, <3>2 DEF RefInv, RegistryTypeOK
  <2>5. QED
    BY <2>1, <2>4
<1>4. /\ factories' \subseteq XformId \X OpId
      /\ \A h \in factories' :
          /\ \E f \in engines : h[1] \in XformsOf(f)
          /\ \E f \in engines : h[2] \in OpsOf(f)
  BY DEF HookTransformToOp, HookOpToTransform, RefInv, RegistryTypeOK
<1>5. RegistryTypeOK'
  BY <1>1, <1>3, <1>4 DEF RegistryTypeOK, names, ops, xforms, counters
<1>6. CountInv' /\ EngineInv'
  BY <1>1 DEF CountInv, EngineInv, names, ops, xforms, counters
<1>7. OpInv' /\ XformInv'
  BY <1>1 DEF OpInv, XformInv, ops, xforms
<1>8. RefInv'
  <2>1. /\ \A x \in costs' : \E f \in engines' : \E m \in Elements(physicalOps'[f]) : x = opId'[f][m]
        /\ \A x \in projects' : \E f \in engines' : \E m \in Elements(logicalOps'[f]) : x = opId'[f][m]
    BY <1>1, <1>2 DEF RefInv, ops
  <2>2. QED
    BY <1>2, <1>3, <1>4, <2>1 DEF RefInv
<1>9. RuleInv'
  BY <1>1 DEF RuleInv, names
<1>10. QED
  BY <1>5, <1>6, <1>7, <1>8, <1>9

(* So are transitions, and a rule belongs to one engine. *)
LEMMA ClosedLinksAndRules ==
    ASSUME ClosedInv, UniqueNames,
           \/ \E from \in EngineType : \E to \in EngineType \ {from} : RegisterEngineTransform(from, to)
           \/ \E e \in EngineType, r \in RuleName : RegisterPreprocessingRule(e, r)
    PROVE  ClosedInv'
<1> USE DEF ClosedInv
<1>1. UNCHANGED <<engineType, engines, ops, xforms, hooks, counters>>
  BY DEF RegisterEngineTransform, RegisterPreprocessingRule
<1>2. /\ links' \subseteq engines \X engines /\ links' \subseteq EngineType \X EngineType
      /\ rules' \subseteq RuleName /\ engineRules' \in [EngineType -> SUBSET RuleName]
      /\ rules' = UNION {engineRules'[e] : e \in engines}
      /\ \A e, f \in EngineType : e # f => engineRules'[e] \cap engineRules'[f] = {}
      /\ \A e \in EngineType : e \notin engines => engineRules'[e] = {}
  <2>1. CASE \E from \in EngineType : \E to \in EngineType \ {from} : RegisterEngineTransform(from, to)
    <3>1. /\ UNCHANGED <<rules, engineRules>>
          /\ \E from, to \in engines : links' = links \cup {<<from, to>>}
      BY <2>1 DEF RegisterEngineTransform
    <3>2. links' \subseteq engines \X engines /\ engines \subseteq EngineType
      <4>1. PICK from \in engines, to \in engines : links' = links \cup {<<from, to>>}
        BY <3>1
      <4>2. links \subseteq engines \X engines /\ engines \subseteq EngineType
        BY DEF RuleInv, RegistryTypeOK
      <4>3. QED
        BY <4>1, <4>2
    <3>3. links' \subseteq EngineType \X EngineType
      BY <3>2
    <3>4. /\ rules = UNION {engineRules[e] : e \in engines}
          /\ rules \subseteq RuleName /\ engineRules \in [EngineType -> SUBSET RuleName]
          /\ \A e, f \in EngineType : e # f => engineRules[e] \cap engineRules[f] = {}
          /\ \A e \in EngineType : e \notin engines => engineRules[e] = {}
      BY DEF RuleInv, EngineInv, RegistryTypeOK
    <3>5. rules' = rules /\ engineRules' = engineRules
      BY <3>1
    <3>6. QED
      BY <3>2, <3>3, <3>4, <3>5, Zenon
  <2>2. ASSUME NEW e \in EngineType, NEW r \in RuleName, RegisterPreprocessingRule(e, r)
        PROVE  /\ links' \subseteq engines \X engines /\ links' \subseteq EngineType \X EngineType
               /\ rules' \subseteq RuleName /\ engineRules' \in [EngineType -> SUBSET RuleName]
               /\ rules' = UNION {engineRules'[f] : f \in engines}
               /\ \A f, g \in EngineType : f # g => engineRules'[f] \cap engineRules'[g] = {}
               /\ \A f \in EngineType : f \notin engines => engineRules'[f] = {}
    <3>1. /\ e \in engines /\ \A f \in EngineType : r \notin engineRules[f]
          /\ rules' = rules \cup {r} /\ links' = links
          /\ engineRules' = [engineRules EXCEPT ![e] = engineRules[e] \cup {r}]
      BY <2>2 DEF RegisterPreprocessingRule
    <3>2. /\ engineRules' \in [EngineType -> SUBSET RuleName]
          /\ engineRules'[e] = engineRules[e] \cup {r}
          /\ \A f \in EngineType : f # e => engineRules'[f] = engineRules[f]
      BY <3>1 DEF RegistryTypeOK
    <3>3. rules' = UNION {engineRules'[f] : f \in engines}
      BY <3>1, <3>2 DEF RuleInv, RegistryTypeOK
    <3>4. \A f, g \in EngineType : f # g => engineRules'[f] \cap engineRules'[g] = {}
      BY <3>1, <3>2 DEF RuleInv
    <3>5. QED
      BY <3>1, <3>2, <3>3, <3>4 DEF RuleInv, EngineInv, RegistryTypeOK
  <2>3. QED
    BY <2>1, <2>2
<1>3. RegistryTypeOK'
  BY <1>1, <1>2 DEF RegistryTypeOK, ops, xforms, hooks, counters
<1>4. CountInv' /\ EngineInv'
  BY <1>1, <1>2 DEF CountInv, EngineInv, ops, xforms, counters
<1>5. OpInv' /\ XformInv'
  BY <1>1 DEF OpInv, XformInv, ops, xforms
<1>6. RefInv'
  BY <1>1 DEF RefInv, ops, xforms, hooks, OpsOf, LogicalOpsOf, XformsOf
<1>7. RuleInv'
  BY <1>1, <1>2 DEF RuleInv
<1>8. QED
  BY <1>3, <1>4, <1>5, <1>6, <1>7

(* RemoveEngine of a registered engine finds exactly the ids of the engine:
   with names used once, no lookup yields the id 0 of something else. *)
LEMMA RemovedIds ==
    ASSUME ClosedInv, KnownEngines, NEW n \in EngineName, RemoveEngine(n), NEW e, e = TypeOfName(n)
    PROVE  /\ e \in engines /\ e \in EngineType /\ engineType[n] = e /\ e # NoEngine
           /\ engines' = engines \ {e}
           /\ links' = {l \in links : l[1] # e /\ l[2] # e}
           /\ RemoveOps(e) /\ RemoveTransforms(e) /\ RemoveHooks(e)
           /\ rules' = rules \ engineRules[e]
           /\ engineRules' = [engineRules EXCEPT ![e] = {}]
           /\ engineType' = [engineType EXCEPT ![n] = NoEngine]
           /\ UNCHANGED counters
           /\ PhysicalIds(e) = {opId[e][m] : m \in Elements(physicalOps[e])}
           /\ LogicalIds(e) = LogicalOpsOf(e)
           /\ TransformIds(e) = XformsOf(e)
           /\ PhysicalIds(e) \cup LogicalIds(e) = OpsOf(e)
           /\ 0 \notin LogicalIds(e)
<1> USE DEF ClosedInv
<1>1. engineType[n] # NoEngine
  BY DEF RemoveEngine
<1>2. engineType[n] = e /\ e \in engines /\ e \in EngineType /\ e # NoEngine
  BY <1>1 DEF TypeOfName, EngineInv, RegistryTypeOK
<1>3. /\ engines' = engines \ {e}
      /\ links' = {l \in links : l[1] # e /\ l[2] # e}
      /\ RemoveOps(e) /\ RemoveTransforms(e) /\ RemoveHooks(e)
      /\ rules' = rules \ engineRules[e]
      /\ engineRules' = [engineRules EXCEPT ![e] = {}]
      /\ engineType' = [engineType EXCEPT ![n] = NoEngine]
      /\ UNCHANGED counters
  BY DEF RemoveEngine
<1>4. /\ ~Repeats(physicalOps[e]) /\ ~Repeats(logicalOps[e]) /\ ~Repeats(transforms[e])
      /\ Elements(physicalOps[e]) \cap Elements(logicalOps[e]) = {}
      /\ \A m \in Elements(transforms[e]) : xformId[m] # 0
      /\ \A m \in OpName : opId[e][m] # 0 <=> m \in Elements(physicalOps[e]) \cup Elements(logicalOps[e])
  BY <1>2 DEF OpInv, XformInv
<1>5. Elements(physicalOps[e]) \subseteq OpName /\ Elements(logicalOps[e]) \subseteq OpName
  BY <1>2, ElementsIn DEF RegistryTypeOK
<1>6. PhysicalIds(e) = {opId[e][m] : m \in Elements(physicalOps[e])}
  BY <1>4 DEF PhysicalIds, SecondLookup
<1>7. LogicalIds(e) = LogicalOpsOf(e)
  BY <1>4 DEF LogicalIds, SecondLookup, LogicalOpsOf
<1>8. TransformIds(e) = XformsOf(e)
  BY <1>4 DEF TransformIds, SecondLookup, XformsOf
<1>9. PhysicalIds(e) \cup LogicalIds(e) = OpsOf(e)
  BY <1>4, <1>5, <1>6, <1>7 DEF OpsOf, LogicalOpsOf
<1>10. 0 \notin LogicalIds(e)
  BY <1>9 DEF OpsOf
<1>11. QED
  BY <1>2, <1>3, <1>6, <1>7, <1>8, <1>9, <1>10

(* What RemoveEngine leaves of the other engines: everything. *)
LEMMA RemoveLeaves ==
    ASSUME ClosedInv, NEW e \in EngineType, RemoveOps(e), RemoveTransforms(e)
    PROVE  /\ \A f \in EngineType : f # e =>
                /\ opId'[f] = opId[f]
                /\ physicalOps'[f] = physicalOps[f] /\ logicalOps'[f] = logicalOps[f]
                /\ transforms'[f] = transforms[f]
                /\ \A m \in Elements(transforms[f]) : xformId'[m] = xformId[m]
                /\ OpsOf(f)' = OpsOf(f) /\ LogicalOpsOf(f)' = LogicalOpsOf(f)
                /\ XformsOf(f)' = XformsOf(f)
           /\ \A m \in OpName : opId'[e][m] = 0
           /\ physicalOps'[e] = <<>> /\ logicalOps'[e] = <<>> /\ transforms'[e] = <<>>
           /\ \A m \in XformName :
                xformId'[m] = IF m \in Elements(transforms[e]) THEN 0 ELSE xformId[m]
           /\ opId' \in [EngineType -> [OpName -> OpId \cup {0}]]
           /\ physicalOps' \in [EngineType -> Seq(OpName)]
           /\ logicalOps' \in [EngineType -> Seq(OpName)]
           /\ transforms' \in [EngineType -> Seq(XformName)]
           /\ xformId' \in [XformName -> XformId \cup {0}]
<1> USE DEF ClosedInv
<1>1. /\ opId' = [opId EXCEPT ![e] = [m \in OpName |->
                   IF m \in Elements(physicalOps[e]) \cup Elements(logicalOps[e]) THEN 0
                   ELSE opId[e][m]]]
      /\ physicalOps' = [physicalOps EXCEPT ![e] = <<>>]
      /\ logicalOps' = [logicalOps EXCEPT ![e] = <<>>]
      /\ xformId' = [m \in XformName |-> IF m \in Elements(transforms[e]) THEN 0 ELSE xformId[m]]
      /\ transforms' = [transforms EXCEPT ![e] = <<>>]
  BY DEF RemoveOps, RemoveTransforms
<1>2. /\ opId \in [EngineType -> [OpName -> OpId \cup {0}]]
      /\ physicalOps \in [EngineType -> Seq(OpName)] /\ logicalOps \in [EngineType -> Seq(OpName)]
      /\ transforms \in [EngineType -> Seq(XformName)] /\ xformId \in [XformName -> XformId \cup {0}]
  BY DEF RegistryTypeOK
<1>3. /\ \A f \in EngineType : f # e =>
           /\ opId'[f] = opId[f]
           /\ physicalOps'[f] = physicalOps[f] /\ logicalOps'[f] = logicalOps[f]
           /\ transforms'[f] = transforms[f]
      /\ physicalOps'[e] = <<>> /\ logicalOps'[e] = <<>> /\ transforms'[e] = <<>>
  BY <1>1, <1>2
<1>4. \A m \in OpName : opId'[e][m] = 0
  BY <1>1, <1>2 DEF OpInv
<1>5. opId' \in [EngineType -> [OpName -> OpId \cup {0}]]
  BY <1>1, <1>2
<1>6. <<>> \in Seq(OpName) /\ <<>> \in Seq(XformName)
  OBVIOUS
<1>7. /\ physicalOps' \in [EngineType -> Seq(OpName)] /\ logicalOps' \in [EngineType -> Seq(OpName)]
      /\ transforms' \in [EngineType -> Seq(XformName)]
  BY <1>1, <1>2, <1>6
<1>8. /\ xformId' \in [XformName -> XformId \cup {0}]
      /\ \A m \in XformName : xformId'[m] = IF m \in Elements(transforms[e]) THEN 0 ELSE xformId[m]
  BY <1>1, <1>2
<1>9. ASSUME NEW f \in EngineType, f # e
      PROVE  /\ \A m \in Elements(transforms[f]) : xformId'[m] = xformId[m]
             /\ OpsOf(f)' = OpsOf(f) /\ LogicalOpsOf(f)' = LogicalOpsOf(f)
             /\ XformsOf(f)' = XformsOf(f)
  <2>1. Elements(transforms[f]) \subseteq XformName /\ Elements(transforms[f]) \cap Elements(transforms[e]) = {}
    BY <1>2, <1>9, ElementsIn DEF XformInv
  <2>2. \A m \in Elements(transforms[f]) : xformId'[m] = xformId[m]
    BY <1>8, <2>1
  <2>3. OpsOf(f)' = OpsOf(f) /\ LogicalOpsOf(f)' = LogicalOpsOf(f)
    BY <1>3, <1>9 DEF OpsOf, LogicalOpsOf
  <2>4. XformsOf(f)' = XformsOf(f)
    BY <1>3, <1>9, <2>2 DEF XformsOf
  <2>5. QED
    BY <2>2, <2>3, <2>4
<1>10. QED
  BY <1>3, <1>4, <1>5, <1>7, <1>8, <1>9

(* RemoveEngine takes away every reference to what it removes. *)
LEMMA ClosedRemove ==
    ASSUME ClosedInv, KnownEngines, NEW n \in EngineName, RemoveEngine(n)
    PROVE  ClosedInv'
<1> USE DEF ClosedInv
<1> DEFINE e == TypeOfName(n)
<1>1. /\ e \in engines /\ e \in EngineType /\ engineType[n] = e /\ e # NoEngine
      /\ engines' = engines \ {e}
      /\ links' = {l \in links : l[1] # e /\ l[2] # e}
      /\ RemoveOps(e) /\ RemoveTransforms(e) /\ RemoveHooks(e)
      /\ rules' = rules \ engineRules[e]
      /\ engineRules' = [engineRules EXCEPT ![e] = {}]
      /\ engineType' = [engineType EXCEPT ![n] = NoEngine]
      /\ UNCHANGED counters
  BY RemovedIds
<1>2. /\ PhysicalIds(e) = {opId[e][m] : m \in Elements(physicalOps[e])}
      /\ LogicalIds(e) = LogicalOpsOf(e)
      /\ TransformIds(e) = XformsOf(e)
      /\ PhysicalIds(e) \cup LogicalIds(e) = OpsOf(e)
  BY RemovedIds
<1> HIDE DEF e
<1>3. /\ \A f \in EngineType : f # e =>
           /\ opId'[f] = opId[f]
           /\ physicalOps'[f] = physicalOps[f] /\ logicalOps'[f] = logicalOps[f]
           /\ transforms'[f] = transforms[f]
           /\ \A m \in Elements(transforms[f]) : xformId'[m] = xformId[m]
           /\ OpsOf(f)' = OpsOf(f) /\ LogicalOpsOf(f)' = LogicalOpsOf(f)
           /\ XformsOf(f)' = XformsOf(f)
      /\ \A m \in OpName : opId'[e][m] = 0
      /\ physicalOps'[e] = <<>> /\ logicalOps'[e] = <<>> /\ transforms'[e] = <<>>
      /\ \A m \in XformName : xformId'[m] = IF m \in Elements(transforms[e]) THEN 0 ELSE xformId[m]
  BY <1>1, RemoveLeaves
<1>4. /\ opId' \in [EngineType -> [OpName -> OpId \cup {0}]]
      /\ physicalOps' \in [EngineType -> Seq(OpName)]
      /\ logicalOps' \in [EngineType -> Seq(OpName)]
      /\ transforms' \in [EngineType -> Seq(XformName)]
      /\ xformId' \in [XformName -> XformId \cup {0}]
  BY <1>1, RemoveLeaves
<1>5. /\ costs' = costs \ PhysicalIds(e) /\ projects' = projects \ LogicalIds(e)
      /\ disabled' = disabled \cup XformsOf(e) /\ rgpxf' = rgpxf
      /\ relevant' = {h \in relevant : h[1] \notin LogicalIds(e) /\ h[2] \notin TransformIds(e)}
      /\ factories' = {h \in factories : /\ h[1] \notin TransformIds(e)
                                         /\ h[2] \notin PhysicalIds(e) \cup LogicalIds(e)}
  BY <1>1, <1>2 DEF RemoveOps, RemoveTransforms, RemoveHooks
<1>6. XformsOf(e) \subseteq XformId /\ Elements(transforms[e]) \subseteq XformName
  BY <1>1, ElementsIn DEF XformsOf, RegistryTypeOK
<1>7. RegistryTypeOK'
  <2>1. engineType' \in [EngineName -> EngineType \cup {NoEngine}] /\ engines' \subseteq EngineType
    BY <1>1 DEF RegistryTypeOK
  <2>2. costs' \subseteq OpId /\ projects' \subseteq OpId /\ disabled' \subseteq {0} \cup XformId
    BY <1>5, <1>6 DEF RegistryTypeOK
  <2>3. relevant' \subseteq relevant /\ factories' \subseteq factories /\ links' \subseteq links
    BY <1>1, <1>5
  <2>4. rules' \subseteq RuleName /\ engineRules' \in [EngineType -> SUBSET RuleName]
    BY <1>1 DEF RegistryTypeOK
  <2>5. /\ relevant' \subseteq ({EopLogicalGet} \cup OpId) \X XformId
        /\ factories' \subseteq XformId \X OpId /\ links' \subseteq EngineType \X EngineType
    BY <2>3 DEF RegistryTypeOK
  <2>6. counters' \in Nat \X Nat \X Nat /\ rgpxf' \in Seq({NoXform} \cup Nat)
    BY <1>1, <1>5 DEF RegistryTypeOK
  <2>7. QED
    BY <1>4, <2>1, <2>2, <2>4, <2>5, <2>6 DEF RegistryTypeOK
<1>8. CountInv'
  <2>1. \A f \in EngineType, m \in OpName : opId'[f][m] <= lastOp
    BY <1>3, <1>1 DEF CountInv
  <2>2. \A m \in XformName : xformId'[m] <= lastXform
    BY <1>3, <1>1 DEF CountInv
  <2>3. \A x \in disabled' : x > ExfSentinel /\ x <= lastXform
    <3>1. \A x \in XformsOf(e) : x > ExfSentinel /\ x <= lastXform
      BY <1>6, RegistryAssumption DEF XformsOf, XformId, ExfDynamicStart, CountInv
    <3>2. QED
      BY <1>5, <3>1 DEF CountInv
  <2>4. QED
    BY <1>1, <2>1, <2>2, <2>3 DEF CountInv, counters
<1>9. EngineInv'
  <2>1. \A m \in EngineName : engineType'[m] = IF m = n THEN NoEngine ELSE engineType[m]
    BY <1>1 DEF RegistryTypeOK
  <2>2. \A m \in EngineName : m # n => engineType[m] # e
    BY <1>1 DEF EngineInv
  <2>3. /\ engineRules'[e] = {}
        /\ \A f \in EngineType : f # e => engineRules'[f] = engineRules[f]
    BY <1>1 DEF RegistryTypeOK
  <2>4. \A m \in EngineName : engineType'[m] # NoEngine => engineType'[m] \in engines'
    BY <1>1, <2>1, <2>2 DEF EngineInv
  <2>5. \A k, m \in EngineName : engineType'[m] = engineType'[k] /\ m # k => engineType'[m] = NoEngine
    BY <2>1 DEF EngineInv
  <2>6. QED
    BY <1>1, <1>3, <2>3, <2>4, <2>5 DEF EngineInv
<1>10. OpInv'
  <2>1. \A f \in EngineType, m \in OpName :
          opId'[f][m] # 0 <=> m \in Elements(physicalOps'[f]) \cup Elements(logicalOps'[f])
    BY <1>3, EmptyElements DEF OpInv
  <2>2. \A f \in EngineType :
          /\ Elements(physicalOps'[f]) \cap Elements(logicalOps'[f]) = {}
          /\ ~Repeats(physicalOps'[f]) /\ ~Repeats(logicalOps'[f])
    BY <1>3, EmptyElements DEF OpInv
  <2>3. \A f, g \in EngineType, m, k \in OpName :
          opId'[f][m] = opId'[g][k] /\ opId'[f][m] # 0 => f = g /\ m = k
    BY <1>3 DEF OpInv
  <2>4. QED
    BY <2>1, <2>2, <2>3 DEF OpInv
<1>11. XformInv'
  <2>1. /\ \A f \in EngineType : ~Repeats(transforms'[f])
        /\ \A f, g \in EngineType : f # g => Elements(transforms'[f]) \cap Elements(transforms'[g]) = {}
        /\ \A f \in EngineType : \A m \in Elements(transforms'[f]) : xformId'[m] # 0
    BY <1>3, EmptyElements DEF XformInv
  <2>2. \A k, m \in XformName : xformId'[k] = xformId'[m] /\ xformId'[k] # 0 => k = m
    BY <1>3 DEF XformInv
  <2>3. ASSUME NEW x \in disabled', NEW m \in XformName  PROVE xformId'[m] # x
    <3>1. CASE m \in Elements(transforms[e])
      <4>1. x > ExfSentinel
        BY <1>8 DEF CountInv
      <4>2. QED
        BY <1>3, <3>1, <4>1, RegistryAssumption
    <3>2. CASE m \notin Elements(transforms[e]) /\ x \in disabled
      BY <1>3, <3>2 DEF XformInv
    <3>3. CASE m \notin Elements(transforms[e]) /\ x \in XformsOf(e)
      <4>1. PICK k \in Elements(transforms[e]) : x = xformId[k] /\ x # 0
        BY <3>3 DEF XformsOf
      <4>2. QED
        BY <1>3, <1>6, <3>3, <4>1 DEF XformInv
    <3>4. QED
      BY <1>5, <3>1, <3>2, <3>3
  <2>4. QED
    BY <2>1, <2>2, <2>3 DEF XformInv
<1>12. RefInv'
  <2>1. engines' \subseteq EngineType /\ \A f \in engines : f # e => f \in engines' /\ f \in EngineType
    BY <1>1 DEF RegistryTypeOK
  <2>2. ASSUME NEW x \in costs'
        PROVE  \E f \in engines' : \E m \in Elements(physicalOps'[f]) : x = opId'[f][m]
    <3>1. PICK f \in engines : \E m \in Elements(physicalOps[f]) : x = opId[f][m]
      BY <1>5, <2>2 DEF RefInv
    <3>2. f # e
      BY <1>2, <1>5, <2>2, <3>1
    <3>3. QED
      BY <1>3, <2>1, <3>1, <3>2
  <2>3. ASSUME NEW x \in projects'
        PROVE  \E f \in engines' : \E m \in Elements(logicalOps'[f]) : x = opId'[f][m]
    <3>1. PICK f \in engines : \E m \in Elements(logicalOps[f]) : x = opId[f][m]
      BY <1>5, <2>3 DEF RefInv
    <3>2. f # e
      BY <1>2, <1>5, <2>3, <3>1 DEF LogicalOpsOf
    <3>3. QED
      BY <1>3, <2>1, <3>1, <3>2
  <2>4. ASSUME NEW h \in relevant'
        PROVE  /\ h[1] = EopLogicalGet \/ \E f \in engines' : h[1] \in LogicalOpsOf(f)'
               /\ \E f \in engines' : h[2] \in XformsOf(f)'
    <3>1. /\ h \in relevant /\ h[1] \notin LogicalOpsOf(e) /\ h[2] \notin XformsOf(e)
      BY <1>2, <1>5
    <3>2. /\ h[1] = EopLogicalGet \/ \E f \in engines : h[1] \in LogicalOpsOf(f)
          /\ \E f \in engines : h[2] \in XformsOf(f)
      BY <3>1 DEF RefInv
    <3>3. QED
      BY <1>3, <2>1, <3>1, <3>2
  <2>5. ASSUME NEW h \in factories'
        PROVE  /\ \E f \in engines' : h[1] \in XformsOf(f)'
               /\ \E f \in engines' : h[2] \in OpsOf(f)'
    <3>1. /\ h \in factories /\ h[1] \notin XformsOf(e) /\ h[2] \notin OpsOf(e)
      BY <1>2, <1>5
    <3>2. /\ \E f \in engines : h[1] \in XformsOf(f)
          /\ \E f \in engines : h[2] \in OpsOf(f)
      BY <3>1 DEF RefInv
    <3>3. QED
      BY <1>3, <2>1, <3>1, <3>2
  <2>6. QED
    BY <2>2, <2>3, <2>4, <2>5 DEF RefInv
<1>13. RuleInv'
  <2>1. /\ engineRules'[e] = {}
        /\ \A f \in EngineType : f # e => engineRules'[f] = engineRules[f]
        /\ engines \subseteq EngineType
    BY <1>1 DEF RegistryTypeOK
  <2>2. links' \subseteq engines' \X engines'
    BY <1>1 DEF RuleInv
  <2>3. rules' = UNION {engineRules'[f] : f \in engines'}
    BY <1>1, <2>1 DEF RuleInv
  <2>4. \A f, g \in EngineType : f # g => engineRules'[f] \cap engineRules'[g] = {}
    BY <2>1 DEF RuleInv
  <2>5. QED
    BY <2>2, <2>3, <2>4 DEF RuleInv
<1>14. QED
  BY <1>7, <1>8, <1>9, <1>10, <1>11, <1>12, <1>13

(* Every call of the registry keeps the invariant. *)
LEMMA ClosedStep ==
    ASSUME UniqueNames, KnownEngines, ClosedInv, [RegistryNext]_vars
    PROVE  ClosedInv'
<1>1. CASE UNCHANGED vars
  <2> USE <1>1 DEF vars, names, ops, xforms, hooks, counters, ClosedInv
  <2>1. RegistryTypeOK' /\ CountInv'
    BY DEF RegistryTypeOK, CountInv
  <2>2. EngineInv' /\ OpInv'
    BY DEF EngineInv, OpInv
  <2>3. XformInv' /\ RuleInv'
    BY DEF XformInv, RuleInv
  <2>4. RefInv'
    BY DEF RefInv, OpsOf, LogicalOpsOf, XformsOf
  <2>5. QED
    BY <2>1, <2>2, <2>3, <2>4
<1>2. QED
  BY <1>1, ClosedRegisterEngine, ClosedRegisterPhysical, ClosedRegisterLogical, ClosedDefaults,
     ClosedRegisterTransform, ClosedHooks, ClosedLinksAndRules, ClosedRemove DEF RegistryNext

(* Owned by a registered engine means live. *)
LEMMA ClosedIsRegistryInv == ClosedInv => RegistryInv
<1> SUFFICES ASSUME ClosedInv PROVE RegistryClosed /\ LiveEnabled
  BY DEF ClosedInv, RegistryInv
<1> USE DEF ClosedInv
<1>1. \A f \in engines : f \in EngineType
  BY DEF RegistryTypeOK
<1>2. \A f \in engines : /\ Elements(physicalOps[f]) \subseteq OpName
                         /\ Elements(logicalOps[f]) \subseteq OpName
                         /\ Elements(transforms[f]) \subseteq XformName
  BY <1>1, ElementsIn DEF RegistryTypeOK
<1>3. /\ 0 \notin OpId
      /\ \A f \in engines : OpsOf(f) \subseteq LiveOps /\ XformsOf(f) \subseteq LiveXforms
  BY DEF LiveOps, LiveXforms, OpId, EopSentinel
<1>4. costs \subseteq LiveOps /\ projects \subseteq LiveOps
  <2>1. ASSUME NEW x \in costs \cup projects  PROVE x \in LiveOps
    <3>1. PICK f \in engines, m \in OpName : x = opId[f][m]
      BY <1>2 DEF RefInv
    <3>2. x # 0
      BY <1>3 DEF RegistryTypeOK
    <3>3. QED
      BY <1>3, <3>1, <3>2 DEF OpsOf
  <2>2. QED
    BY <2>1
<1>5. relevant \subseteq ({EopLogicalGet} \cup LiveOps) \X LiveXforms
  <2>1. ASSUME NEW h \in relevant  PROVE h[1] \in {EopLogicalGet} \cup LiveOps /\ h[2] \in LiveXforms
    <3>1. h[2] \in LiveXforms
      BY <1>3 DEF RefInv
    <3>2. ASSUME NEW f \in engines, h[1] \in LogicalOpsOf(f), h[1] # EopLogicalGet  PROVE h[1] \in LiveOps
      BY <1>2, <1>3, <3>2 DEF LogicalOpsOf, OpsOf, EopLogicalGet
    <3>3. QED
      BY <3>1, <3>2 DEF RefInv
  <2>2. QED
    BY <2>1 DEF RegistryTypeOK
<1>6. factories \subseteq LiveXforms \X LiveOps
  <2>1. ASSUME NEW h \in factories  PROVE h[1] \in LiveXforms /\ h[2] \in LiveOps
    BY <1>3 DEF RefInv
  <2>2. QED
    BY <2>1 DEF RegistryTypeOK
<1>7. LiveEnabled
  <2>1. ASSUME NEW x \in disabled, x \in LiveXforms  PROVE FALSE
    <3>1. PICK f \in engines : x \in XformsOf(f)
      BY <2>1 DEF LiveXforms
    <3>2. PICK m \in XformName : x = xformId[m]
      BY <1>2, <3>1 DEF XformsOf
    <3>3. QED
      BY <3>2 DEF XformInv
  <2>2. ASSUME NEW x \in disabled  PROVE x \notin 0 .. ExfSentinel - 1
    BY RegistryAssumption DEF CountInv
  <2>3. QED
    BY <2>1, <2>2 DEF LiveEnabled
<1>8. QED
  BY <1>4, <1>5, <1>6, <1>7 DEF RegistryClosed, RuleInv

(* Whatever engines register and remove, in any order, the registry, the cost
   model and the transformation factory refer to nothing that was removed, and
   no transformation in use is disabled, provided that names in use are not
   registered again and only registered engines are removed. *)
THEOREM RegistryStaysClosed ==
    ASSUME UniqueNames, KnownEngines
    PROVE  RegistrySpec => []RegistryInv
<1>1. ClosedInv /\ [RegistryNext]_vars => ClosedInv'
  BY ClosedStep
<1>2. QED
  BY <1>1, ClosedInit, ClosedIsRegistryInv, PTL DEF RegistrySpec

(* what RemovalLocal says of one step *)
LocalStep ==
    LET stay == {f \in engines : StillNamed(f)}
        keptOps == UNION {OpsOf(f) : f \in stay}
        keptXforms == UNION {XformsOf(f) : f \in stay}
    IN /\ stay \subseteq engines'
       /\ \A f \in stay : OpsOf(f) \subseteq OpsOf(f)' /\ XformsOf(f) \subseteq XformsOf(f)'
       /\ costs \cap keptOps \subseteq costs'
       /\ relevant \cap (({EopLogicalGet} \cup keptOps) \X keptXforms) \subseteq relevant'
       /\ factories \cap (keptXforms \X keptOps) \subseteq factories'
       /\ links \cap (stay \X stay) \subseteq links'
       /\ UNION {engineRules[f] : f \in stay} \subseteq rules'

(* A call that only adds takes nothing from anybody. *)
LEMMA LocalGrows ==
    ASSUME RuleInv, engines \subseteq engines', costs \subseteq costs', relevant \subseteq relevant',
           factories \subseteq factories', links \subseteq links', rules \subseteq rules',
           \A f \in engines : OpsOf(f) \subseteq OpsOf(f)' /\ XformsOf(f) \subseteq XformsOf(f)'
    PROVE  LocalStep
<1>1. \A f \in engines : engineRules[f] \subseteq rules
  BY DEF RuleInv
<1>2. QED
  BY <1>1 DEF LocalStep

(* A new operator or transformation takes an id that nobody had. *)
LEMMA RegistrationsGrow ==
    ASSUME UniqueNames, ClosedInv, RegistryNext, ~ \E n \in EngineName : RemoveEngine(n)
    PROVE  LocalStep
<1> USE DEF ClosedInv
<1>1. RuleInv /\ engines \subseteq EngineType
  BY DEF RegistryTypeOK
<1>2. ASSUME UNCHANGED <<opId, xformId, transforms>>
      PROVE  \A f \in engines : OpsOf(f) \subseteq OpsOf(f)' /\ XformsOf(f) \subseteq XformsOf(f)'
  BY <1>2 DEF OpsOf, XformsOf
<1>3. CASE \E n \in EngineName : RegisterEngine(n)
  BY <1>1, <1>2, <1>3, LocalGrows DEF RegisterEngine, ops, xforms, hooks
<1>4. ASSUME NEW e \in EngineType, NEW n \in OpName, e \in engines, NewOpName(e, n), lastOp < MaxOp,
             opId' = [opId EXCEPT ![e] = [opId[e] EXCEPT ![n] = lastOp + 1]],
             UNCHANGED <<names, xforms, hooks>>, costs \subseteq costs'
      PROVE  LocalStep
  <2>1. opId[e][n] = 0
    BY <1>4, FreshOp
  <2>2. \A f \in EngineType, m \in OpName : f # e \/ m # n => opId'[f][m] = opId[f][m]
    BY <1>4 DEF RegistryTypeOK
  <2>3. \A f \in engines : OpsOf(f) \subseteq OpsOf(f)' /\ XformsOf(f) \subseteq XformsOf(f)'
    BY <1>1, <1>4, <2>1, <2>2 DEF OpsOf, XformsOf, xforms
  <2>4. QED
    BY <1>1, <1>4, <2>3, LocalGrows DEF names, hooks
<1>5. CASE \E e \in EngineType, n \in OpName : RegisterPhysicalOperator(e, n)
  BY <1>4, <1>5 DEF RegisterPhysicalOperator
<1>6. CASE \E e \in EngineType, n \in OpName, b \in BOOLEAN : RegisterLogicalOperator(e, n, b)
  BY <1>4, <1>6 DEF RegisterLogicalOperator
<1>7. CASE UseDefaultCPUTransforms
  BY <1>1, <1>2, <1>7, LocalGrows DEF UseDefaultCPUTransforms, names, ops, hooks
<1>8. ASSUME NEW e \in EngineType, NEW n \in XformName, RegisterTransform(e, n)
      PROVE  LocalStep
  <2>1. /\ \A f \in EngineType : n \notin Elements(transforms[f])
        /\ xformId' = [xformId EXCEPT ![n] = lastXform + 1]
        /\ transforms' = [transforms EXCEPT ![e] = Append(transforms[e], n)]
        /\ UNCHANGED <<names, ops, hooks>>
    BY <1>8 DEF RegisterTransform
  <2>2. Elements(Append(transforms[e], n)) = Elements(transforms[e]) \cup {n}
    BY AppendElements DEF RegistryTypeOK
  <2>3. \A f \in EngineType : Elements(transforms[f]) \subseteq Elements(transforms'[f])
    BY <2>1, <2>2 DEF RegistryTypeOK
  <2>4. \A f \in EngineType : Elements(transforms[f]) \subseteq XformName
    BY ElementsIn DEF RegistryTypeOK
  <2>5. \A f \in EngineType : \A m \in Elements(transforms[f]) : xformId'[m] = xformId[m]
    BY <2>1, <2>4 DEF RegistryTypeOK
  <2>6. \A f \in engines : OpsOf(f) \subseteq OpsOf(f)' /\ XformsOf(f) \subseteq XformsOf(f)'
    BY <1>1, <2>1, <2>3, <2>5 DEF OpsOf, XformsOf, ops
  <2>7. QED
    BY <1>1, <2>1, <2>6, LocalGrows DEF names, ops, hooks
<1>9. CASE \E op \in {EopLogicalGet} \cup OpId, x \in XformId : HookTransformToOp(op, x)
  BY <1>1, <1>2, <1>9, LocalGrows DEF HookTransformToOp, names, ops, xforms
<1>10. CASE \E x \in XformId, op \in OpId : HookOpToTransform(x, op)
  BY <1>1, <1>2, <1>10, LocalGrows DEF HookOpToTransform, names, ops, xforms
<1>11. CASE \E from \in EngineType : \E to \in EngineType \ {from} : RegisterEngineTransform(from, to)
  BY <1>1, <1>2, <1>11, LocalGrows DEF RegisterEngineTransform, ops, xforms, hooks
<1>12. CASE \E e \in EngineType, r \in RuleName : RegisterPreprocessingRule(e, r)
  BY <1>1, <1>2, <1>12, LocalGrows DEF RegisterPreprocessingRule, ops, xforms, hooks
<1>13. QED
  BY <1>3, <1>5, <1>6, <1>7, <1>8, <1>9, <1>10, <1>11, <1>12 DEF RegistryNext

(* Ids belong to one engine, so removing one engine's touches no other's. *)
LEMMA RemovalIsLocal ==
    ASSUME ClosedInv, KnownEngines, NEW n \in EngineName, RemoveEngine(n)
    PROVE  LocalStep
<1> USE DEF ClosedInv
<1> DEFINE e == TypeOfName(n)
           stay == {f \in engines : StillNamed(f)}
           keptOps == UNION {OpsOf(f) : f \in stay}
           keptXforms == UNION {XformsOf(f) : f \in stay}
<1>1. /\ e \in engines /\ e \in EngineType /\ engineType[n] = e /\ e # NoEngine
      /\ engines' = engines \ {e}
      /\ links' = {l \in links : l[1] # e /\ l[2] # e}
      /\ RemoveOps(e) /\ RemoveTransforms(e) /\ RemoveHooks(e)
      /\ rules' = rules \ engineRules[e]
      /\ engineType' = [engineType EXCEPT ![n] = NoEngine]
  BY RemovedIds
<1>2. /\ LogicalIds(e) = LogicalOpsOf(e)
      /\ TransformIds(e) = XformsOf(e)
      /\ PhysicalIds(e) \cup LogicalIds(e) = OpsOf(e)
      /\ 0 \notin LogicalIds(e)
  BY RemovedIds
<1> HIDE DEF e
<1>3. \A f \in stay : f # e /\ f \in EngineType /\ f \in engines
  <2> SUFFICES ASSUME NEW f \in stay, f = e  PROVE FALSE
    BY DEF RegistryTypeOK
  <2>1. PICK k \in EngineName : engineType[k] = e /\ engineType'[k] = e
    BY DEF StillNamed
  <2>2. k = n
    BY <1>1, <2>1 DEF EngineInv
  <2>3. QED
    BY <1>1, <2>1, <2>2 DEF RegistryTypeOK
<1> HIDE DEF stay
<1>4. \A f \in stay : OpsOf(f)' = OpsOf(f) /\ XformsOf(f)' = XformsOf(f)
  BY <1>1, <1>3, RemoveLeaves
<1>5. \A f \in stay : OpsOf(f) \cap OpsOf(e) = {}
  BY <1>1, <1>3 DEF OpInv, OpsOf
<1>6. \A f \in stay : XformsOf(f) \cap XformsOf(e) = {}
  <2> SUFFICES ASSUME NEW f \in stay, NEW x \in XformsOf(f), x \in XformsOf(e)  PROVE FALSE
    OBVIOUS
  <2>1. PICK m \in Elements(transforms[f]) : x = xformId[m] /\ x # 0
    BY DEF XformsOf
  <2>2. PICK k \in Elements(transforms[e]) : x = xformId[k]
    BY DEF XformsOf
  <2>3. m \in XformName /\ k \in XformName
    BY <1>1, <1>3, ElementsIn DEF RegistryTypeOK
  <2>4. m = k
    BY <2>1, <2>2, <2>3 DEF XformInv
  <2>5. QED
    BY <1>1, <1>3, <2>4 DEF XformInv
<1>7. /\ keptOps \cap PhysicalIds(e) = {} /\ keptOps \cap LogicalIds(e) = {}
      /\ keptXforms \cap TransformIds(e) = {}
  BY <1>2, <1>5, <1>6
<1>8. costs \cap keptOps \subseteq costs'
  BY <1>1, <1>7 DEF RemoveOps
<1>9. relevant \cap (({EopLogicalGet} \cup keptOps) \X keptXforms) \subseteq relevant'
  <2> SUFFICES ASSUME NEW h \in relevant, h \in ({EopLogicalGet} \cup keptOps) \X keptXforms
               PROVE  h \in relevant'
    OBVIOUS
  <2>1. (h[1] = 0 \/ h[1] \in keptOps) /\ h[2] \in keptXforms
    BY DEF EopLogicalGet
  <2>2. h[1] \notin LogicalIds(e) /\ h[2] \notin TransformIds(e)
    BY <1>2, <1>7, <2>1
  <2>3. QED
    BY <1>1, <2>2 DEF RemoveHooks
<1>10. factories \cap (keptXforms \X keptOps) \subseteq factories'
  <2> SUFFICES ASSUME NEW h \in factories, h \in keptXforms \X keptOps
               PROVE  h \in factories'
    OBVIOUS
  <2>1. h[1] \in keptXforms /\ h[2] \in keptOps
    OBVIOUS
  <2>2. QED
    BY <1>1, <1>7, <2>1 DEF RemoveHooks
<1>11. links \cap (stay \X stay) \subseteq links'
  BY <1>1, <1>3
<1>12. UNION {engineRules[f] : f \in stay} \subseteq rules'
  BY <1>1, <1>3 DEF RuleInv
<1>13. stay \subseteq engines'
  BY <1>1, <1>3
<1>14. QED
  BY <1>4, <1>8, <1>9, <1>10, <1>11, <1>12, <1>13 DEF LocalStep, stay

(* RemoveEngine leaves alone what other engines have registered: their
   operators and costs, transformations, hooks, transitions and rules. *)
THEOREM RemovalsAreLocal ==
    ASSUME UniqueNames, KnownEngines
    PROVE  RegistrySpec => RemovalLocal
<1>1. ClosedInv /\ [RegistryNext]_vars => ClosedInv'
  BY ClosedStep
<1>2. ClosedInv /\ [RegistryNext]_vars => [LocalStep]_vars
  BY RegistrationsGrow, RemovalIsLocal
<1>3. QED
  BY <1>1, <1>2, ClosedInit, PTL DEF RegistrySpec, RemovalLocal, LocalStep
=============================================================================
