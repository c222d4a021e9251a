--------------------------- MODULE DynamicRegistry ---------------------------
(***************************************************************************)
(* The registry through which engines extend the optimizer at run time:    *)
(* engine types, operator and transformation ids, the hooks between        *)
(* operators and transformations, the maps of the cost model, and the      *)
(* array of the transformation factory.                                    *)
(*                                                                         *)
(* Ids are drawn from counters and never returned.  Names are looked up    *)
(* with operator[], which yields id 0 for a name that has none; 0 is the   *)
(* id of EopLogicalGet, of ExfProject2ComputeScalar and of the engine GP,  *)
(* so a failed lookup is a valid id of something else.                     *)
(*                                                                         *)
(* Every action is one call an engine makes on the registry; what the      *)
(* engines are, and in which order they call, is left open, except for the *)
(* three disciplines that the constants switch on and off.                 *)
(***************************************************************************)
EXTENDS Integers, Sequences

CONSTANTS
    EngineName, GPName,             \* names of engines; "GP" is built in
    OpName, XformName, RuleName,    \* names engines give to what they register
    ExfSentinel,                    \* number of built-in transformations
    DefaultsFirst,                  \* transformations come after the built-in ones
    UniqueNames,                    \* a name in use is not registered again
    KnownEngines,                   \* only registered engines are removed
    MaxEngine, MaxOp, MaxXform      \* bounds on the ids handed out

EetGP == 0                          \* EetAny is 1, EetDynamicStart is 2
EetDynamicStart == 2
EopLogicalGet == 0                  \* stands for the built-in operators
EopSentinel == 1
ExfDynamicStart == ExfSentinel

ASSUME RegistryAssumption ==
    /\ GPName \in EngineName
    /\ ExfSentinel \in Nat \ {0}
    /\ {DefaultsFirst, UniqueNames, KnownEngines} \subseteq BOOLEAN
    /\ MaxEngine \in Nat /\ MaxOp \in Nat /\ MaxXform \in Nat

EngineType == {EetGP} \cup (EetDynamicStart + 1) .. MaxEngine
OpId == EopSentinel + 1 .. MaxOp
XformId == ExfDynamicStart + 1 .. MaxXform

NoEngine == EetDynamicStart         \* GetEngineType returns EetSentinel
NoXform == -1                       \* NULL in m_rgpxf

VARIABLES
    engineType,     \* engineNameToEngineType
    engines,        \* the keys of engineTypeToEngineName
    opId,           \* opEngineAndNameToOperatorId; 0 for a missing key
    physicalOps,    \* engineToPhysicalOps
    logicalOps,     \* engineToLogicalOps
    costs,          \* the dynamic operators in the cost model's m_cost_map
    projects,       \* projectOperators
    xformId,        \* transformNameToTransformId; 0 for a missing key
    transforms,     \* engineToTransforms
    relevant,       \* relevantTransforms, as pairs <<operator, transformation>>
    factories,      \* opFactories, as pairs <<transformation, operator>>
    rgpxf,          \* CXformFactory::m_rgpxf; index i+1 is the slot i
    disabled,       \* the transformations whose disable flag is set
    links,          \* engine pairs with a transition: its cost and preserve flags
    rules,          \* preprocessingRules
    engineRules,    \* engineToPreprocessingRules
    lastEngine, lastOp, lastXform   \* currentEngineType, currentOperatorId, currentTransformId

names == <<engineType, engines, engineRules, rules, links>>
ops == <<opId, physicalOps, logicalOps, costs, projects>>
xforms == <<xformId, transforms, rgpxf, disabled>>
hooks == <<relevant, factories>>
counters == <<lastEngine, lastOp, lastXform>>
vars == <<names, ops, xforms, hooks, counters>>

RegistryInit ==
    /\ engineType = [n \in EngineName |-> IF n = GPName THEN EetGP ELSE NoEngine]
    /\ engines = {EetGP}
    /\ opId = [e \in EngineType |-> [n \in OpName |-> 0]]
    /\ physicalOps = [e \in EngineType |-> <<>>]
    /\ logicalOps = [e \in EngineType |-> <<>>]
    /\ costs = {} /\ projects = {}
    /\ xformId = [n \in XformName |-> 0]
    /\ transforms = [e \in EngineType |-> <<>>]
    /\ relevant = {} /\ factories = {}
    /\ rgpxf = [i \in 1 .. ExfSentinel |-> NoXform]
    /\ disabled = {}
    /\ links = {}
    /\ rules = {} /\ engineRules = [e \in EngineType |-> {}]
    /\ lastEngine = EetDynamicStart /\ lastOp = EopSentinel /\ lastXform = ExfDynamicStart

Elements(s) == {s[i] : i \in 1 .. Len(s)}
Repeats(s) == \E i, j \in 1 .. Len(s) : i # j /\ s[i] = s[j]

OpsOf(e) == {opId[e][n] : n \in OpName} \ {0}
LogicalOpsOf(e) == {opId[e][n] : n \in Elements(logicalOps[e])}
XformsOf(e) == {xformId[n] : n \in Elements(transforms[e])} \ {0}

-----------------------------------------------------------------------------
(* Engine::UpdateEngineType, the only caller of RegisterEngine, calls it unless
   the name of the engine is known. *)
RegisterEngine(n) ==
    /\ engineType[n] = NoEngine
    /\ lastEngine < MaxEngine
    /\ LET e == lastEngine + 1 IN
        /\ lastEngine' = e
        /\ engineType' = [engineType EXCEPT ![n] = e]
        /\ engines' = engines \cup {e}
    /\ UNCHANGED <<engineRules, rules, links, ops, xforms, hooks, lastOp, lastXform>>

NewOpName(e, n) ==
    ~UniqueNames \/ n \notin Elements(physicalOps[e]) \cup Elements(logicalOps[e])

RegisterPhysicalOperator(e, n) ==
    /\ e \in engines /\ NewOpName(e, n)
    /\ lastOp < MaxOp
    /\ LET id == lastOp + 1 IN
        /\ lastOp' = id
        /\ costs' = costs \cup {id}
        /\ opId' = [opId EXCEPT ![e] = [opId[e] EXCEPT ![n] = id]]
    /\ physicalOps' = [physicalOps EXCEPT ![e] = Append(physicalOps[e], n)]
    /\ UNCHANGED <<names, logicalOps, projects, xforms, hooks, lastEngine, lastXform>>

RegisterLogicalOperator(e, n, isAProject) ==
    /\ e \in engines /\ NewOpName(e, n)
    /\ lastOp < MaxOp
    /\ LET id == lastOp + 1 IN
        /\ lastOp' = id
        /\ projects' = IF isAProject THEN projects \cup {id} ELSE projects
        /\ opId' = [opId EXCEPT ![e] = [opId[e] EXCEPT ![n] = id]]
    /\ logicalOps' = [logicalOps EXCEPT ![e] = Append(logicalOps[e], n)]
    /\ UNCHANGED <<names, physicalOps, costs, xforms, hooks, lastEngine, lastXform>>

(* mutant: Instantiate does not add the sentinel *)
Mut_NoSentinel ==
    /\ rgpxf[1] = NoXform
    /\ rgpxf' = [i \in 1 .. Len(rgpxf) |-> IF i <= ExfSentinel THEN i - 1 ELSE rgpxf[i]]
    /\ UNCHANGED <<names, ops, xformId, transforms, disabled, hooks, counters>>

(* UseDefaultCPUTransforms, CXformFactory::Instantiate *)
UseDefaultCPUTransforms ==
    /\ rgpxf[1] = NoXform   \* Add asserts that the slot of each is free
    /\ rgpxf' = Append([i \in 1 .. Len(rgpxf) |->
                          IF i <= ExfSentinel THEN i - 1 ELSE rgpxf[i]], NoXform)
    /\ UNCHANGED <<names, ops, xformId, transforms, disabled, hooks, counters>>

(* CXformFactory::Add *)
Add(id) ==
    rgpxf' = IF id >= Len(rgpxf) THEN Append(rgpxf, id) ELSE [rgpxf EXCEPT ![id + 1] = id]

RegisterTransform(e, n) ==
    /\ e \in engines
    /\ UniqueNames => \A f \in EngineType : n \notin Elements(transforms[f])
    /\ DefaultsFirst => rgpxf[1] # NoXform
    /\ lastXform < MaxXform
    /\ LET id == lastXform + 1 IN
        /\ lastXform' = id
        /\ xformId' = [xformId EXCEPT ![n] = id]
        /\ Add(id)
    /\ transforms' = [transforms EXCEPT ![e] = Append(transforms[e], n)]
    /\ UNCHANGED <<names, ops, disabled, hooks, lastEngine, lastOp>>

(* Ids come from GetOperatorId and GetTransformId, which raise an error when
   there is none.  Transformations rewrite logical operators. *)
HookTransformToOp(op, x) ==
    /\ op = EopLogicalGet \/ \E e \in engines : op \in LogicalOpsOf(e)
    /\ \E e \in engines : x \in XformsOf(e)
    /\ relevant' = relevant \cup {<<op, x>>}
    /\ UNCHANGED <<names, ops, xforms, factories, counters>>

HookOpToTransform(x, op) ==
    /\ \E e \in engines : op \in OpsOf(e)
    /\ \E e \in engines : x \in XformsOf(e)
    /\ factories' = factories \cup {<<x, op>>}
    /\ UNCHANGED <<names, ops, xforms, relevant, counters>>

RegisterEngineTransform(from, to) ==
    /\ {from, to} \subseteq engines
    /\ links' = links \cup {<<from, to>>}
    /\ UNCHANGED <<engineType, engines, rules, engineRules, ops, xforms, hooks, counters>>

RegisterPreprocessingRule(e, r) ==
    /\ e \in engines
    /\ UniqueNames => \A f \in EngineType : r \notin engineRules[f]
    /\ rules' = rules \cup {r}
    /\ engineRules' = [engineRules EXCEPT ![e] = @ \cup {r}]
    /\ UNCHANGED <<engineType, engines, links, ops, xforms, hooks, counters>>

-----------------------------------------------------------------------------
(***************************************************************************)
(* RemoveEngine.  A loop over a list of names looks each of them up and    *)
(* erases it, so that a name that comes twice yields 0 the second time.    *)
(***************************************************************************)
SecondLookup(again) == IF again THEN {0} ELSE {}

(* the ids found by the loop over the engine's physical operators *)
PhysicalIds(e) ==
    {opId[e][n] : n \in Elements(physicalOps[e])} \cup SecondLookup(Repeats(physicalOps[e]))

(* mutant: the loop erases the name before it reads the id *)
Mut_LogicalIds(e) == SecondLookup(logicalOps[e] # <<>>)

(* ... and by the loop over its logical ones, which runs after it *)
LogicalIds(e) ==
    {IF n \in Elements(physicalOps[e]) THEN 0 ELSE opId[e][n] : n \in Elements(logicalOps[e])}
        \cup SecondLookup(Repeats(logicalOps[e]))

TransformIds(e) ==
    {xformId[n] : n \in Elements(transforms[e])} \cup SecondLookup(Repeats(transforms[e]))

RemoveOps(e) ==
    /\ costs' = costs \ PhysicalIds(e)
    /\ projects' = projects \ LogicalIds(e)
    /\ opId' = [opId EXCEPT ![e] = [n \in OpName |->
                   IF n \in Elements(physicalOps[e]) \cup Elements(logicalOps[e]) THEN 0
                   ELSE opId[e][n]]]
    /\ physicalOps' = [physicalOps EXCEPT ![e] = <<>>]
    /\ logicalOps' = [logicalOps EXCEPT ![e] = <<>>]

RemoveTransforms(e) ==
    /\ disabled' = disabled \cup TransformIds(e)
    /\ xformId' = [n \in XformName |-> IF n \in Elements(transforms[e]) THEN 0 ELSE xformId[n]]
    /\ transforms' = [transforms EXCEPT ![e] = <<>>]
    /\ UNCHANGED rgpxf

(* mutant: the engine's transformations stay hooked to other operators *)
Mut_RemoveHooks(e) ==
    /\ relevant' = {h \in relevant : h[1] \notin LogicalIds(e)}
    /\ factories' = {h \in factories : /\ h[1] \notin TransformIds(e)
                                       /\ h[2] \notin PhysicalIds(e) \cup LogicalIds(e)}

RemoveHooks(e) ==
    /\ relevant' = {h \in relevant : h[1] \notin LogicalIds(e) /\ h[2] \notin TransformIds(e)}
    /\ factories' = {h \in factories : /\ h[1] \notin TransformIds(e)
                                       /\ h[2] \notin PhysicalIds(e) \cup LogicalIds(e)}

(* engineNameToEngineType[engineName] *)
TypeOfName(n) == IF engineType[n] = NoEngine THEN EetGP ELSE engineType[n]

RemoveEngine(n) ==
    /\ KnownEngines => engineType[n] # NoEngine
    /\ LET e == TypeOfName(n) IN
        /\ engines' = engines \ {e}
        /\ links' = {l \in links : l[1] # e /\ l[2] # e}
        /\ RemoveOps(e)
        /\ RemoveTransforms(e)
        /\ RemoveHooks(e)
        /\ rules' = rules \ engineRules[e]
        /\ engineRules' = [engineRules EXCEPT ![e] = {}]
    /\ engineType' = [engineType EXCEPT ![n] = NoEngine]
    /\ UNCHANGED counters

RegistryNext ==
    \/ \E n \in EngineName : RegisterEngine(n)
    \/ \E e \in EngineType, n \in OpName : RegisterPhysicalOperator(e, n)
    \/ \E e \in EngineType, n \in OpName, b \in BOOLEAN : RegisterLogicalOperator(e, n, b)
    \/ UseDefaultCPUTransforms
    \/ \E e \in EngineType, n \in XformName : RegisterTransform(e, n)
    \/ \E op \in {EopLogicalGet} \cup OpId, x \in XformId : HookTransformToOp(op, x)
    \/ \E x \in XformId, op \in OpId : HookOpToTransform(x, op)
    \/ \E from \in EngineType : \E to \in EngineType \ {from} : RegisterEngineTransform(from, to)
    \/ \E e \in EngineType, r \in RuleName : RegisterPreprocessingRule(e, r)
    \/ \E n \in EngineName : RemoveEngine(n)

RegistrySpec == RegistryInit /\ [][RegistryNext]_vars
-----------------------------------------------------------------------------
(* The types of the maps: every id handed out is a dynamic one, and no name
   shadows the id of a built-in operator, transformation or engine. *)
RegistryTypeOK ==
    /\ engineType \in [EngineName -> EngineType \cup {NoEngine}]
    /\ engines \subseteq EngineType
    /\ opId \in [EngineType -> [OpName -> OpId \cup {0}]]
    /\ physicalOps \in [EngineType -> Seq(OpName)]
    /\ logicalOps \in [EngineType -> Seq(OpName)]
    /\ costs \subseteq OpId /\ projects \subseteq OpId
    /\ xformId \in [XformName -> XformId \cup {0}]
    /\ transforms \in [EngineType -> Seq(XformName)]
    /\ relevant \subseteq ({EopLogicalGet} \cup OpId) \X XformId
    /\ factories \subseteq XformId \X OpId
    /\ rgpxf \in Seq({NoXform} \cup Nat)
    /\ disabled \subseteq {0} \cup XformId
    /\ links \subseteq EngineType \X EngineType
    /\ rules \subseteq RuleName /\ engineRules \in [EngineType -> SUBSET RuleName]
    /\ counters \in Nat \X Nat \X Nat

LiveOps == UNION {OpsOf(e) : e \in engines}
LiveXforms == UNION {XformsOf(e) : e \in engines}

(* RemoveEngine leaves nothing behind: cost functions, project operators,
   hooks, transitions and rules are those of engines that are registered. *)
RegistryClosed ==
    /\ costs \subseteq LiveOps /\ projects \subseteq LiveOps
    /\ relevant \subseteq ({EopLogicalGet} \cup LiveOps) \X LiveXforms
    /\ factories \subseteq LiveXforms \X LiveOps
    /\ links \subseteq engines \X engines
    /\ rules = UNION {engineRules[e] : e \in engines}

(* CXformFactory::Pxf finds every registered transformation in the slot of
   its id, as its assertion says, although Add appends to the array. *)
XformAtItsId == \A x \in LiveXforms : x < Len(rgpxf) /\ rgpxf[x + 1] = x

(* Removing engines never disables a transformation that is still in use:
   a registered one, or one of those that come with the optimizer. *)
LiveEnabled == disabled \cap (LiveXforms \cup 0 .. ExfSentinel - 1) = {}

StillNamed(f) == \E n \in EngineName : engineType[n] = f /\ engineType'[n] = f

(* A call takes nothing away from the engines that keep their name: their
   operators, costs, transformations, rules and transitions stay, and so do
   the hooks between them and to the built-in operators. *)
RemovalLocal ==
    [][LET stay == {f \in engines : StillNamed(f)}
           keptOps == UNION {OpsOf(f) : f \in stay}
           keptXforms == UNION {XformsOf(f) : f \in stay}
       IN /\ stay \subseteq engines'
          /\ \A f \in stay : OpsOf(f) \subseteq OpsOf(f)' /\ XformsOf(f) \subseteq XformsOf(f)'
          /\ costs \cap keptOps \subseteq costs'
          /\ relevant \cap (({EopLogicalGet} \cup keptOps) \X keptXforms) \subseteq relevant'
          /\ factories \cap (keptXforms \X keptOps) \subseteq factories'
          /\ links \cap (stay \X stay) \subseteq links'
          /\ UNION {engineRules[f] : f \in stay} \subseteq rules']_vars

(* Calls in any order leave a registry that refers to nothing removed and
   disables nothing in use. *)
RegistryInv == RegistryTypeOK /\ RegistryClosed /\ LiveEnabled
=============================================================================
