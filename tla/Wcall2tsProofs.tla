---------------------------- MODULE Wcall2tsProofs ----------------------------
(***************************************************************************)
(* Proofs about the main loop of wcall2ts.py, for every header and every  *)
(* template: the type invariant, and that every callback parameter of a   *)
(* generated wrapper is installed as a trampoline when %CALLBACK_TYPES%   *)
(* comes before %FUNCTIONS% in the template.                              *)
(***************************************************************************)
EXTENDS Wcall2ts, TLAPS

(***************************************************************************)
(* The registry is empty until the first %CALLBACK_TYPES% line has been    *)
(* processed and holds exactly the header's typedefs from then on; each   *)
(* entry is the prototype code of the typedef of that name.  This is what *)
(* makes MarshalledWhenRegisteredFirst inductive.                          *)
(***************************************************************************)
RegistryInv ==
    /\ DOMAIN callbacks =
           IF CallbackTypesBefore(tpos) THEN RegisteredKeys(header) ELSE {}
    /\ \A k \in DOMAIN callbacks :
           callbacks[k] = Proto(header[TypeDef(header, k)])

IInv == TypeOK /\ RegistryInv /\ MarshalledWhenRegisteredFirst
------------------------------------------------------------------------------
LEMMA ProtoCharType ==
    ASSUME NEW ty
    PROVE  ProtoChar(ty) \in {"v", "n", "s", "?"}
BY DEF ProtoChar

LEMMA ProtoType ==
    ASSUME NEW d, d.params \in Seq(Param)
    PROVE  Proto(d) \in ProtoCode
<1>1. <<IF d.ret = "void" THEN "v" ELSE ProtoChar(d.ret)>> \in ProtoCode
    BY ProtoCharType DEF ProtoCode
<1>2. [i \in DOMAIN d.params |-> ProtoChar(d.params[i].type)] \in ProtoCode
    BY ProtoCharType DEF ProtoCode
<1>. QED  BY <1>1, <1>2 DEF Proto, ProtoCode

LEMMA CToJsType ==
    ASSUME NEW ty \in CTypes
    PROVE  CToJs(ty) \in JsTag
BY ConstantsAssumption DEF CToJs, JsTag, CTypes, MappedTypes

LEMMA CToTsType ==
    ASSUME NEW ty \in CTypes \cup JsTag, NEW keys \in SUBSET CbKeys
    PROVE  CToTs(ty, keys) \in TsType
BY ConstantsAssumption DEF CToTs, TsType, JsTag, CTypes, MappedTypes

LEMMA BindingType ==
    ASSUME NEW d \in Decl, IsFn(d), NEW cb, DOMAIN cb \subseteq CbKeys,
           cb \in [DOMAIN cb -> ProtoCode]
    PROVE  Binding(d, cb) \in Binding_T
<1>0. d.params \in Seq(Param) /\ d.name \in FnNames /\ d.ret \in CTypes
    BY DEF Decl, IsFn
<1>. DEFINE tag(i) == CToJs(d.params[i].type)
<1>1. \A i \in DOMAIN d.params : tag(i) \in JsTag
    <2>. SUFFICES ASSUME NEW i \in DOMAIN d.params PROVE tag(i) \in JsTag
        OBVIOUS
    <2>1. d.params[i] \in Param
        BY <1>0
    <2>2. d.params[i].type \in CTypes
        BY <2>1 DEF Param
    <2>. QED  BY <2>2, CToJsType DEF tag
<1>2. CToJs(d.ret) \in JsTag /\ CToTs(d.ret, DOMAIN cb) \in TsType
    BY <1>0, CToJsType, CToTsType
<1>3. [i \in DOMAIN d.params |-> CToTs(tag(i), DOMAIN cb)] \in Seq(TsType)
    BY <1>0, <1>1, CToTsType
<1>4. [i \in DOMAIN d.params |->
          IF tag(i) \in DOMAIN cb THEN "number" ELSE tag(i)] \in Seq(JsTag)
    BY <1>0, <1>1 DEF JsTag
<1>5. [i \in DOMAIN d.params |->
          IF tag(i) \in DOMAIN cb THEN cb[tag(i)] ELSE <<>>] \in Seq(ProtoCode)
    <2>1. <<>> \in ProtoCode
        BY DEF ProtoCode
    <2>2. \A i \in DOMAIN d.params :
              (IF tag(i) \in DOMAIN cb THEN cb[tag(i)] ELSE <<>>) \in ProtoCode
        BY <2>1
    <2>. QED  BY <1>0, <2>2
<1>. QED  BY <1>0, <1>2, <1>3, <1>4, <1>5 DEF Binding, Binding_T

LEMMA CbTypeType ==
    ASSUME NEW d \in Decl, IsCb(d), NEW keys \in SUBSET CbKeys
    PROVE  CbType(d, keys) \in CbType_T
<1>0. d.params \in Seq(Param) /\ d.key \in CbKeys
    BY DEF Decl, IsCb
<1>1. Proto(d) \in ProtoCode
    BY <1>0, ProtoType
<1>2. \A i \in DOMAIN d.params :
          [type |-> CToTs(d.params[i].type, keys),
           orUndefined |-> d.params[i].opt] \in [type : TsType, orUndefined : BOOLEAN]
    <2>. SUFFICES ASSUME NEW i \in DOMAIN d.params
                  PROVE  [type |-> CToTs(d.params[i].type, keys),
                          orUndefined |-> d.params[i].opt] \in [type : TsType, orUndefined : BOOLEAN]
        OBVIOUS
    <2>0. d.params[i] \in Param
        BY <1>0
    <2>1. d.params[i].type \in CTypes /\ d.params[i].opt \in BOOLEAN
        BY <2>0 DEF Param
    <2>2. CToTs(d.params[i].type, keys) \in TsType
        BY <2>1, CToTsType
    <2>. QED  BY <2>1, <2>2
<1>3. [i \in DOMAIN d.params |->
          [type |-> CToTs(d.params[i].type, keys),
           orUndefined |-> d.params[i].opt]] \in Seq([type : TsType, orUndefined : BOOLEAN])
    <2>1. DOMAIN d.params = 1..Len(d.params)
        BY <1>0
    <2>. QED  BY <2>1, <1>2
<1>. QED  BY <1>0, <1>1, <1>3 DEF CbType, CbType_T

\* The typedefs convert_cb registers are callback declarations of the
\* header, and their keys are callback pointer spellings.
LEMMA RegisteredFacts ==
    ASSUME NEW h \in Seq(Decl)
    PROVE  /\ RegisteredIdx(h) \subseteq DOMAIN h
           /\ \A i \in RegisteredIdx(h) : h[i] \in Decl /\ IsCb(h[i])
           /\ RegisteredKeys(h) \subseteq CbKeys
<1>1. \A i \in RegisteredIdx(h) : h[i] \in Decl /\ IsCb(h[i])
    BY DEF RegisteredIdx
<1>2. \A i \in RegisteredIdx(h) : h[i].key \in CbKeys
    BY <1>1 DEF Decl, IsCb
<1>. QED  BY <1>1, <1>2 DEF RegisteredIdx, RegisteredKeys

\* TypeDef picks a registered typedef of the key it is given.
LEMMA TypeDefFacts ==
    ASSUME NEW h, NEW k \in RegisteredKeys(h)
    PROVE  TypeDef(h, k) \in RegisteredIdx(h) /\ h[TypeDef(h, k)].key = k
BY DEF TypeDef, RegisteredKeys

\* Appending a block whose pos is the current line keeps out well typed and
\* every written block behind the loop's position (the Emit of every action).
LEMMA EmitType ==
    ASSUME TypeOK, tpos <= Len(template), NEW blk \in Block_T, blk.pos = tpos,
           Emit(blk), template' = template
    PROVE  /\ tpos' \in 1..Len(template') + 1
           /\ out' \in Seq(Block_T)
           /\ \A i \in DOMAIN out' : out'[i].pos \in 1..(tpos' - 1)
<1>0. template \in Seq(TemplateLine) /\ tpos \in 1..Len(template) + 1
    BY ConstantsAssumption DEF TypeOK
<1>1. tpos' \in 1..Len(template') + 1
    BY <1>0 DEF Emit
<1>2. out' \in Seq(Block_T)
    BY DEF TypeOK, Emit
<1>3. \A i \in DOMAIN out' : out'[i].pos \in 1..(tpos' - 1)
    <2>. SUFFICES ASSUME NEW i \in DOMAIN out' PROVE out'[i].pos \in 1..(tpos' - 1)
        OBVIOUS
    <2>1. CASE i \in DOMAIN out
        BY <2>1, <1>0 DEF TypeOK, Emit
    <2>2. CASE i = Len(out) + 1
        BY <2>2, <1>0 DEF TypeOK, Emit
    <2>. QED  BY <2>1, <2>2 DEF TypeOK, Emit
<1>. QED  BY <1>1, <1>2, <1>3

\* Every step of the main loop keeps the type invariant.
LEMMA TypeStep ==
    ASSUME TypeOK, [Next]_vars
    PROVE  TypeOK'
<1>0. header \in Seq(Decl) /\ template \in Seq(TemplateLine)
    BY ConstantsAssumption DEF TypeOK
<1>1. DOMAIN callbacks \subseteq CbKeys
    BY <1>0, RegisteredFacts DEF TypeOK
<1>2. CASE WriteText
    <2>1. [pos |-> tpos, line |-> "text"] \in Block_T
        BY DEF TypeOK, Block_T
    <2>. QED  BY <2>1, <1>2, EmitType DEF WriteText, Current, TypeOK
<1>3. CASE DropUnknown
    BY <1>3 DEF DropUnknown, Current, TypeOK
<1>4. CASE EmitConstants
    <2>1. HeaderGroups(header) \subseteq ConstGroups
        BY <1>0, ConstantsAssumption DEF HeaderGroups, Decl, IsConst
    <2>2. [pos |-> tpos, line |-> "CONSTANTS",
           enums |-> HeaderGroups(header) \ {VersionGroup}] \in Block_T
        BY <2>1 DEF TypeOK, Block_T
    <2>3. CASE VersionGroup \in HeaderGroups(header)
        BY <1>4, <2>2, <2>3, EmitType DEF EmitConstants, Current, TypeOK
    <2>4. CASE VersionGroup \notin HeaderGroups(header)
        BY <1>4, <2>4 DEF EmitConstants, TypeOK
    <2>. QED  BY <2>3, <2>4
<1>5. CASE EmitCallbackTypes
    <2>. DEFINE new == RegisteredKeys(header)
                cb  == [k \in DOMAIN callbacks \cup new |->
                          IF k \in new THEN Proto(header[TypeDef(header, k)])
                          ELSE callbacks[k]]
                keys(i) == DOMAIN callbacks \cup
                             {header[j].key : j \in {j \in RegisteredIdx(header) : j < i}}
                blk == [pos |-> tpos, line |-> "CALLBACK_TYPES",
                        types |-> {CbType(header[i], keys(i)) : i \in RegisteredIdx(header)}]
    <2>1. DOMAIN callbacks \cup new = new
        BY DEF TypeOK
    <2>2. cb \in [new -> ProtoCode]
        <3>. SUFFICES ASSUME NEW k \in new PROVE Proto(header[TypeDef(header, k)]) \in ProtoCode
            BY <2>1
        <3>1. TypeDef(header, k) \in RegisteredIdx(header)
            BY TypeDefFacts
        <3>2. header[TypeDef(header, k)] \in Decl /\ IsCb(header[TypeDef(header, k)])
            BY <3>1, <1>0, RegisteredFacts
        <3>3. header[TypeDef(header, k)].params \in Seq(Param)
            BY <3>2 DEF Decl, IsCb
        <3>. QED  BY <3>3, ProtoType
    <2>3. \A i \in RegisteredIdx(header) : CbType(header[i], keys(i)) \in CbType_T
        <3>. SUFFICES ASSUME NEW i \in RegisteredIdx(header)
                      PROVE  CbType(header[i], keys(i)) \in CbType_T
            OBVIOUS
        <3>1. header[i] \in Decl /\ IsCb(header[i])
            BY <1>0, RegisteredFacts
        <3>2. keys(i) \subseteq CbKeys
            BY <1>0, <1>1, RegisteredFacts DEF RegisteredKeys
        <3>. QED  BY <3>1, <3>2, CbTypeType
    <2>4. blk \in Block_T
        <3>1. {CbType(header[i], keys(i)) : i \in RegisteredIdx(header)} \subseteq CbType_T
            BY <2>3
        <3>2. tpos \in Nat
            BY DEF TypeOK
        <3>. HIDE DEF keys
        <3>. QED  BY <3>1, <3>2 DEF Block_T, blk
    <2>5. callbacks' = cb /\ Emit(blk) /\ tpos <= Len(template)
          /\ UNCHANGED <<header, template, status>>
        BY <1>5 DEF EmitCallbackTypes, Current
    <2>6. DOMAIN callbacks' \in {{}, RegisteredKeys(header')}
        BY <2>1, <2>5
    <2>. QED  BY <2>2, <2>4, <2>5, <2>6, EmitType DEF TypeOK
<1>6. CASE EmitFunctions
    <2>. DEFINE blk == [pos |-> tpos, line |-> "FUNCTIONS",
                        bindings |-> {Binding(header[i], callbacks) :
                             i \in {j \in DOMAIN header :
                                      IsFn(header[j]) /\ header[j].name \notin IgnoredFns}}]
    <2>1. \A i \in DOMAIN header : IsFn(header[i]) => Binding(header[i], callbacks) \in Binding_T
        <3>. SUFFICES ASSUME NEW i \in DOMAIN header, IsFn(header[i])
                      PROVE  Binding(header[i], callbacks) \in Binding_T
            OBVIOUS
        <3>1. header[i] \in Decl
            BY <1>0
        <3>. QED  BY <3>1, <1>1, BindingType DEF TypeOK
    <2>2. blk \in Block_T
        BY <2>1 DEF TypeOK, Block_T
    <2>. QED  BY <1>6, <2>2, EmitType DEF EmitFunctions, Current, TypeOK
<1>7. CASE Finish
    BY <1>7 DEF Finish, TypeOK
<1>8. CASE UNCHANGED vars
    BY <1>8 DEF vars, TypeOK
<1>. QED  BY <1>2, <1>3, <1>4, <1>5, <1>6, <1>7, <1>8 DEF Next

(***************************************************************************)
(* Type correctness of the main loop of wcall2ts.py: for every header and  *)
(* template, the registry only ever holds the header's typedef keys with   *)
(* prototype codes, and every block written to the output file is         *)
(* well formed and belongs to a template line already processed.          *)
(***************************************************************************)
THEOREM TypeCorrect == Spec => []TypeOK
<1>1. Init => TypeOK
    BY ConstantsAssumption DEF Init, TypeOK
<1>2. TypeOK /\ [Next]_vars => TypeOK'
    BY TypeStep
<1>. QED  BY <1>1, <1>2, PTL DEF Spec
------------------------------------------------------------------------------
\* What MarshalledWhenRegisteredFirst asks of one written block.
BlockOK(b) ==
    (b.line = "FUNCTIONS" /\ CallbackTypesBefore(b.pos)) =>
        \A i \in DOMAIN header :
            (IsFn(header[i]) /\ header[i].name \notin IgnoredFns) =>
                \A k \in RetainedCbParams(header[i]) : Marshalled(b, header[i], k)

\* Moving past a template line adds a %CALLBACK_TYPES% line before the loop
\* exactly when that line is one.
LEMMA CallbackTypesBeforeStep ==
    ASSUME NEW p \in Nat, p >= 1
    PROVE  CallbackTypesBefore(p + 1) <=>
               (CallbackTypesBefore(p) \/ template[p] = "CALLBACK_TYPES")
<1>1. 1..(p + 1 - 1) = 1..(p - 1) \cup {p}
    OBVIOUS
<1>. QED  BY <1>1 DEF CallbackTypesBefore

\* Every step keeps the registry empty before the first %CALLBACK_TYPES%
\* line and equal to the header's typedefs after it.
LEMMA RegistryStep ==
    ASSUME TypeOK, RegistryInv, [Next]_vars
    PROVE  RegistryInv'
<1>0. tpos \in Nat /\ tpos >= 1
    BY DEF TypeOK
\* The steps that pass a line other than %CALLBACK_TYPES% and leave the
\* registry alone.
<1>1. ASSUME tpos' = tpos + 1, template[tpos] # "CALLBACK_TYPES",
             UNCHANGED <<header, template, callbacks>>
      PROVE  RegistryInv'
    <2>1. CallbackTypesBefore(tpos') <=> CallbackTypesBefore(tpos)
        BY <1>0, <1>1, CallbackTypesBeforeStep
    <2>2. CallbackTypesBefore(tpos)' = CallbackTypesBefore(tpos')
        BY <1>1 DEF CallbackTypesBefore
    <2>. QED  BY <1>1, <2>1, <2>2 DEF RegistryInv
<1>2. CASE WriteText
    BY <1>2, <1>1 DEF WriteText, Current, Emit
<1>3. CASE DropUnknown
    BY <1>3, <1>1 DEF DropUnknown, Current
<1>4. CASE EmitConstants
    <2>1. CASE VersionGroup \in HeaderGroups(header)
        BY <1>4, <2>1, <1>1 DEF EmitConstants, Current, Emit
    <2>2. CASE VersionGroup \notin HeaderGroups(header)
        BY <1>4, <2>2 DEF EmitConstants, RegistryInv, CallbackTypesBefore
    <2>. QED  BY <2>1, <2>2
<1>5. CASE EmitCallbackTypes
    <2>. DEFINE new == RegisteredKeys(header)
    <2>1. callbacks' = [k \in DOMAIN callbacks \cup new |->
                          IF k \in new THEN Proto(header[TypeDef(header, k)])
                          ELSE callbacks[k]]
          /\ tpos' = tpos + 1 /\ template[tpos] = "CALLBACK_TYPES"
          /\ UNCHANGED <<header, template>>
        BY <1>5 DEF EmitCallbackTypes, Current, Emit
    <2>2. DOMAIN callbacks \cup new = new
        BY DEF TypeOK
    <2>3. CallbackTypesBefore(tpos')
        BY <1>0, <2>1, CallbackTypesBeforeStep
    <2>4. CallbackTypesBefore(tpos)' = CallbackTypesBefore(tpos')
        BY <2>1 DEF CallbackTypesBefore
    <2>5. \A k \in new : callbacks'[k] = Proto(header[TypeDef(header, k)])
        BY <2>1
    <2>. QED  BY <2>1, <2>2, <2>3, <2>4, <2>5 DEF RegistryInv
<1>6. CASE EmitFunctions
    BY <1>6, <1>1 DEF EmitFunctions, Current, Emit
<1>7. CASE Finish
    BY <1>7 DEF Finish, RegistryInv, CallbackTypesBefore
<1>8. CASE UNCHANGED vars
    BY <1>8 DEF vars, RegistryInv, CallbackTypesBefore
<1>. QED  BY <1>2, <1>3, <1>4, <1>5, <1>6, <1>7, <1>8 DEF Next

\* A %FUNCTIONS% block generated after %CALLBACK_TYPES% marshals every
\* callback parameter of every retained prototype: convert_fn finds the
\* parameter's type in the registry (line 163) and installs the typedef's
\* prototype code (lines 164-170).
LEMMA FreshBlockOK ==
    ASSUME TypeOK, RegistryInv, CallbackTypesBefore(tpos)
    PROVE  BlockOK([pos |-> tpos, line |-> "FUNCTIONS",
                    bindings |-> {Binding(header[i], callbacks) :
                                    i \in {j \in DOMAIN header :
                                             IsFn(header[j]) /\ header[j].name \notin IgnoredFns}}])
<1>. DEFINE fns == {j \in DOMAIN header : IsFn(header[j]) /\ header[j].name \notin IgnoredFns}
            blk == [pos |-> tpos, line |-> "FUNCTIONS",
                    bindings |-> {Binding(header[i], callbacks) : i \in fns}]
<1>0. header \in Seq(Decl) /\ DOMAIN callbacks = RegisteredKeys(header)
    BY ConstantsAssumption DEF TypeOK, RegistryInv
<1>. SUFFICES ASSUME NEW i \in DOMAIN header, IsFn(header[i]),
                    header[i].name \notin IgnoredFns,
                    NEW k \in RetainedCbParams(header[i])
             PROVE  Marshalled(blk, header[i], k)
    BY DEF BlockOK
<1>. DEFINE d == header[i]
            ty == d.params[k].type
<1>1. k \in DOMAIN d.params /\ ty \in RegisteredKeys(header)
    BY DEF RetainedCbParams
<1>2. ty \in CbKeys
    BY <1>0, <1>1, RegisteredFacts
<1>3. CToJs(ty) = ty
    BY <1>2, ConstantsAssumption DEF CToJs, MappedTypes
<1>4. ty \in DOMAIN callbacks /\ callbacks[ty] = Proto(header[TypeDef(header, ty)])
    BY <1>0, <1>1 DEF RegistryInv
<1>5. Binding(d, callbacks).name = d.name
    BY DEF Binding
<1>6. Binding(d, callbacks).args[k] = "number"
    BY <1>1, <1>3, <1>4 DEF Binding
<1>7. Binding(d, callbacks).tramps[k] = Proto(header[TypeDef(header, ty)])
    BY <1>1, <1>3, <1>4 DEF Binding
<1>8. TypeDef(header, ty) \in RegisteredIdx(header) /\ header[TypeDef(header, ty)].key = ty
    BY <1>1, TypeDefFacts
<1>9. Binding(d, callbacks) \in blk.bindings
    OBVIOUS
<1>. QED  BY <1>5, <1>6, <1>7, <1>8, <1>9 DEF Marshalled

\* Every step keeps MarshalledWhenRegisteredFirst: blocks already written
\* never change, and a new %FUNCTIONS% block is covered by FreshBlockOK.
LEMMA MarshalledStep ==
    ASSUME TypeOK, RegistryInv, MarshalledWhenRegisteredFirst, [Next]_vars
    PROVE  MarshalledWhenRegisteredFirst'
<1>0. MarshalledWhenRegisteredFirst <=> \A n \in DOMAIN out : BlockOK(out[n])
    BY DEF MarshalledWhenRegisteredFirst, BlockOK
<1>1. ASSUME UNCHANGED <<header, template, out>>
      PROVE  MarshalledWhenRegisteredFirst'
    BY <1>1 DEF MarshalledWhenRegisteredFirst, CallbackTypesBefore, Marshalled,
                RetainedCbParams
<1>2. ASSUME NEW blk, UNCHANGED <<header, template>>, out' = Append(out, blk),
             BlockOK(blk)
      PROVE  MarshalledWhenRegisteredFirst'
    <2>1. out \in Seq(Block_T)
        BY DEF TypeOK
    <2>2. \A n \in DOMAIN out' : BlockOK(out'[n])
        BY <1>0, <1>2, <2>1
    <2>3. \A b : BlockOK(b)' <=> BlockOK(b)
        BY <1>2 DEF BlockOK, CallbackTypesBefore, Marshalled, RetainedCbParams
    <2>. QED  BY <2>2, <2>3 DEF MarshalledWhenRegisteredFirst, BlockOK
<1>3. CASE WriteText
    BY <1>3, <1>2 DEF WriteText, Emit, BlockOK
<1>4. CASE DropUnknown
    BY <1>4, <1>1 DEF DropUnknown
<1>5. CASE EmitConstants
    BY <1>5, <1>1, <1>2 DEF EmitConstants, Emit, BlockOK
<1>6. CASE EmitCallbackTypes
    BY <1>6, <1>2 DEF EmitCallbackTypes, Emit, BlockOK
<1>7. CASE EmitFunctions
    <2>1. CASE CallbackTypesBefore(tpos)
        BY <1>7, <2>1, <1>2, FreshBlockOK DEF EmitFunctions, Emit
    <2>2. CASE ~CallbackTypesBefore(tpos)
        BY <1>7, <2>2, <1>2 DEF EmitFunctions, Emit, BlockOK
    <2>. QED  BY <2>1, <2>2
<1>8. CASE Finish
    BY <1>8, <1>1 DEF Finish
<1>9. CASE UNCHANGED vars
    BY <1>9, <1>1 DEF vars
<1>. QED  BY <1>3, <1>4, <1>5, <1>6, <1>7, <1>8, <1>9 DEF Next

(***************************************************************************)
(* For every header and every template that asks for %CALLBACK_TYPES%     *)
(* before %FUNCTIONS%, every callback parameter of every wrapper that      *)
(* convert_fn generates is marshalled through an addFunction trampoline   *)
(* with the prototype code of its typedef.  The order of the declarations *)
(* in the header does not matter; the order of the template lines does.   *)
(***************************************************************************)
THEOREM MarshalledInvariant == Spec => []MarshalledWhenRegisteredFirst
<1>1. Init => IInv
    BY ConstantsAssumption DEF Init, IInv, TypeOK, RegistryInv,
                               MarshalledWhenRegisteredFirst, CallbackTypesBefore
<1>2. IInv /\ [Next]_vars => IInv'
    BY TypeStep, RegistryStep, MarshalledStep DEF IInv
<1>3. IInv => MarshalledWhenRegisteredFirst
    BY DEF IInv
<1>. QED  BY <1>1, <1>2, <1>3, PTL DEF Spec
====
