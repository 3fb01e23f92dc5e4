------------------------------ MODULE Wcall2ts ------------------------------
(***************************************************************************)
(* The main loop of src/scripts/wcall2ts.py: the template is read line by  *)
(* line; a line %CONSTANTS%, %CALLBACK_TYPES% or %FUNCTIONS% is replaced   *)
(* by the block the matching generator builds from the whole header, any   *)
(* other %NAME% line is dropped and every other line is copied.            *)
(*                                                                         *)
(* The header is given after comment stripping and statement reassembly,  *)
(* as a sequence of declarations (modules CommentStripper and Scanner of  *)
(* the plan model those passes).  A C type is its spelling after          *)
(* parse_param (a leading '*' of the name moved onto the type, 'const'    *)
(* dropped).  The callback registry 'callbacks' is the module-global dict *)
(* of the script: it maps the pointer spelling of a typedef ("name*") to  *)
(* the typedef's prototype code, and it is filled only while the          *)
(* %CALLBACK_TYPES% block is generated.                                   *)
(***************************************************************************)
EXTENDS Naturals, Sequences, FiniteSets

CONSTANTS
    Headers,        \* the headers a run may read: sequences of declarations
    Templates,      \* the templates a run may read: sequences of TemplateLine
    CbKeys,         \* pointer spellings "<typedef>*" of callback typedefs
    OtherTypes,     \* spellings outside the script's tables (passed through)
    OtherPointers,  \* the ones among OtherTypes that end in '*'
    FnNames,        \* function names
    ConstGroups,    \* first segments of WCALL_<GROUP>_... macro names
    Alias           \* Alias[k]: convert_to_camel(<typedef>, True) + "andler"

(***************************************************************************)
(* The fixed tables of c2jstype / c2tstype (lines 43-72).                  *)
(***************************************************************************)
NumberTypes == {"int", "WUSER_HANDLE", "size_t", "int8_t", "int16_t",
                "int32_t", "uint8_t", "uint16_t", "uint32_t", "void*"}
StringTypes == {"char*", "uint8_t*"}
MappedTypes == NumberTypes \cup StringTypes \cup {"void"}
CTypes == MappedTypes \cup CbKeys \cup OtherTypes

\* convert_fn's 'ignored' list and convert_cb's 'ignore' list
IgnoredFns == {"wcall_setup", "wcall_handle_frame", "wcall_get_members",
               "wcall_free_members", "wcall_thread_main", "wcall_netprobe",
               "wcall_debug", "wcall_stats", "wcall_dce_send",
               "wcall_set_media_laddr", "wcall_run"}
IgnoredCb == "wcall_render_frame_h*"

\* The seeded enum group and the group convert_constants deletes.
SeededGroup == "ERROR"
VersionGroup == "VERSION"

Placeholders == {"CONSTANTS", "CALLBACK_TYPES", "FUNCTIONS"}
\* A template line: "text", one of the placeholders, or "OTHER" for a line
\* that matches %\w+% with an unknown name.
TemplateLine == {"text", "OTHER"} \cup Placeholders

Param == [type : CTypes, opt : BOOLEAN]
Decl == [kind : {"fn"}, name : FnNames, ret : CTypes, params : Seq(Param)]
   \cup [kind : {"cb"}, key : CbKeys, ret : CTypes, params : Seq(Param)]
   \cup [kind : {"const"}, grp : ConstGroups]

IsCb(d) == d.kind = "cb"
IsFn(d) == d.kind = "fn"
IsConst(d) == d.kind = "const"

ASSUME ConstantsAssumption ==
    /\ Headers \subseteq Seq(Decl)
    /\ Templates \subseteq Seq(TemplateLine)
    /\ Headers # {} /\ Templates # {}
    /\ IgnoredCb \in CbKeys
    /\ OtherPointers \subseteq OtherTypes
    /\ OtherTypes \cap (MappedTypes \cup CbKeys) = {}
    /\ CbKeys \cap MappedTypes = {}
    /\ \A h \in Headers : \A i, j \in DOMAIN h :
          (IsCb(h[i]) /\ IsCb(h[j]) /\ h[i].key = h[j].key) => h[i] = h[j]
    /\ {SeededGroup, VersionGroup} \subseteq ConstGroups
    /\ Alias \in [CbKeys -> STRING]
    /\ \A k \in CbKeys : Alias[k] \notin {"number", "string", "void", "any"} \cup OtherTypes

VARIABLES
    header,     \* the declarations of the header (read once, never changed)
    template,   \* the lines of the template (read once, never changed)
    tpos,       \* index of the next template line of the loop at line 451
    callbacks,  \* the global registry: pointer spelling -> prototype code
    out,        \* the destination file: a sequence of written blocks
    status      \* "running", "done", or "crashed" (uncaught exception)

vars == <<header, template, tpos, callbacks, out, status>>

\* Mutant of CToJs: the commented-out branch of lines 53-54 restored, every
\* pointer spelling (a callback pointer included) is a "number".
CToJsPointerNumber(ty) ==
    CASE ty \in NumberTypes \cup CbKeys \cup OtherPointers -> "number"
      [] ty \in StringTypes -> "string"
      [] ty = "void"        -> "null"
      [] OTHER              -> ty

(***************************************************************************)
(* c2jstype (lines 43-56): the shallow tag of the ccall boundary.  A      *)
(* spelling outside the table is returned unchanged.                      *)
(***************************************************************************)
CToJs(ty) ==
    CASE ty \in NumberTypes -> "number"
      [] ty \in StringTypes -> "string"
      [] ty = "void"        -> "null"
      [] OTHER              -> ty

(***************************************************************************)
(* c2tstype (lines 58-72) against the keys of the registry: the surface   *)
(* type of the signature; a registered callback becomes its alias, other  *)
(* pointers become 'any', anything else is returned unchanged.           *)
(***************************************************************************)
CToTs(ty, keys) ==
    CASE ty \in NumberTypes -> "number"
      [] ty \in StringTypes -> "string"
      [] ty = "void"        -> "void"
      [] ty \in keys        -> Alias[ty]
      [] ty \in OtherPointers \cup CbKeys -> "any"
      [] OTHER              -> ty

(***************************************************************************)
(* One character of a prototype code (convert_cb, lines 233-242): 'v' for *)
(* a void return, else the first letter of the shallow tag; an unmapped   *)
(* spelling contributes its own first letter, written "?".                *)
(***************************************************************************)
ProtoChar(ty) ==
    CASE CToJs(ty) = "number" -> "n"
      [] CToJs(ty) = "string" -> "s"
      [] CToJs(ty) = "null"   -> "n"
      [] OTHER                -> "?"

Proto(d) ==
    <<IF d.ret = "void" THEN "v" ELSE ProtoChar(d.ret)>>
        \o [i \in DOMAIN d.params |-> ProtoChar(d.params[i].type)]


\* The typedefs convert_cb registers: every callback typedef but the ignored one.
RegisteredIdx(h) == {i \in DOMAIN h : IsCb(h[i]) /\ h[i].key # IgnoredCb}
RegisteredKeys(h) == {h[i].key : i \in RegisteredIdx(h)}

\* The typedef registered under key k (line 255).  A later typedef of the
\* same name would overwrite the entry; C allows such a redeclaration only
\* when it is identical (ConstantsAssumption), so any of them is the one.
TypeDef(h, k) == CHOOSE i \in RegisteredIdx(h) : h[i].key = k

\* convert_fn's result for prototype d under registry cb (lines 126-215);
\* tramps[i] is the prototype code given to addFunction for argument i, or
\* <<>> when the argument is passed as it is.
\* The signature is built from the shallow tags before the trampolines
\* replace the callback arguments (lines 147-153 run before 162-171).
Binding(d, cb) ==
    LET tag(i) == CToJs(d.params[i].type)
        tramp  == {i \in DOMAIN d.params : tag(i) \in DOMAIN cb}
    IN  [name   |-> d.name,
         ret    |-> CToJs(d.ret),
         sig    |-> [i \in DOMAIN d.params |-> CToTs(tag(i), DOMAIN cb)],
         rets   |-> CToTs(d.ret, DOMAIN cb),
         args   |-> [i \in DOMAIN d.params |->
                        IF i \in tramp THEN "number" ELSE tag(i)],
         tramps |-> [i \in DOMAIN d.params |->
                        IF i \in tramp THEN cb[tag(i)] ELSE <<>>]]

\* convert_cb's exported alias for typedef d (lines 218-260), whose parameter
\* types see the keys registered so far; an optional parameter widens to
\* "<type> | undefined" (parse_param, lines 106-108).
CbType(d, keys) ==
    [key   |-> d.key,
     proto |-> Proto(d),
     sig   |-> [i \in DOMAIN d.params |->
                  [type |-> CToTs(d.params[i].type, keys),
                   orUndefined |-> d.params[i].opt]]]

HeaderGroups(h) == {SeededGroup} \cup {h[i].grp : i \in {j \in DOMAIN h : IsConst(h[j])}}
------------------------------------------------------------------------------
Init ==
    /\ header \in Headers
    /\ template \in Templates
    /\ tpos = 1
    /\ callbacks = [k \in {} |-> <<>>]
    /\ out = <<>>
    /\ status = "running"

\* The line the loop at line 451 looks at, when there is one.
Current(l) == status = "running" /\ tpos <= Len(template) /\ template[tpos] = l

\* Mutant of Emit: the loop index advances twice after a written line.
EmitSkip(block) ==
    /\ out' = Append(out, block)
    /\ tpos' = tpos + 2

Emit(block) ==
    /\ out' = Append(out, block)
    /\ tpos' = tpos + 1

\* write_ln(outfile, tl) for a line that is not a placeholder (line 462).
WriteText ==
    /\ Current("text")
    /\ Emit([pos |-> tpos, line |-> "text"])
    /\ UNCHANGED <<header, template, callbacks, status>>

\* A %NAME% line with an unknown NAME matches line 452 and writes nothing.
DropUnknown ==
    /\ Current("OTHER")
    /\ tpos' = tpos + 1
    /\ UNCHANGED <<header, template, callbacks, out, status>>

\* %CONSTANTS%: convert_constants (lines 305-356) seeds ERROR, groups the
\* macros and deletes 'VERSION'; the del raises KeyError when the header has
\* no WCALL_VERSION_* macro, and the script stops with the file half written.
EmitConstants ==
    /\ Current("CONSTANTS")
    /\ IF VersionGroup \in HeaderGroups(header)
       THEN /\ Emit([pos |-> tpos, line |-> "CONSTANTS",
                     enums |-> HeaderGroups(header) \ {VersionGroup}])
            /\ UNCHANGED status
       ELSE /\ status' = "crashed"
            /\ UNCHANGED <<tpos, out>>
    /\ UNCHANGED <<header, template, callbacks>>

\* %CALLBACK_TYPES%: convert_callbacks (lines 358-379) runs convert_cb on
\* every typedef of the header; each registers its key in the global dict.
EmitCallbackTypes ==
    LET new == RegisteredKeys(header)
        cb  == [k \in DOMAIN callbacks \cup new |->
                  IF k \in new THEN Proto(header[TypeDef(header, k)])
                  ELSE callbacks[k]]
    IN  /\ Current("CALLBACK_TYPES")
        /\ callbacks' = cb
        /\ Emit([pos |-> tpos, line |-> "CALLBACK_TYPES",
                 types |-> {CbType(header[i], DOMAIN callbacks \cup
                                     {header[j].key : j \in {j \in RegisteredIdx(header) : j < i}})
                              : i \in RegisteredIdx(header)}])
        /\ UNCHANGED <<header, template, status>>

\* %FUNCTIONS%: convert_functions (lines 381-401) runs convert_fn on every
\* prototype; the ignored names produce nothing.
EmitFunctions ==
    /\ Current("FUNCTIONS")
    /\ Emit([pos |-> tpos, line |-> "FUNCTIONS",
             bindings |-> {Binding(header[i], callbacks) :
                             i \in {j \in DOMAIN header :
                                      IsFn(header[j]) /\ header[j].name \notin IgnoredFns}}])
    /\ UNCHANGED <<header, template, callbacks, status>>

\* The loop ends with the last template line and the script exits.
Finish ==
    /\ status = "running"
    /\ tpos > Len(template)
    /\ status' = "done"
    /\ UNCHANGED <<header, template, tpos, callbacks, out>>

Next ==
    \/ WriteText
    \/ DropUnknown
    \/ EmitConstants
    \/ EmitCallbackTypes
    \/ EmitFunctions
    \/ Finish

\* The script is one sequential loop: each enabled step is eventually taken.
Spec == Init /\ [][Next]_vars /\ WF_vars(Next)
------------------------------------------------------------------------------
ProtoCode == Seq({"v", "n", "s", "?"})
JsTag == {"number", "string", "null"} \cup CbKeys \cup OtherTypes
TsType == {"number", "string", "void", "any", "null"} \cup OtherTypes
              \cup {Alias[k] : k \in CbKeys}

Binding_T == [name : FnNames, ret : JsTag, rets : TsType, sig : Seq(TsType),
              args : Seq(JsTag), tramps : Seq(ProtoCode)]
CbType_T == [key : CbKeys, proto : ProtoCode,
             sig : Seq([type : TsType, orUndefined : BOOLEAN])]
Block_T == [pos : Nat, line : {"text"}]
      \cup [pos : Nat, line : {"CONSTANTS"}, enums : SUBSET ConstGroups]
      \cup [pos : Nat, line : {"CALLBACK_TYPES"}, types : SUBSET CbType_T]
      \cup [pos : Nat, line : {"FUNCTIONS"}, bindings : SUBSET Binding_T]

\* The type invariant.
TypeOK ==
    /\ header \in Headers
    /\ template \in Templates
    /\ tpos \in 1..Len(template) + 1
    /\ DOMAIN callbacks \in {{}, RegisteredKeys(header)}
    /\ callbacks \in [DOMAIN callbacks -> ProtoCode]
    /\ out \in Seq(Block_T)
    /\ \A i \in DOMAIN out : out[i].pos \in 1..(tpos - 1)
    /\ status \in {"running", "done", "crashed"}
------------------------------------------------------------------------------
\* A %CALLBACK_TYPES% line precedes template line p.
CallbackTypesBefore(p) == \E j \in 1..(p - 1) : template[j] = "CALLBACK_TYPES"

\* The binding of a retained prototype d in a %FUNCTIONS% block marshals
\* its k-th parameter through a trampoline: the ccall argument is the
\* handle ("number") and the installed prototype code is the one of a
\* typedef of the header declaring that parameter's type.
Marshalled(blk, d, k) ==
    \E b \in blk.bindings :
        /\ b.name = d.name
        /\ b.args[k] = "number"
        /\ \E j \in RegisteredIdx(header) :
               header[j].key = d.params[k].type /\ b.tramps[k] = Proto(header[j])

RetainedCbParams(d) ==
    {k \in DOMAIN d.params : d.params[k].type \in RegisteredKeys(header)}

(***************************************************************************)
(* Every callback parameter of every generated wrapper is installed as a  *)
(* trampoline, whatever the order of the declarations in the header, as   *)
(* long as the template asks for %CALLBACK_TYPES% before %FUNCTIONS%:     *)
(* convert_fn reads the global 'callbacks' dict that convert_cb fills.    *)
(***************************************************************************)
MarshalledWhenRegisteredFirst ==
    \A n \in DOMAIN out :
        (out[n].line = "FUNCTIONS" /\ CallbackTypesBefore(out[n].pos)) =>
            \A i \in DOMAIN header :
                (IsFn(header[i]) /\ header[i].name \notin IgnoredFns) =>
                    \A k \in RetainedCbParams(header[i]) : Marshalled(out[n], header[i], k)

(***************************************************************************)
(* The spec's ownership rule (section 3): every callback parameter of     *)
(* every generated wrapper is marshalled through a trampoline.  The code  *)
(* meets it only for templates that place %CALLBACK_TYPES% first.        *)
(***************************************************************************)
CallbackParamsMarshalled ==
    \A n \in DOMAIN out :
        out[n].line = "FUNCTIONS" =>
            \A i \in DOMAIN header :
                (IsFn(header[i]) /\ header[i].name \notin IgnoredFns) =>
                    \A k \in RetainedCbParams(header[i]) : Marshalled(out[n], header[i], k)

(***************************************************************************)
(* Spec section 7: a header declaration never aborts the run; the script  *)
(* always processes the whole template.  convert_constants deletes the    *)
(* VERSION group unconditionally (line 325), so a template with           *)
(* %CONSTANTS% and a header without WCALL_VERSION_* macros stops the      *)
(* script with a KeyError and a half-written output file.                 *)
(***************************************************************************)
RunCompletes == <>(status = "done")
==============================================================================
