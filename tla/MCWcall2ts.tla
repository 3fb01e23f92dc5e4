----------------------------- MODULE MCWcall2ts -----------------------------
(***************************************************************************)
(* Small instance of Wcall2ts for TLC.  The declarations are the shapes   *)
(* of avs_wcall.h that matter to the generator: a callback typedef, the   *)
(* ignored frame-rendering typedef, a prototype taking a callback, one    *)
(* taking the ignored callback, an ignored prototype, and two macro       *)
(* groups, one of them VERSION.  A header is any ordering of up to three  *)
(* distinct declarations; a template is any sequence of up to three lines.*)
(***************************************************************************)
EXTENDS Wcall2ts

P(t, o) == [type |-> t, opt |-> o]

DReady  == [kind |-> "cb", key |-> "wcall_ready_h*", ret |-> "void",
            params |-> <<P("int", FALSE), P("char*", TRUE), P("void*", FALSE)>>]
DRender == [kind |-> "cb", key |-> "wcall_render_frame_h*", ret |-> "int",
            params |-> <<P("void*", FALSE)>>]
DCreate == [kind |-> "fn", name |-> "wcall_create", ret |-> "int",
            params |-> <<P("char*", FALSE), P("wcall_ready_h*", FALSE),
                         P("void*", FALSE)>>]
DVideo  == [kind |-> "fn", name |-> "wcall_set_video_handlers", ret |-> "void",
            params |-> <<P("wcall_render_frame_h*", FALSE), P("void*", FALSE)>>]
DSetup  == [kind |-> "fn", name |-> "wcall_setup", ret |-> "int", params |-> <<>>]
DVersion == [kind |-> "const", grp |-> "VERSION"]
DCall    == [kind |-> "const", grp |-> "CALL"]

Distinct(s) == \A i, j \in DOMAIN s : i # j => s[i] # s[j]
SeqsUpTo(S, n) == UNION {[1..m -> S] : m \in 0..n}

MCCbKeys == {"wcall_ready_h*", "wcall_render_frame_h*"}
MCOtherTypes == {"uint64_t"}
MCOtherPointers == {}
MCFnNames == {"wcall_create", "wcall_set_video_handlers", "wcall_setup"}
MCConstGroups == {"ERROR", "VERSION", "CALL"}
MCAlias == [k \in MCCbKeys |->
              IF k = "wcall_ready_h*" THEN "ReadyHandler" ELSE "RenderFrameHandler"]

MCHeaders ==
    {h \in SeqsUpTo({DReady, DRender, DCreate, DVideo, DSetup, DVersion, DCall}, 3) :
        Distinct(h)}
MCTemplates == SeqsUpTo(TemplateLine, 3)
\* Headers of at most two declarations, for the run that checks liveness.
MCShortHeaders == {h \in MCHeaders : Len(h) <= 2}
==============================================================================
