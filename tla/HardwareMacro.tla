--------------------------- MODULE HardwareMacro ----------------------------
(***************************************************************************)
(* The #[hardware] attribute (copper-macros/src/lib.rs): the checks a body *)
(* must pass, and the rewriting of its input reads, a read the analysis    *)
(* calls Deferred waiting for the pre-edge settle first.                   *)
(***************************************************************************)
EXTENDS Cfg

Barrier == [k |-> "barrier"]       \* pre_edge_barrier().await

(* The rewriter numbers the reads it meets as the analysis did and looks   *)
(* each one's timing up by that number: tags are those still to be met.    *)
OwnReads(s) == Len(FlatMap(Exprs(s), LAMBDA e : Leafs(e, "in")))

(* A statement after its blocks are rewritten; mine are its own tags. *)
Synced(t, mine) ==
    IF "Deferred" \notin ToSet(mine) THEN <<t>>
    ELSE IF t.k = "while" THEN <<Loop(<<Barrier, If(Not(t.e), <<Break>>, <<>>)>> \o t.a)>>
    ELSE <<Barrier, t>>

RECURSIVE ReadRewriter(_, _)
RewriteBlocks(s, tags0) ==
    FoldLeft(LAMBDA c, b : LET r == ReadRewriter(b, c.tags) IN [out |-> Append(c.out, r.out), tags |-> r.tags],
             [out |-> <<>>, tags |-> tags0], Blocks(s))
Rewritten(acc, s, mine, in) == [out |-> acc.out \o Synced(WithBlocks(s, in.out), mine), tags |-> in.tags]
ReadRewriter(ss, tags0) ==
    FoldLeft(LAMBDA acc, s : LET n == OwnReads(s) IN
               Rewritten(acc, s, SubSeq(acc.tags, 1, n), RewriteBlocks(s, SubSeq(acc.tags, n + 1, Len(acc.tags)))),
             [out |-> <<>>, tags |-> tags0], ss)

WithBody(mod, ss) == [mod EXCEPT !.pre = Front(ss), !.body = Last(ss).a]
inject_synced_reads(mod) == WithBody(mod, ReadRewriter(mod.pre \o <<Loop(mod.body)>>, classify_reads(mod)).out)

(* The outputs whose timing would differ from the hardware's; a module may *)
(* opt out of these checks.                                                *)
alignment_hazards(c) ==
    IF unprotected_pretick_out_write(c) \cup unprotected_trailing_out_write(c) # {} THEN "UnprotectedOutWrite"
    ELSE IF pretick_out_write_before_update(c) # {} THEN "WriteBeforeUpdate"
    ELSE IF multi_phase_out_write(c) # {} THEN "MultiPhaseOutWrite"
    ELSE ""

(* The objection to a body, or "" when it compiles. *)
hardware_checks(mod, c) ==
    IF ~check_reachability(c) THEN "Unclocked"
    ELSE IF multi_write_collapse(c) # {} THEN "MultiWriteCollapse"
    ELSE IF mod.allow_pretick THEN ""
    ELSE alignment_hazards(c)

hardware_clocked(mod) == hardware_checks(mod, build(mod))

hardware_combinational(mod) ==
    IF check_definite_assignment(build_combinational(mod)) THEN "" ELSE "PartialAssignment"

hardware(mod) == IF mod.clocked THEN hardware_clocked(mod) ELSE hardware_combinational(mod)

(* The transpiler asks again, of sources that were never compiled. *)
clocked_checks(mod, c) ==
    IF ~check_reachability(c) THEN "Unclocked"
    ELSE IF ~mod.allow_pretick /\ multi_phase_out_write(c) # {} THEN "MultiPhaseOutWrite"
    ELSE IF ~check_memory_staging(c) THEN "MemoryStaging"
    ELSE IF memory_result_drives_plain_out(c) # {} THEN "MemoryDrivesOut"
    ELSE ""

transpile_checks(mod) == IF mod.clocked THEN clocked_checks(mod, build(mod)) ELSE ""
=============================================================================
