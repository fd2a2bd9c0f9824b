---------------------------- MODULE VbarMapping ----------------------------
(***************************************************************************)
(* One page of a VBAR (ResidentPage in src/model-vbar.c, Windows XPU       *)
(* build), and what the functions that map, remap and release its physical *)
(* memory leave behind when the driver refuses a call half way.            *)
(*                                                                         *)
(* The driver may hand out a released handle again, so the value of a      *)
(* handle tells nothing about the memory behind it: a page either owns a   *)
(* handle or not.  A token is the prefix of a queue it stands for (see     *)
(* RetireContract), and zero is no token.                                  *)
(***************************************************************************)
EXTENDS Integers

CONSTANT Queues

NoTokens == [q \in Queues |-> 0]

NoSignature == -1

\* The last two fields are not in the program: whether the physical memory
\* holds what the application copied to it, and the signature the application
\* remembers for the page.
AbsentPage ==
    [handle |-> FALSE, mapped |-> "unmapped", pin |-> 0, serial |-> 0,
     evicting |-> FALSE, gen |-> 0, external |-> 0, capture |-> 0,
     tokens |-> NoTokens, unknown |-> FALSE, content |-> FALSE,
     known |-> NoSignature]

\* vbar_page_is_mapped, vbar_consumer_held
IsMapped(r) == r.handle /\ r.mapped = "mapped"
Held(r)     == r.external > 0 \/ r.capture > 0

\* vbar_page_cancel_eviction
Canceled(r) == IF r.evicting THEN [r EXCEPT !.evicting = FALSE, !.gen = @ + 1]
                             ELSE r

\* vbar_retire_record: the latest token of each queue.  Unknown consumers are
\* recorded by the callers.
Recorded(r, token) ==
    IF token.upto > r.tokens[token.queue]
    THEN [r EXCEPT !.tokens[token.queue] = token.upto] ELSE r

\* vbar_retire_complete
RetireComplete(r, frontier) ==
    ~r.unknown /\ ~Held(r) /\ \A q \in Queues : r.tokens[q] <= frontier[q]

\* What every scan for candidates asks of a page.
Idle(r) == IsMapped(r) /\ r.pin = 0 /\ ~Held(r) /\ ~r.evicting

-----------------------------------------------------------------------------
(* Outcomes of the driver sequences.  An outcome is the page it leaves, what *)
(* it adds to total_vram_usage and to resident_count (in pages), the number  *)
(* of driver calls that failed on the way, and the result of the function.   *)

Outcome(r, total, resident, failed, result) ==
    [page |-> r, total |-> total, resident |-> resident, failed |-> failed,
     result |-> result]

Limbo(r) == [r EXCEPT !.mapped = "unknown", !.unknown = TRUE]

\* Mutant of Restored: a page mapped again does not count as resident.
Restored_NotCounted(r, counted) ==
    { Outcome([r EXCEPT !.mapped = "mapped"], 0, 0, 0, "ok"),
      Outcome([r EXCEPT !.mapped = "unmapped"], 0, 0, 1, "error"),
      Outcome(Limbo(r), 0, 0, 2, "error") }

\* vbar_restore_page_mapping of a page that owns a handle; counted is its
\* restore_resident_count.
Restored(r, counted) ==
    { Outcome([r EXCEPT !.mapped = "mapped"], 0, counted, 0, "ok"),
      Outcome([r EXCEPT !.mapped = "unmapped"], 0, 0, 1, "error"),
      Outcome(Limbo(r), 0, 0, 2, "error") }

\* vbar_map_new_page.  A retained handle is recovered before another page is
\* created; a page that cannot be mapped or given access is released, and if
\* that fails its handle is kept.
MappedNew(r) ==
    LET fresh == [r EXCEPT !.handle = TRUE, !.content = FALSE]
    IN  IF r.handle /\ r.mapped = "unknown" THEN {Outcome(r, 0, 0, 0, "error")}
        ELSE IF r.handle THEN Restored(r, 0)
        ELSE { Outcome([fresh EXCEPT !.mapped = "mapped"], 1, 0, 0, "ok"),
               Outcome(r, 0, 0, 0, "oom") } \cup
             UNION { { Outcome(r, 0, 0, 1, why),            \* create, map or access
                       Outcome(fresh, 1, 0, 2, why),        \* then release
                       Outcome(Limbo(fresh), 1, 0, 2, why)  \* access, then unmap
                     } : why \in {"oom", "error"} }


\* mod1 of a mapped page that nobody owns: unmap and release.  A failed release
\* is undone by mapping the page again.
Released(r) ==
    LET kept == [r EXCEPT !.evicting = FALSE]
    IN  IF r.unknown THEN { Outcome(kept, 0, 0, 0, "kept") } ELSE
        { Outcome([kept EXCEPT !.handle = FALSE, !.mapped = "unmapped",
                               !.tokens = NoTokens, !.unknown = FALSE,
                               !.content = FALSE], -1, -1, 0, "freed"),
          Outcome(kept, 0, 0, 1, "kept"),                   \* unmap, or release
          Outcome([kept EXCEPT !.mapped = "unmapped", !.unknown = TRUE],
                  0, -1, 2, "kept"),                        \* release, then map
          Outcome(Limbo(kept), 0, -1, 3, "kept") }          \* ... then unmap
=============================================================================
