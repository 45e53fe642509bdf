------------------------------ MODULE CodeCache ------------------------------
(***************************************************************************)
(* Self-modifying code under the hot-block JIT of the x86-64 vCPU: the     *)
(* bitmap of code pages and the journal of writes to them (memory.rs), the *)
(* drain at every instruction boundary, hotness sampling, the cache of     *)
(* native regions, the memo of heads that cannot be compiled, and the      *)
(* region in flight with its call-outs to the interpreter (cpu.rs,         *)
(* cpu_jit_state.rs, cpu_jit_call.rs).                                     *)
(*                                                                         *)
(* A page of guest RAM holds one of a few contents.  The guest is free: an *)
(* instruction may store to any page, remap pages and jump anywhere.  The  *)
(* interpreter checks its decode cache against the bytes at each fetch, so *)
(* the decode cache has no state here; native regions are not checked, and *)
(* depend on the journal.                                                  *)
(*                                                                         *)
(* The journal is keyed by virtual page.  Bypasses says which changes of   *)
(* code the guest may make behind its back:                                *)
(*   "alias"    a store through another virtual page of the same frame;    *)
(*   "dma"      a device writes the frame;                                 *)
(*   "reload"   a translation is changed and CR3 loaded, with no INVLPG;   *)
(*   "callout"  the callee of a region in flight changes a translation the *)
(*              region runs from.                                          *)
(***************************************************************************)
EXTENDS Naturals, FiniteSets

CONSTANTS Spaces,          \* values of jit_mode_tag: address space and CPU mode
          Frames,          \* frames of guest RAM
          Contents,        \* what a frame may hold
          Unliftable,      \* contents that cannot be compiled when a head is on them
          LastPage,        \* virtual pages are 0..LastPage
          PAGE_SIZE,       \* addresses in a page
          Entries,         \* addresses at which an instruction of the guest starts
          LIFT_WINDOW,     \* addresses read when compiling a head (JIT_LIFT_WINDOW)
          HOT_THRESHOLD,   \* JIT_HOT_THRESHOLD
          INELIGIBLE_CAP,  \* JIT_INELIGIBLE_CAP
          BITMAP_BITS,     \* bits of code_page_bitmap
          Bypasses

ASSUME SizesAssumption ==
  /\ LastPage \in Nat /\ HOT_THRESHOLD \in Nat \ {0} /\ INELIGIBLE_CAP \in Nat \ {0}
  /\ PAGE_SIZE \in Nat \ {0} /\ BITMAP_BITS \in Nat \ {0}
  /\ LIFT_WINDOW \in 1..PAGE_SIZE

VARIABLES memory, page_table, cr3, rip, phase, rip_before, return_pc,
          code_page_bitmap, smc_dirty_pages,
          jit_cache, jit_hot, jit_ineligible, jit_ineligible_dirty,
          active, jit_active_region_stale

guest == <<memory, page_table, cr3>>
loop == <<rip, phase, rip_before, return_pc>>
mmu == <<code_page_bitmap, smc_dirty_pages>>
caches == <<jit_cache, jit_hot, jit_ineligible, jit_ineligible_dirty>>
region == <<active, jit_active_region_stale>>
vars == <<guest, loop, mmu, caches, region>>

Pages == 0..LastPage
Addresses == 0..((LastPage + 1) * PAGE_SIZE - 1)
PageOf(a) == a \div PAGE_SIZE

ASSUME EntriesAssumption == Entries \subseteq Addresses /\ 0 \in Entries

(* What a fetch at page p of address space s returns. *)
Current(s, p) == memory[page_table[s][p]]

-----------------------------------------------------------------------------
(* The MMU's bitmap and journal.  Pages that share a bit are all taken for *)
(* code pages.                                                             *)
code_page_index(p) == p % BITMAP_BITS

mark_code_page(pages) == code_page_bitmap \cup {code_page_index(p) : p \in pages}

is_code_page(p) == code_page_index(p) \in code_page_bitmap

(* Every store notes the page of its first byte and that of its last one.  *)
(* The fetch of the storing instruction has already marked its own page.   *)
note_smc(first, last) ==
  smc_dirty_pages \cup {p \in {first, last} : code_page_index(p) \in code_page_bitmap'}

-----------------------------------------------------------------------------
(* The pages of the lift window of head h, as far as they are mapped, and  *)
(* their contents.                                                         *)
Window(h) == (PageOf(h)..PageOf(h + LIFT_WINDOW - 1)) \cap Pages

jit_code_snapshot(h) == [p \in Window(h) |-> Current(cr3, p)]

(* The regions that compiling head h may yield.  The lifter chooses which  *)
(* pages of the window contribute instructions; the head's always does.    *)
jit_compile_region(h) ==
  IF Current(cr3, PageOf(h)) \in Unliftable THEN {}
  ELSE {[head |-> h, space |-> cr3, source_pages |-> S,
         seen |-> [p \in S |-> Current(cr3, p)]] :
          S \in {T \in SUBSET Window(h) : PageOf(h) \in T}}

jit_enter_regionUnmarked(r) ==   \* slip: the pages are not marked
  /\ active' = {r}
  /\ jit_active_region_stale' = FALSE
  /\ code_page_bitmap' = code_page_bitmap
  /\ phase' = "native"

jit_enter_region(r) ==
  /\ active' = {r}
  /\ jit_active_region_stale' = FALSE
  /\ code_page_bitmap' = mark_code_page(r.source_pages)
  /\ phase' = "native"

(* Back to the run loop, from native code or from a call-out. *)
jit_leave_region ==
  /\ active' = {}
  /\ jit_active_region_stale' = FALSE
  /\ phase' = "boundary"

-----------------------------------------------------------------------------
(* invalidate_code_page for every page of D.  The range test on the active *)
(* region is over its first and last source pages; heads and memos go by   *)
(* the entry page and the one after it.                                    *)
InSourceRange(r, p) == \E first, last \in r.source_pages : first <= p /\ p <= last

overlapsEntryOnly(h, D) == PageOf(h) \in D   \* slip: the next page is forgotten

overlaps(h, D) == PageOf(h) \in D \/ PageOf(h) + 1 \in D

KeptRegions(D) == {r \in jit_cache : r.source_pages \cap D = {}}

invalidate_code_pages(D) ==
  /\ jit_active_region_stale' =
       (jit_active_region_stale \/ \E r \in active, p \in D : InSourceRange(r, p))
  /\ jit_cache' = KeptRegions(D)
  /\ jit_hot' = [h \in Entries |-> IF overlaps(h, D) THEN 0 ELSE jit_hot[h]]
  /\ jit_ineligible_dirty' =
       jit_ineligible_dirty
         \cup {<<m.head, m.space>> : m \in {n \in jit_ineligible : overlaps(n.head, D)}}

drain_smc ==
  /\ invalidate_code_pages(smc_dirty_pages)
  /\ smc_dirty_pages' = {}
  /\ UNCHANGED <<guest, rip, rip_before, return_pc, code_page_bitmap, jit_ineligible, active>>

(* The top of an iteration of run(). *)
Drain ==
  /\ phase = "boundary"
  /\ drain_smc
  /\ phase' = "dispatch"

-----------------------------------------------------------------------------
(* Which changes of code the guest keeps out of the journal's sight.  A    *)
(* change outside the pages of W leaves the code of every cached region    *)
(* and the journalled pages of every memo as they were.                    *)
KeepsCached(W) ==
  /\ \A r \in jit_cache' : \A p \in r.source_pages \ W :
       memory'[page_table'[r.space][p]] = Current(r.space, p)
  /\ \A m \in jit_ineligible' : \A p \in m.marked \ W :
       memory'[page_table'[m.space][p]] = Current(m.space, p)

KeepsActive(W) ==
  \A r \in active : \A p \in r.source_pages \ W :
    memory'[page_table'[cr3'][p]] = Current(cr3, p)

(* The bytes of pages first..last change to c. *)
Write(first, last, c) ==
  /\ memory' = [f \in Frames |->
                  IF \E p \in first..last : page_table[cr3][p] = f THEN c ELSE memory[f]]
  /\ UNCHANGED <<page_table, cr3>>
  /\ "alias" \in Bypasses \/ (KeepsCached({first, last}) /\ KeepsActive({first, last}))

(* The stores a guest makes: within a page, or across two. *)
Stores == {w \in Pages \X Pages : w[2] = w[1] \/ w[2] = w[1] + 1}

(* INVLPG after a change of the page tables, and the caches it empties. *)
invalidate_linear_translation(s, p, f) ==
  /\ page_table' = [page_table EXCEPT ![s][p] = f]
  /\ jit_cache' = {}
  /\ jit_hot' = [h \in Entries |-> 0]
  /\ jit_ineligible' = {}
  /\ jit_ineligible_dirty' = {}
  /\ UNCHANGED <<memory, cr3>>
  /\ "callout" \in Bypasses \/ KeepsActive({})

(* MOV to CR3, after a change of the page tables; only the TLB is flushed. *)
mov_to_cr3(t, s, p, f) ==
  /\ page_table' = [page_table EXCEPT ![s][p] = f]
  /\ cr3' = t
  /\ UNCHANGED <<memory, caches>>
  /\ "reload" \in Bypasses \/ KeepsCached({})
  /\ "callout" \in Bypasses \/ KeepsActive({})

(* One interpreted instruction. *)
step ==
  /\ code_page_bitmap' = mark_code_page({PageOf(rip)})
  /\ rip' \in Entries
  /\ \/ /\ UNCHANGED <<guest, smc_dirty_pages, caches>>
     \/ \E w \in Stores, c \in Contents :
          /\ UNCHANGED caches
          /\ smc_dirty_pages' = note_smc(w[1], w[2])
          /\ Write(w[1], w[2], c)
     \/ \E s \in Spaces, p \in Pages, f \in Frames :
          /\ UNCHANGED smc_dirty_pages
          /\ \/ invalidate_linear_translation(s, p, f)
             \/ \E t \in Spaces : mov_to_cr3(t, s, p, f)

-----------------------------------------------------------------------------
(* The compiled region at RIP runs, unless an STI or MOV-SS shadow is on.  *)
RunNative ==
  /\ phase = "dispatch"
  /\ \E r \in jit_cache : r.head = rip /\ r.space = cr3 /\ jit_enter_region(r)
  /\ UNCHANGED <<guest, rip, rip_before, return_pc, smc_dirty_pages, caches>>

Interpret ==
  /\ phase = "dispatch"
  /\ \E interrupt_inhibit \in BOOLEAN :
       interrupt_inhibit \/ ~ \E r \in jit_cache : r.head = rip /\ r.space = cr3
  /\ step
  /\ rip_before' = rip
  /\ phase' = "sample"
  /\ UNCHANGED <<return_pc, region>>

-----------------------------------------------------------------------------
(* jit_sample_backedge, after an interpreted instruction: the sampled head *)
(* is at RIP.                                                              *)
Key == <<rip, cr3>>

MemoOf(k) == {m \in jit_ineligible : <<m.head, m.space>> = k}

BackEdge ==
  /\ rip < rip_before
  /\ ~ \E r \in jit_cache : r.head = rip /\ r.space = cr3

(* The memo of the head still applies: no write near it since it was made, *)
(* or the writes left the window as it was.                                *)
jit_ineligible_unchanged ==
  \E m \in MemoOf(Key) : Key \in jit_ineligible_dirty => m.code = jit_code_snapshot(rip)

Sampled ==
  /\ phase = "sample" /\ rip_before' = 0
  /\ UNCHANGED <<guest, rip, return_pc, smc_dirty_pages>>

(* Not a back edge, already compiled, or interrupts inhibited; also where  *)
(* run() left with an exit before sampling.                                *)
SampleNothing ==
  /\ Sampled
  /\ phase' = "boundary"
  /\ UNCHANGED <<code_page_bitmap, caches, region>>

SampleRefused ==
  /\ Sampled /\ BackEdge
  /\ jit_ineligible_unchanged
  /\ jit_ineligible_dirty' = jit_ineligible_dirty \ {Key}
  /\ phase' = "boundary"
  /\ UNCHANGED <<code_page_bitmap, jit_cache, jit_hot, jit_ineligible, region>>

SampleCold ==
  /\ Sampled /\ BackEdge
  /\ ~jit_ineligible_unchanged
  /\ jit_ineligible_dirty' = jit_ineligible_dirty \ {Key}
  /\ jit_ineligible' = jit_ineligible \ MemoOf(Key)
  /\ jit_hot[rip] + 1 < HOT_THRESHOLD
  /\ jit_hot' = [jit_hot EXCEPT ![rip] = @ + 1]
  /\ phase' = "boundary"
  /\ UNCHANGED <<code_page_bitmap, jit_cache, region>>

Promotes ==
  /\ Sampled /\ BackEdge
  /\ ~jit_ineligible_unchanged
  /\ jit_hot[rip] + 1 >= HOT_THRESHOLD

(* The head is hot and compiles: the region is cached and runs at once. *)
SampleCompiled ==
  /\ Promotes
  /\ \E r \in jit_compile_region(rip) :
       /\ jit_cache' = jit_cache \cup {r}
       /\ jit_enter_region(r)
  /\ jit_hot' = [jit_hot EXCEPT ![rip] = 0]
  /\ jit_ineligible_dirty' = jit_ineligible_dirty \ {Key}
  /\ jit_ineligible' = jit_ineligible \ MemoOf(Key)

SampleIneligibleStillHot ==   \* slip: the counter runs on and nothing is remembered
  /\ Promotes
  /\ jit_compile_region(rip) = {}
  /\ jit_hot' = [jit_hot EXCEPT ![rip] = @ + 1]
  /\ phase' = "boundary"
  /\ UNCHANGED <<code_page_bitmap, jit_cache, jit_ineligible, jit_ineligible_dirty, region>>

(* The head is hot and does not compile.  The memo keeps the bytes of its  *)
(* window; "marked" is not in the code: it says for which of the pages     *)
(* the journal was already watching.                                       *)
SampleIneligible ==
  /\ Promotes
  /\ jit_compile_region(rip) = {}
  /\ jit_hot' = [jit_hot EXCEPT ![rip] = 0]
  /\ LET memo == [head |-> rip, space |-> cr3, code |-> jit_code_snapshot(rip),
                  marked |-> {p \in Window(rip) : is_code_page(p)}]
         kept == jit_ineligible \ MemoOf(Key)
     IN  IF Cardinality(kept) >= INELIGIBLE_CAP
         THEN jit_ineligible' = {memo} /\ jit_ineligible_dirty' = {}
         ELSE /\ jit_ineligible' = kept \cup {memo}
              /\ jit_ineligible_dirty' = jit_ineligible_dirty \ {Key}
  /\ phase' = "boundary"
  /\ UNCHANGED <<code_page_bitmap, jit_cache, region>>

jit_sample_backedge ==
  SampleNothing \/ SampleRefused \/ SampleCold \/ SampleCompiled \/ SampleIneligible

-----------------------------------------------------------------------------
(* Native code.  A store that touches a code page is not made: the region  *)
(* exits and the interpreter repeats it.                                   *)
rax_jit_mem_store ==
  /\ phase = "native"
  /\ UNCHANGED <<rip_before, return_pc, mmu, caches>>
  /\ \E w \in Stores, c \in Contents :
       \/ /\ is_code_page(w[1]) \/ is_code_page(w[2])
          /\ rip' \in Entries
          /\ jit_leave_region
          /\ UNCHANGED guest
       \/ /\ ~is_code_page(w[1]) /\ ~is_code_page(w[2])
          /\ Write(w[1], w[2], c)
          /\ UNCHANGED <<rip, phase, region>>

(* The region exits to the interpreter at a frontier. *)
NativeExit ==
  /\ phase = "native"
  /\ rip' \in Entries
  /\ jit_leave_region
  /\ UNCHANGED <<guest, rip_before, return_pc, mmu, caches>>

(* A CALL of the region: the return address is pushed and the interpreter  *)
(* runs the callee until it returns.                                       *)
rax_jit_call ==
  /\ phase = "native"
  /\ return_pc' \in Entries
  /\ rip' \in Entries
  /\ \E w \in Stores, c \in Contents :
       /\ UNCHANGED <<code_page_bitmap, caches>>
       /\ smc_dirty_pages' = note_smc(w[1], w[2])
       /\ Write(w[1], w[2], c)
  /\ phase' = "callout"
  /\ UNCHANGED <<rip_before, region>>

(* The top of an iteration of the callee. *)
CalloutDrain ==
  /\ phase = "callout"
  /\ drain_smc
  /\ phase' = "callee"

CalloutLeave ==
  /\ jit_leave_region
  /\ return_pc' = 0
  /\ UNCHANGED <<guest, rip, rip_before, mmu, caches>>

CalloutReturn ==
  /\ phase' = "native"
  /\ return_pc' = 0
  /\ UNCHANGED <<guest, rip, rip_before, mmu, caches, region>>

(* The step cap, the end of a time slice, an exit or a fault of the callee *)
(* (CalloutLeave); or one more instruction.                                *)
CalloutStep ==
  \/ CalloutLeave
  \/ step /\ phase' = "callout" /\ UNCHANGED <<rip_before, return_pc, region>>

CalleeReturnFirst ==   \* slip: the return is recognised before staleness
  /\ phase = "callee"
  /\ \/ rip = return_pc /\ CalloutReturn
     \/ rip # return_pc /\ jit_active_region_stale /\ CalloutLeave
     \/ rip # return_pc /\ ~jit_active_region_stale /\ CalloutStep

(* A stale region is left before anything else is looked at.  After the    *)
(* return the region is also left when the callee unmasked SIMD exceptions *)
(* (CalloutLeave again).                                                   *)
Callee ==
  /\ phase = "callee"
  /\ \/ jit_active_region_stale /\ CalloutLeave
     \/ ~jit_active_region_stale /\ rip = return_pc /\ (CalloutReturn \/ CalloutLeave)
     \/ ~jit_active_region_stale /\ rip # return_pc /\ CalloutStep

-----------------------------------------------------------------------------
(* Between two calls of run(): a device writes guest RAM, or the embedder  *)
(* resets the CPU.                                                         *)
DeviceWrite ==
  /\ phase = "boundary"
  /\ \E f \in Frames, c \in Contents : memory' = [memory EXCEPT ![f] = c]
  /\ UNCHANGED <<page_table, cr3, loop, mmu, caches, region>>
  /\ "dma" \in Bypasses \/ KeepsCached({})

reset_state ==
  /\ phase = "boundary"
  /\ \E s \in Spaces : cr3' = s
  /\ rip' = 0
  /\ jit_cache' = {}
  /\ jit_hot' = [h \in Entries |-> 0]
  /\ jit_ineligible' = {}
  /\ jit_ineligible_dirty' = {}
  /\ UNCHANGED <<memory, page_table, phase, rip_before, return_pc, mmu, region>>

Init ==
  /\ memory \in [Frames -> Contents]
  /\ page_table \in [Spaces -> [Pages -> Frames]]
  /\ cr3 \in Spaces
  /\ rip = 0 /\ phase = "boundary" /\ rip_before = 0 /\ return_pc = 0
  /\ code_page_bitmap = {} /\ smc_dirty_pages = {}
  /\ jit_cache = {} /\ jit_ineligible = {} /\ jit_ineligible_dirty = {}
  /\ jit_hot = [h \in Entries |-> 0]
  /\ active = {} /\ jit_active_region_stale = FALSE

Next ==
  \/ Drain \/ RunNative \/ Interpret \/ jit_sample_backedge
  \/ rax_jit_mem_store \/ NativeExit \/ rax_jit_call \/ CalloutDrain \/ Callee
  \/ DeviceWrite \/ reset_state

Spec == Init /\ [][Next]_vars

-----------------------------------------------------------------------------
Regions ==
  {r \in [head : Entries, space : Spaces, source_pages : SUBSET Pages,
          seen : UNION {[S -> Contents] : S \in SUBSET Pages}] :
     DOMAIN r.seen = r.source_pages}

Memos ==
  [head : Entries, space : Spaces, marked : SUBSET Pages,
   code : UNION {[S -> Contents] : S \in SUBSET Pages}]

(* Types.  In particular a hotness counter never stays at the threshold    *)
(* (jit_sample_backedge removes it when it promotes), and a region is in   *)
(* flight exactly while native code or a callee of it runs.                *)
TypeOK ==
  /\ memory \in [Frames -> Contents]
  /\ page_table \in [Spaces -> [Pages -> Frames]]
  /\ cr3 \in Spaces
  /\ rip \in Entries /\ rip_before \in Entries /\ return_pc \in Entries
  /\ phase \in {"boundary", "dispatch", "sample", "native", "callout", "callee"}
  /\ code_page_bitmap \subseteq 0..(BITMAP_BITS - 1)
  /\ smc_dirty_pages \subseteq Pages
  /\ \A r \in jit_cache \cup active : r \in Regions
  /\ jit_hot \in [Entries -> 0..(HOT_THRESHOLD - 1)]
  /\ \A m \in jit_ineligible : m \in Memos
  /\ Cardinality(jit_ineligible) <= INELIGIBLE_CAP
  /\ jit_ineligible_dirty \subseteq Entries \X Spaces
  /\ Cardinality(active) = IF phase \in {"native", "callout", "callee"} THEN 1 ELSE 0
  /\ jit_active_region_stale \in BOOLEAN

(* Native code never runs from bytes that are no longer there: whenever a  *)
(* region executes natively, entered from the cache, just compiled or back *)
(* from a callee, each of its source pages reads as it did when the region *)
(* was compiled.                                                           *)
NativeCodeIsCurrent ==
  phase = "native" =>
    \A r \in active : \A p \in r.source_pages : r.seen[p] = Current(cr3, p)

(* What makes that so: every source page of a cached region is watched by  *)
(* the journal, and a page that has changed since the region was compiled  *)
(* is in the journal, so the drain before the next dispatch drops it.      *)
CachedCodeIsWatched ==
  \A r \in jit_cache : \A p \in r.source_pages :
    /\ is_code_page(p)
    /\ r.seen[p] = Current(r.space, p) \/ p \in smc_dirty_pages

(* A head is refused without looking at its bytes only when they are still *)
(* those that did not compile: a memo not flagged by invalidate_code_page  *)
(* describes every page of its window that was watched when it was made,   *)
(* up to writes still in the journal.                                      *)
CleanMemoIsCurrent ==
  \A m \in jit_ineligible : <<m.head, m.space>> \notin jit_ineligible_dirty =>
    \A p \in m.marked : m.code[p] = Current(m.space, p) \/ p \in smc_dirty_pages
=============================================================================
