--------------------------- MODULE CodeCacheProofs ---------------------------
(***************************************************************************)
(* Native code is current, for every number of pages, frames and address   *)
(* spaces and every lift window, when no change of code bypasses the       *)
(* journal.                                                                *)
(***************************************************************************)
EXTENDS CodeCache, FiniteSetTheorems, TLAPS

(* Instructions start at addresses, which are naturals. *)
LEMMA EntriesAreNat == Entries \subseteq Nat
  BY SizesAssumption, EntriesAssumption DEF Addresses

(* A lift window is no longer than a page, so it ends on the page after    *)
(* its head at the latest.                                                 *)
LEMMA WindowIsShort ==
  ASSUME NEW h \in Nat, NEW p \in Window(h)
  PROVE  p = PageOf(h) \/ p = PageOf(h) + 1
  BY SizesAssumption DEF Window, PageOf, Pages

Shape ==
  /\ memory \in [Frames -> Contents]
  /\ page_table \in [Spaces -> [Pages -> Frames]]
  /\ cr3 \in Spaces
  /\ smc_dirty_pages \subseteq Pages
  /\ \A r \in jit_cache \cup active : r.source_pages \subseteq Pages /\ r.space \in Spaces
  /\ rip \in Nat
  /\ \A m \in jit_ineligible :
       m.head \in Nat /\ m.space \in Spaces /\ m.marked \subseteq Window(m.head)
  /\ phase \in {"boundary", "dispatch", "sample"} => active = {}
  /\ phase \in {"boundary", "dispatch", "sample", "native", "callout", "callee"}

(* The region in flight is watched, and what has changed under it is in    *)
(* the journal or has made it stale.                                       *)
ActiveCodeIsWatched ==
  \A r \in active : \A p \in r.source_pages :
    /\ is_code_page(p)
    /\ \/ r.seen[p] = Current(cr3, p)
       \/ p \in smc_dirty_pages
       \/ jit_active_region_stale

(* The memo table is keyed by head and address space. *)
OneMemoPerKey ==
  \A m, n \in jit_ineligible : m.head = n.head /\ m.space = n.space => m = n

MemosAreWatched == \A m \in jit_ineligible : \A p \in m.marked : is_code_page(p)

(* Dispatch and callee decisions are made on an empty journal. *)
JournalIsDrained == phase \in {"dispatch", "callee"} => smc_dirty_pages = {}

Inv ==
  /\ Shape
  /\ CachedCodeIsWatched /\ ActiveCodeIsWatched
  /\ OneMemoPerKey /\ MemosAreWatched /\ CleanMemoIsCurrent
  /\ JournalIsDrained
  /\ NativeCodeIsCurrent

(* The initial state has no regions, no memos and an empty journal. *)
LEMMA InitInv == Init => Inv
  BY SMT DEF Init, Inv, Shape, CachedCodeIsWatched, ActiveCodeIsWatched, OneMemoPerKey,
     MemosAreWatched, CleanMemoIsCurrent, JournalIsDrained, NativeCodeIsCurrent

(* drain_smc, from an instruction boundary of run() or of a callee. *)
LEMMA DrainInv ==
  ASSUME Inv, drain_smc, phase \in {"boundary", "callout"},
         phase' = IF phase = "boundary" THEN "dispatch" ELSE "callee"
  PROVE  Inv'
  <1> USE DEF Inv, drain_smc, invalidate_code_pages, guest
  <1>0. \A s, p : Current(s, p)' = Current(s, p) BY DEF Current
  <1>1. Shape' BY DEF Shape, KeptRegions
  <1>2. CachedCodeIsWatched'
    BY <1>0 DEF CachedCodeIsWatched, KeptRegions, is_code_page
  <1>3. ActiveCodeIsWatched'
    <2>1. ASSUME NEW r \in active, NEW p \in r.source_pages, p \in smc_dirty_pages
          PROVE  InSourceRange(r, p)
      BY <2>1 DEF Shape, Pages, InSourceRange
    <2>2. QED BY <1>0, <2>1, Zenon DEF ActiveCodeIsWatched, is_code_page
  <1>4. OneMemoPerKey' /\ MemosAreWatched'
    BY DEF OneMemoPerKey, MemosAreWatched, is_code_page
  <1>5. CleanMemoIsCurrent'
    <2>1. ASSUME NEW m \in jit_ineligible, NEW p \in m.marked, p \in smc_dirty_pages
          PROVE  overlaps(m.head, smc_dirty_pages)
      BY <2>1, WindowIsShort DEF Shape, overlaps
    <2>2. QED BY <1>0, <2>1 DEF CleanMemoIsCurrent
  <1>6. JournalIsDrained' /\ NativeCodeIsCurrent' BY DEF JournalIsDrained, NativeCodeIsCurrent
  <1>7. QED BY <1>1, <1>2, <1>3, <1>4, <1>5, <1>6

-----------------------------------------------------------------------------
(* A step that changes guest memory or translations keeps the caches       *)
(* watched, if pages W it writes through are journalled and all else that  *)
(* regions and memos depend on is kept.                                    *)
LEMMA ChangeInv ==
  ASSUME Inv, NEW W,
         KeepsCached(W), KeepsActive(W),
         code_page_bitmap \subseteq code_page_bitmap',
         smc_dirty_pages \subseteq smc_dirty_pages',
         \A p \in W : code_page_index(p) \in code_page_bitmap => p \in smc_dirty_pages',
         jit_cache' \subseteq jit_cache,
         jit_ineligible' \subseteq jit_ineligible,
         jit_ineligible' = {} \/ jit_ineligible_dirty' = jit_ineligible_dirty,
         UNCHANGED region
  PROVE  /\ CachedCodeIsWatched' /\ ActiveCodeIsWatched'
         /\ OneMemoPerKey' /\ MemosAreWatched' /\ CleanMemoIsCurrent'
  <1> USE DEF Inv, is_code_page, region
  <1>1. CachedCodeIsWatched' BY DEF CachedCodeIsWatched, KeepsCached, Current
  <1>2. ActiveCodeIsWatched' BY DEF ActiveCodeIsWatched, KeepsActive, Current
  <1>3. OneMemoPerKey' /\ MemosAreWatched' BY DEF OneMemoPerKey, MemosAreWatched
  <1>4. CleanMemoIsCurrent'
    BY DEF CleanMemoIsCurrent, MemosAreWatched, KeepsCached, Current
  <1>5. QED BY <1>1, <1>2, <1>3, <1>4

(* A store journals the code pages it touches and changes nothing else     *)
(* that a region or a memo depends on.                                     *)
LEMMA WriteInv ==
  ASSUME Inv, Bypasses = {}, NEW w \in Stores, NEW c \in Contents,
         Write(w[1], w[2], c),
         code_page_bitmap \subseteq code_page_bitmap',
         smc_dirty_pages' = note_smc(w[1], w[2]),
         UNCHANGED <<caches, region>>
  PROVE  /\ CachedCodeIsWatched' /\ ActiveCodeIsWatched'
         /\ OneMemoPerKey' /\ MemosAreWatched' /\ CleanMemoIsCurrent'
         /\ memory' \in [Frames -> Contents] /\ UNCHANGED <<page_table, cr3>>
         /\ smc_dirty_pages' \subseteq Pages
  <1>1. KeepsCached({w[1], w[2]}) /\ KeepsActive({w[1], w[2]}) BY DEF Write
  <1>2. \A p \in {w[1], w[2]} :
          code_page_index(p) \in code_page_bitmap => p \in smc_dirty_pages'
    BY DEF note_smc
  <1>3. smc_dirty_pages \subseteq smc_dirty_pages' BY DEF note_smc
  <1>4. /\ CachedCodeIsWatched' /\ ActiveCodeIsWatched'
        /\ OneMemoPerKey' /\ MemosAreWatched' /\ CleanMemoIsCurrent'
    BY <1>1, <1>2, <1>3, ChangeInv DEF caches
  <1>5. memory' \in [Frames -> Contents] BY DEF Write, Inv, Shape
  <1>6. smc_dirty_pages' \subseteq Pages BY DEF note_smc, Stores, Inv, Shape
  <1>7. QED BY <1>4, <1>5, <1>6 DEF Write

(* An interpreted instruction, in the run loop or in a callee. *)
LEMMA StepInv ==
  ASSUME Inv, Bypasses = {}, step, UNCHANGED region,
         phase' \in {"sample", "callout"},
         phase' = "sample" => active = {}
  PROVE  Inv'
  <1> USE DEF Inv
  <1>1. code_page_bitmap \subseteq code_page_bitmap' BY DEF step, mark_code_page
  <1>2. rip' \in Nat BY EntriesAreNat DEF step
  <1>3. JournalIsDrained' /\ NativeCodeIsCurrent' BY DEF JournalIsDrained, NativeCodeIsCurrent
  <1>4. CASE UNCHANGED <<guest, smc_dirty_pages, caches>>
    <2>1. KeepsCached({}) /\ KeepsActive({})
      BY <1>4 DEF KeepsCached, KeepsActive, Current, guest
    <2>2. /\ CachedCodeIsWatched' /\ ActiveCodeIsWatched'
          /\ OneMemoPerKey' /\ MemosAreWatched' /\ CleanMemoIsCurrent'
      BY <1>1, <1>4, <2>1, ChangeInv DEF caches
    <2>3. Shape' BY <1>2, <1>4 DEF Shape, guest, caches, region, Window
    <2>4. QED BY <1>3, <2>2, <2>3
  <1>5. ASSUME NEW w \in Stores, NEW c \in Contents, UNCHANGED caches,
               smc_dirty_pages' = note_smc(w[1], w[2]), Write(w[1], w[2], c)
        PROVE  Inv'
    <2>1. /\ CachedCodeIsWatched' /\ ActiveCodeIsWatched'
          /\ OneMemoPerKey' /\ MemosAreWatched' /\ CleanMemoIsCurrent'
          /\ memory' \in [Frames -> Contents] /\ UNCHANGED <<page_table, cr3>>
          /\ smc_dirty_pages' \subseteq Pages
      BY <1>1, <1>5, WriteInv
    <2>2. Shape' BY <1>2, <1>5, <2>1 DEF Shape, caches, region, Window
    <2>3. QED BY <1>3, <2>1, <2>2
  <1>6. ASSUME NEW s \in Spaces, NEW p \in Pages, NEW f \in Frames,
               UNCHANGED smc_dirty_pages, invalidate_linear_translation(s, p, f)
        PROVE  Inv'
    <2> USE DEF invalidate_linear_translation
    <2>1. KeepsCached({}) /\ KeepsActive({}) BY <1>6 DEF KeepsCached
    <2>2. /\ CachedCodeIsWatched' /\ ActiveCodeIsWatched'
          /\ OneMemoPerKey' /\ MemosAreWatched' /\ CleanMemoIsCurrent'
      BY <1>1, <1>6, <2>1, ChangeInv
    <2>3. Shape' BY <1>2, <1>6 DEF Shape, region
    <2>4. QED BY <1>3, <2>2, <2>3
  <1>7. ASSUME NEW s \in Spaces, NEW p \in Pages, NEW f \in Frames, NEW t \in Spaces,
               UNCHANGED smc_dirty_pages, mov_to_cr3(t, s, p, f)
        PROVE  Inv'
    <2> USE DEF mov_to_cr3
    <2>1. KeepsCached({}) /\ KeepsActive({}) BY <1>7
    <2>2. /\ CachedCodeIsWatched' /\ ActiveCodeIsWatched'
          /\ OneMemoPerKey' /\ MemosAreWatched' /\ CleanMemoIsCurrent'
      BY <1>1, <1>7, <2>1, ChangeInv DEF caches
    <2>3. Shape' BY <1>2, <1>7 DEF Shape, region, caches, Window
    <2>4. QED BY <1>3, <2>2, <2>3
  <1>8. QED BY <1>4, <1>5, <1>6, <1>7 DEF step

-----------------------------------------------------------------------------
(* Leaving a region, with the guest, the journal and the caches untouched. *)
LEMMA LeaveInv ==
  ASSUME Inv, jit_leave_region, UNCHANGED <<guest, mmu, caches>>, rip' \in Nat
  PROVE  Inv'
  <1> USE DEF Inv, jit_leave_region, guest, mmu, caches
  <1>1. Shape' BY DEF Shape, Window
  <1>2. CachedCodeIsWatched' BY DEF CachedCodeIsWatched, is_code_page, Current
  <1>3. ActiveCodeIsWatched' /\ NativeCodeIsCurrent' /\ JournalIsDrained'
    BY DEF ActiveCodeIsWatched, NativeCodeIsCurrent, JournalIsDrained
  <1>4. OneMemoPerKey' /\ MemosAreWatched'
    BY DEF OneMemoPerKey, MemosAreWatched, is_code_page
  <1>5. CleanMemoIsCurrent' BY DEF CleanMemoIsCurrent, Current
  <1>6. QED BY <1>1, <1>2, <1>3, <1>4, <1>5

(* A cached region of the current space is entered on an empty journal, so *)
(* nothing it was compiled from has changed.                               *)
LEMMA RunNativeInv == ASSUME Inv, RunNative PROVE Inv'
  <1> USE DEF Inv, guest, caches
  <1>1. PICK r \in jit_cache : r.head = rip /\ r.space = cr3 /\ jit_enter_region(r)
    BY DEF RunNative
  <1>2. /\ active' = {r} /\ jit_active_region_stale' = FALSE /\ phase' = "native"
        /\ code_page_bitmap \subseteq code_page_bitmap'
        /\ UNCHANGED <<guest, rip, smc_dirty_pages, caches>>
    BY <1>1 DEF RunNative, jit_enter_region, mark_code_page
  <1>3. \A p \in r.source_pages : r.seen[p] = Current(cr3, p)
    BY <1>1 DEF RunNative, JournalIsDrained, CachedCodeIsWatched
  <1>4. \A s, p : Current(s, p)' = Current(s, p) BY <1>2 DEF Current
  <1>5. Shape' BY <1>1, <1>2 DEF Shape, Window
  <1>6. CachedCodeIsWatched' BY <1>2, <1>4 DEF CachedCodeIsWatched, is_code_page
  <1>7. ActiveCodeIsWatched' /\ NativeCodeIsCurrent'
    BY <1>1, <1>2, <1>3, <1>4, <1>6
       DEF ActiveCodeIsWatched, NativeCodeIsCurrent, CachedCodeIsWatched
  <1>8. OneMemoPerKey' /\ MemosAreWatched'
    BY <1>2 DEF OneMemoPerKey, MemosAreWatched, is_code_page
  <1>9. CleanMemoIsCurrent' BY <1>2, <1>4 DEF CleanMemoIsCurrent
  <1>10. JournalIsDrained' BY <1>2 DEF JournalIsDrained
  <1>11. QED BY <1>5, <1>6, <1>7, <1>8, <1>9, <1>10

(* Sampling without promotion to native code. *)
LEMMA SampleInv ==
  ASSUME Inv, SampleNothing \/ SampleRefused \/ SampleCold \/ SampleIneligible
  PROVE  Inv'
  <1> USE DEF Inv
  <1>1. /\ UNCHANGED <<guest, rip, smc_dirty_pages, code_page_bitmap, jit_cache, region>>
        /\ phase' = "boundary" /\ active = {} /\ cr3 \in Spaces /\ rip \in Nat
    BY DEF SampleNothing, SampleRefused, SampleCold, SampleIneligible, Promotes, Sampled,
           caches, Shape
  <1>2. \A s, p : Current(s, p)' = Current(s, p) BY <1>1 DEF Current, guest
  <1>3. CachedCodeIsWatched' /\ ActiveCodeIsWatched' /\ NativeCodeIsCurrent' /\ JournalIsDrained'
    BY <1>1, <1>2 DEF CachedCodeIsWatched, ActiveCodeIsWatched, NativeCodeIsCurrent,
       JournalIsDrained, is_code_page, region
  <1>10. OneMemoPerKey'
    <2>1. CASE jit_ineligible' \subseteq jit_ineligible BY <2>1 DEF OneMemoPerKey
    <2>2. ASSUME NEW memo, memo.head = rip, memo.space = cr3,
                 jit_ineligible' \subseteq (jit_ineligible \ MemoOf(Key)) \cup {memo}
          PROVE  OneMemoPerKey'
      <3>1. \A m \in jit_ineligible' :
              m = memo \/ (m \in jit_ineligible /\ <<m.head, m.space>> # <<rip, cr3>>)
        BY <2>2 DEF MemoOf, Key
      <3>2. QED BY <2>2, <3>1 DEF OneMemoPerKey
    <2>3. CASE SampleIneligible
      <3> DEFINE memo == [head |-> rip, space |-> cr3, code |-> jit_code_snapshot(rip),
                          marked |-> {p \in Window(rip) : is_code_page(p)}]
      <3>1. jit_ineligible' \subseteq (jit_ineligible \ MemoOf(Key)) \cup {memo}
        BY <2>3 DEF SampleIneligible
      <3>2. memo.head = rip /\ memo.space = cr3 OBVIOUS
      <3>3. QED BY ONLY <2>2, <3>1, <3>2, Zenon
    <2>4. CASE SampleNothing \/ SampleRefused \/ SampleCold
      BY <2>1, <2>4 DEF SampleNothing, SampleRefused, SampleCold, caches
    <2>5. QED BY <2>3, <2>4
  <1>4. SUFFICES
          ASSUME NEW m \in jit_ineligible'
          PROVE  /\ m.head \in Nat /\ m.space \in Spaces /\ m.marked \subseteq Window(m.head)
                 /\ \A p \in m.marked : is_code_page(p)
                 /\ <<m.head, m.space>> \notin jit_ineligible_dirty' =>
                      \A p \in m.marked :
                        m.code[p] = Current(m.space, p) \/ p \in smc_dirty_pages
    <2>1. \A m \in jit_ineligible' :
            m.head \in Nat /\ m.space \in Spaces /\ m.marked \subseteq Window(m.head)
      BY <1>4, Zenon
    <2>2. Shape' BY <1>1, <2>1 DEF Shape, guest, region, Window
    <2>3. MemosAreWatched' BY <1>1, <1>4, Zenon DEF MemosAreWatched, is_code_page
    <2>4. CleanMemoIsCurrent' BY <1>1, <1>2, <1>4 DEF CleanMemoIsCurrent
    <2>5. QED BY <1>3, <1>10, <2>2, <2>3, <2>4
  <1>5. CASE SampleNothing
    BY <1>5 DEF SampleNothing, caches, Shape, MemosAreWatched, CleanMemoIsCurrent
  <1>6. CASE SampleRefused
    <2>1. PICK n \in MemoOf(Key) :
            Key \in jit_ineligible_dirty => n.code = jit_code_snapshot(rip)
      BY <1>6 DEF SampleRefused, jit_ineligible_unchanged
    <2>2. m \in jit_ineligible /\ jit_ineligible_dirty' = jit_ineligible_dirty \ {Key}
      BY <1>6 DEF SampleRefused
    <2>3. CASE <<m.head, m.space>> = Key
      <3>1. m = n BY <2>1, <2>2, <2>3 DEF MemoOf, OneMemoPerKey, Key
      <3>2. QED
        BY <2>1, <2>2, <2>3, <3>1
          DEF jit_code_snapshot, Key, Shape, MemosAreWatched, CleanMemoIsCurrent
    <2>4. CASE <<m.head, m.space>> # Key
      BY <2>2, <2>4 DEF Shape, MemosAreWatched, CleanMemoIsCurrent
    <2>5. QED BY <2>3, <2>4
  <1>7. CASE SampleCold
    BY <1>7 DEF SampleCold, MemoOf, Shape, MemosAreWatched, CleanMemoIsCurrent
  <1>8. CASE SampleIneligible
    <2> DEFINE memo == [head |-> rip, space |-> cr3, code |-> jit_code_snapshot(rip),
                        marked |-> {p \in Window(rip) : is_code_page(p)}]
    <2>1. CASE m = memo
      BY <1>1, <2>1 DEF jit_code_snapshot
    <2>2. CASE m # memo
      <3>1. m \in jit_ineligible \ MemoOf(Key) /\ jit_ineligible_dirty' = jit_ineligible_dirty \ {Key}
        BY <1>8, <2>2 DEF SampleIneligible
      <3>2. QED BY <3>1 DEF MemoOf, Shape, MemosAreWatched, CleanMemoIsCurrent
    <2>3. QED BY <2>1, <2>2
  <1>9. QED BY <1>5, <1>6, <1>7, <1>8

(* Promotion: the region is compiled from the current bytes, its pages are *)
(* marked as it is entered, and it runs at once.                           *)
LEMMA SampleCompiledInv == ASSUME Inv, SampleCompiled PROVE Inv'
  <1> USE DEF Inv
  <1>1. PICK r \in jit_compile_region(rip) :
          jit_cache' = jit_cache \cup {r} /\ jit_enter_region(r)
    BY DEF SampleCompiled
  <1>2. /\ UNCHANGED <<guest, rip, smc_dirty_pages>> /\ phase = "sample"
        /\ jit_ineligible' = jit_ineligible \ MemoOf(Key)
        /\ jit_ineligible_dirty' = jit_ineligible_dirty \ {Key}
    BY DEF SampleCompiled, Promotes, Sampled
  <1>3. /\ active' = {r} /\ jit_active_region_stale' = FALSE /\ phase' = "native"
        /\ code_page_bitmap \subseteq code_page_bitmap'
        /\ \A p \in r.source_pages : code_page_index(p) \in code_page_bitmap'
    BY <1>1 DEF jit_enter_region, mark_code_page
  <1>4. /\ r.space = cr3 /\ r.source_pages \subseteq Pages
        /\ \A p \in r.source_pages : r.seen[p] = Current(cr3, p)
    <2>1. PICK S \in SUBSET Window(rip) :
            r = [head |-> rip, space |-> cr3, source_pages |-> S,
                 seen |-> [p \in S |-> Current(cr3, p)]]
      BY <1>1, jit_compile_region(rip) # {} DEF jit_compile_region
    <2>2. r.space = cr3 /\ r.source_pages = S /\ r.seen = [p \in S |-> Current(cr3, p)]
      BY <2>1
    <2>3. QED BY <2>2 DEF Window
  <1>5. \A s, p : Current(s, p)' = Current(s, p) BY <1>2 DEF Current, guest
  <1>6. Shape' BY <1>1, <1>2, <1>3, <1>4 DEF Shape, Window, guest
  <1>7. CachedCodeIsWatched' BY <1>1, <1>2, <1>3, <1>4, <1>5 DEF CachedCodeIsWatched, is_code_page
  <1>8. ActiveCodeIsWatched' /\ NativeCodeIsCurrent' /\ JournalIsDrained'
    BY <1>2, <1>3, <1>4, <1>5
       DEF ActiveCodeIsWatched, NativeCodeIsCurrent, JournalIsDrained, is_code_page, guest
  <1>9. OneMemoPerKey' /\ MemosAreWatched'
    BY <1>2, <1>3 DEF OneMemoPerKey, MemosAreWatched, is_code_page
  <1>10. CleanMemoIsCurrent' BY <1>2, <1>5 DEF CleanMemoIsCurrent, MemoOf
  <1>11. QED BY <1>6, <1>7, <1>8, <1>9, <1>10

(* A store of native code keeps off every code page, hence off the pages   *)
(* of the region that makes it.                                            *)
LEMMA NativeStoreInv == ASSUME Inv, Bypasses = {}, rax_jit_mem_store PROVE Inv'
  <1>1. PICK w \in Stores, c \in Contents :
          \/ rip' \in Entries /\ jit_leave_region /\ UNCHANGED guest
          \/ /\ ~is_code_page(w[1]) /\ ~is_code_page(w[2])
             /\ Write(w[1], w[2], c)
             /\ UNCHANGED <<rip, phase, region>>
    BY DEF rax_jit_mem_store
  <1>2. UNCHANGED <<mmu, caches>> /\ phase = "native" BY DEF rax_jit_mem_store
  <1>3. CASE rip' \in Entries /\ jit_leave_region /\ UNCHANGED guest
    BY <1>2, <1>3, LeaveInv, EntriesAreNat
  <1>4. CASE /\ ~is_code_page(w[1]) /\ ~is_code_page(w[2])
             /\ Write(w[1], w[2], c)
             /\ UNCHANGED <<rip, phase, region>>
    <2>1. smc_dirty_pages' = note_smc(w[1], w[2])
      BY <1>2, <1>4 DEF note_smc, is_code_page, mmu
    <2>2. /\ CachedCodeIsWatched' /\ ActiveCodeIsWatched'
          /\ OneMemoPerKey' /\ MemosAreWatched' /\ CleanMemoIsCurrent'
          /\ memory' \in [Frames -> Contents] /\ UNCHANGED <<page_table, cr3>>
          /\ smc_dirty_pages' \subseteq Pages
      BY <1>2, <1>4, <2>1, WriteInv DEF mmu
    <2>3. NativeCodeIsCurrent'
      <3>1. \A r \in active : \A p \in r.source_pages : p \notin {w[1], w[2]}
        BY <1>4 DEF Inv, ActiveCodeIsWatched
      <3>2. KeepsActive({w[1], w[2]}) BY <1>4 DEF Write
      <3>3. QED BY <1>2, <1>4, <3>1, <3>2
        DEF Inv, NativeCodeIsCurrent, KeepsActive, Current, region
    <2>4. JournalIsDrained' BY <1>2, <1>4 DEF JournalIsDrained
    <2>5. Shape' BY <1>2, <1>4, <2>2 DEF Inv, Shape, caches, region, Window
    <2>6. QED BY <2>2, <2>3, <2>4, <2>5 DEF Inv
  <1>5. QED BY <1>1, <1>3, <1>4

(* The push of a CALL may hit the region itself; the journal tells. *)
LEMMA NativeCallInv == ASSUME Inv, Bypasses = {}, rax_jit_call PROVE Inv'
  <1>1. PICK w \in Stores, c \in Contents :
          /\ UNCHANGED <<code_page_bitmap, caches>>
          /\ smc_dirty_pages' = note_smc(w[1], w[2])
          /\ Write(w[1], w[2], c)
    BY DEF rax_jit_call
  <1>2. phase' = "callout" /\ rip' \in Nat /\ UNCHANGED region
    BY EntriesAreNat DEF rax_jit_call
  <1>3. /\ CachedCodeIsWatched' /\ ActiveCodeIsWatched'
        /\ OneMemoPerKey' /\ MemosAreWatched' /\ CleanMemoIsCurrent'
        /\ memory' \in [Frames -> Contents] /\ UNCHANGED <<page_table, cr3>>
        /\ smc_dirty_pages' \subseteq Pages
    BY <1>1, <1>2, WriteInv
  <1>4. NativeCodeIsCurrent' /\ JournalIsDrained'
    BY <1>2 DEF NativeCodeIsCurrent, JournalIsDrained
  <1>5. Shape' BY <1>1, <1>2, <1>3 DEF Inv, Shape, caches, region, Window
  <1>6. QED BY <1>3, <1>4, <1>5 DEF Inv

(* A callee returns into its region only when the drained journal has not  *)
(* made the region stale.                                                  *)
LEMMA CalleeInv == ASSUME Inv, Bypasses = {}, Callee PROVE Inv'
  <1>1. CASE CalloutLeave BY <1>1, LeaveInv DEF CalloutLeave, Inv, Shape
  <1>2. CASE ~jit_active_region_stale /\ CalloutReturn
    <2> USE DEF Inv
    <2>1. /\ UNCHANGED <<guest, rip, mmu, caches, region>> /\ phase' = "native"
          /\ phase = "callee"
      BY <1>2 DEF CalloutReturn, Callee
    <2>2. \A s, p : Current(s, p)' = Current(s, p) BY <2>1 DEF Current, guest
    <2>3. Shape' BY <2>1 DEF Shape, Window, guest, mmu, caches, region
    <2>4. CachedCodeIsWatched' /\ ActiveCodeIsWatched'
      BY <2>1, <2>2
        DEF CachedCodeIsWatched, ActiveCodeIsWatched, is_code_page, guest, mmu, caches, region
    <2>5. NativeCodeIsCurrent'
      BY <1>2, <2>1, <2>2
        DEF NativeCodeIsCurrent, ActiveCodeIsWatched, JournalIsDrained, guest, region
    <2>6. OneMemoPerKey' /\ MemosAreWatched' /\ JournalIsDrained'
      BY <2>1 DEF OneMemoPerKey, MemosAreWatched, JournalIsDrained, is_code_page, mmu, caches
    <2>7. CleanMemoIsCurrent' BY <2>1, <2>2 DEF CleanMemoIsCurrent, mmu, caches
    <2>8. QED BY <2>3, <2>4, <2>5, <2>6, <2>7
  <1>3. CASE step /\ phase' = "callout" /\ UNCHANGED region BY <1>3, StepInv
  <1>4. QED BY <1>1, <1>2, <1>3 DEF Callee, CalloutStep

(* Device writes and resets happen with no region in flight. *)
LEMMA EnvironmentInv == ASSUME Inv, Bypasses = {}, DeviceWrite \/ reset_state PROVE Inv'
  <1> USE DEF Inv
  <1>1. CASE DeviceWrite
    <2>1. /\ UNCHANGED <<page_table, cr3, rip, phase, mmu, caches, region>>
          /\ active = {} /\ KeepsCached({})
      BY <1>1 DEF DeviceWrite, loop, Shape
    <2>2. KeepsActive({}) BY <2>1 DEF KeepsActive
    <2>3. /\ CachedCodeIsWatched' /\ ActiveCodeIsWatched'
          /\ OneMemoPerKey' /\ MemosAreWatched' /\ CleanMemoIsCurrent'
      BY <2>1, <2>2, ChangeInv DEF caches, mmu
    <2>4. memory' \in [Frames -> Contents] BY <1>1 DEF DeviceWrite, Shape
    <2>5. Shape' BY <2>1, <2>4 DEF Shape, Window, mmu, caches, region
    <2>6. NativeCodeIsCurrent' /\ JournalIsDrained'
      BY <2>1 DEF NativeCodeIsCurrent, JournalIsDrained, mmu, region
    <2>7. QED BY <2>3, <2>5, <2>6
  <1>2. CASE reset_state
    <2>1. /\ phase = "boundary" /\ active = {}
          /\ UNCHANGED <<memory, page_table, phase, mmu, region>>
          /\ cr3' \in Spaces /\ rip' = 0 /\ jit_cache' = {} /\ jit_ineligible' = {}
      BY <1>2 DEF reset_state, Shape
    <2>2. Shape' BY <2>1 DEF Shape, mmu, region
    <2>3. QED BY <2>1, <2>2, Zenon DEF CachedCodeIsWatched, ActiveCodeIsWatched, OneMemoPerKey,
                MemosAreWatched, CleanMemoIsCurrent, NativeCodeIsCurrent, JournalIsDrained, mmu, region
  <1>3. QED BY <1>1, <1>2

(* Every step preserves the inductive invariant. *)
LEMMA NextInv == ASSUME Inv, Bypasses = {}, [Next]_vars PROVE Inv'
  <1>1. CASE Drain BY <1>1, DrainInv DEF Drain
  <1>2. CASE RunNative BY <1>2, RunNativeInv
  <1>3. CASE Interpret
    <2>1. active = {} BY <1>3 DEF Interpret, Inv, Shape
    <2>2. QED BY <1>3, <2>1, StepInv DEF Interpret
  <1>4. CASE jit_sample_backedge BY <1>4, SampleInv, SampleCompiledInv DEF jit_sample_backedge
  <1>5. CASE rax_jit_mem_store BY <1>5, NativeStoreInv
  <1>6. CASE NativeExit BY <1>6, LeaveInv, EntriesAreNat DEF NativeExit
  <1>7. CASE rax_jit_call BY <1>7, NativeCallInv
  <1>8. CASE CalloutDrain BY <1>8, DrainInv DEF CalloutDrain
  <1>9. CASE Callee BY <1>9, CalleeInv
  <1>10. CASE DeviceWrite \/ reset_state BY <1>10, EnvironmentInv
  <1>11. CASE UNCHANGED vars
    <2> USE <1>11 DEF vars, guest, loop, mmu, caches, region, Inv
    <2>1. Shape' BY DEF Shape, Window
    <2>2. CachedCodeIsWatched' /\ ActiveCodeIsWatched' /\ NativeCodeIsCurrent'
      BY Zenon
        DEF CachedCodeIsWatched, ActiveCodeIsWatched, NativeCodeIsCurrent, is_code_page, Current
    <2>3. OneMemoPerKey' /\ MemosAreWatched' /\ CleanMemoIsCurrent' /\ JournalIsDrained'
      BY DEF OneMemoPerKey, MemosAreWatched, CleanMemoIsCurrent, JournalIsDrained, is_code_page,
        Current
    <2>4. QED BY <2>1, <2>2, <2>3
  <1>12. QED
    BY <1>1, <1>2, <1>3, <1>4, <1>5, <1>6, <1>7, <1>8, <1>9, <1>10, <1>11 DEF Next

LEMMA InvHolds == ASSUME Bypasses = {} PROVE Spec => []Inv
  <1>1. Inv /\ [Next]_vars => Inv' BY NextInv
  <1>2. QED BY InitInv, <1>1, PTL DEF Spec

(* When every change of code goes through the journal, a native region     *)
(* only ever runs on the bytes it was compiled from (drain_smc,            *)
(* jit_enter_region and the call-out loop of cpu_jit_call.rs), whatever    *)
(* the number of pages, frames and address spaces and whatever the guest   *)
(* does.                                                                   *)
THEOREM NativeCodeTheorem == ASSUME Bypasses = {} PROVE Spec => []NativeCodeIsCurrent
  <1>1. Inv => NativeCodeIsCurrent BY DEF Inv
  <1>2. QED BY <1>1, InvHolds, PTL

(* Likewise a cached region is true to memory up to the journal: every     *)
(* page it was compiled from is marked in the bitmap and reads as it did,  *)
(* or waits in the journal for drain_smc to drop the region.               *)
THEOREM WatchedCodeTheorem == ASSUME Bypasses = {} PROVE Spec => []CachedCodeIsWatched
  <1>1. Inv => CachedCodeIsWatched BY DEF Inv
  <1>2. QED BY <1>1, InvHolds, PTL

(* Likewise a head is refused by a clean memo only while the watched bytes *)
(* of its window are those that did not compile (jit_ineligible_unchanged, *)
(* invalidate_code_page).                                                  *)
THEOREM CleanMemoTheorem == ASSUME Bypasses = {} PROVE Spec => []CleanMemoIsCurrent
  <1>1. Inv => CleanMemoIsCurrent BY DEF Inv
  <1>2. QED BY <1>1, InvHolds, PTL

-----------------------------------------------------------------------------
(* Types, bypasses or not. *)
GuestTyped ==
  memory \in [Frames -> Contents] /\ page_table \in [Spaces -> [Pages -> Frames]] /\ cr3 \in Spaces

LoopTyped ==
  /\ rip \in Entries /\ rip_before \in Entries /\ return_pc \in Entries
  /\ phase \in {"boundary", "dispatch", "sample", "native", "callout", "callee"}

MmuTyped == code_page_bitmap \subseteq 0..(BITMAP_BITS - 1) /\ smc_dirty_pages \subseteq Pages

HotTyped == jit_hot \in [Entries -> 0..(HOT_THRESHOLD - 1)]

MemosTyped ==
  /\ jit_ineligible \subseteq Memos /\ IsFiniteSet(jit_ineligible)
  /\ Cardinality(jit_ineligible) <= INELIGIBLE_CAP
  /\ jit_ineligible_dirty \subseteq Entries \X Spaces

InFlight == phase \in {"native", "callout", "callee"}

RegionTyped ==
  /\ jit_cache \subseteq Regions
  /\ InFlight => \E r \in Regions : active = {r}
  /\ ~InFlight => active = {}
  /\ jit_active_region_stale \in BOOLEAN

Typed == GuestTyped /\ LoopTyped /\ MmuTyped /\ HotTyped /\ MemosTyped /\ RegionTyped

LEMMA TypedIsTypeOK == ASSUME Typed PROVE TypeOK
  <1>1. /\ GuestTyped /\ LoopTyped /\ MmuTyped /\ HotTyped /\ MemosTyped /\ RegionTyped
    BY DEF Typed
  <1>2. \A r \in jit_cache \cup active : r \in Regions BY <1>1 DEF RegionTyped
  <1>3. Cardinality(active) = IF InFlight THEN 1 ELSE 0
    <2>1. CASE InFlight
      <3>1. PICK r : active = {r} BY <1>1, <2>1 DEF RegionTyped
      <3>2. Cardinality({r}) = 1 BY FS_Singleton, Zenon
      <3>3. QED BY <2>1, <3>1, <3>2
    <2>2. CASE ~InFlight
      <3>1. active = {} BY <1>1, <2>2 DEF RegionTyped
      <3>2. QED BY <2>2, <3>1, FS_EmptySet
    <2>3. QED BY <2>1, <2>2
  <1>4. QED
    BY <1>1, <1>2, <1>3 DEF TypeOK, GuestTyped, LoopTyped, MmuTyped, HotTyped, MemosTyped,
       RegionTyped, InFlight

LEMMA BitTyped == ASSUME NEW p \in Nat PROVE code_page_index(p) \in 0..(BITMAP_BITS - 1)
  BY SizesAssumption DEF code_page_index

LEMMA MarkTyped ==
  ASSUME MmuTyped, NEW S \in SUBSET Nat
  PROVE  mark_code_page(S) \subseteq 0..(BITMAP_BITS - 1)
  BY BitTyped, Zenon DEF MmuTyped, mark_code_page

LEMMA PageIsNat == ASSUME NEW a \in Nat PROVE PageOf(a) \in Nat
  BY SizesAssumption DEF PageOf

(* What a write to memory, a change of the page tables and a drain keep. *)
LEMMA WriteTyped ==
  ASSUME Typed, NEW first, NEW last, NEW c \in Contents, Write(first, last, c)
  PROVE  GuestTyped'
  BY DEF Typed, GuestTyped, Write

LEMMA RemapTyped ==
  ASSUME Typed, NEW s \in Spaces, NEW p \in Pages, NEW f \in Frames
  PROVE  [page_table EXCEPT ![s][p] = f] \in [Spaces -> [Pages -> Frames]]
  <1>1. page_table \in [Spaces -> [Pages -> Frames]] BY DEF Typed, GuestTyped
  <1>2. [page_table[s] EXCEPT ![p] = f] \in [Pages -> Frames] BY <1>1
  <1>3. QED BY <1>1, <1>2

LEMMA EmptiedTyped ==
  ASSUME jit_hot' = [h \in Entries |-> 0], jit_ineligible' = {}, jit_ineligible_dirty' = {}
  PROVE  HotTyped' /\ MemosTyped'
  <1>1. HotTyped' BY SizesAssumption DEF HotTyped
  <1>2. IsFiniteSet({}) /\ Cardinality({}) = 0 BY FS_EmptySet
  <1>3. QED BY <1>1, <1>2, SizesAssumption DEF MemosTyped

LEMMA SameCachesTyped ==
  ASSUME Typed, UNCHANGED caches
  PROVE  HotTyped' /\ MemosTyped' /\ jit_cache' \subseteq Regions
  BY DEF Typed, HotTyped, MemosTyped, RegionTyped, caches

LEMMA NoteTyped ==
  ASSUME MmuTyped, NEW w \in Stores, smc_dirty_pages' = note_smc(w[1], w[2])
  PROVE  smc_dirty_pages' \subseteq Pages
  BY DEF MmuTyped, Stores, note_smc

LEMMA DrainTyped ==
  ASSUME Typed, drain_smc
  PROVE  /\ GuestTyped' /\ MmuTyped' /\ HotTyped' /\ MemosTyped'
         /\ jit_cache' \subseteq Regions /\ active' = active
         /\ jit_active_region_stale' \in BOOLEAN
         /\ UNCHANGED <<rip, rip_before, return_pc>>
  <1>1. /\ UNCHANGED <<memory, page_table, cr3, rip, rip_before, return_pc, code_page_bitmap,
                       jit_ineligible, active>>
        /\ smc_dirty_pages' = {} /\ invalidate_code_pages(smc_dirty_pages)
    BY DEF drain_smc, guest
  <1>2. GuestTyped' /\ MmuTyped' BY <1>1 DEF Typed, GuestTyped, MmuTyped
  <1>3. HotTyped'
    <2>1. 0 \in 0..(HOT_THRESHOLD - 1) BY SizesAssumption
    <2>2. QED BY <1>1, <2>1 DEF invalidate_code_pages, Typed, HotTyped
  <1>4. MemosTyped'
    <2>1. jit_ineligible \subseteq Memos /\ jit_ineligible_dirty \subseteq Entries \X Spaces
      BY DEF Typed, MemosTyped
    <2>2. \A m \in jit_ineligible : <<m.head, m.space>> \in Entries \X Spaces
      BY <2>1 DEF Memos
    <2>3. jit_ineligible_dirty' \subseteq Entries \X Spaces
      BY <1>1, <2>1, <2>2 DEF invalidate_code_pages
    <2>4. QED BY <1>1, <2>3 DEF Typed, MemosTyped
  <1>5. jit_cache' \subseteq Regions
    BY <1>1 DEF invalidate_code_pages, KeptRegions, Typed, RegionTyped
  <1>6. jit_active_region_stale' \in BOOLEAN BY <1>1 DEF invalidate_code_pages
  <1>7. QED BY <1>1, <1>2, <1>3, <1>4, <1>5, <1>6

LEMMA StepTyped ==
  ASSUME Typed, step
  PROVE  /\ GuestTyped' /\ MmuTyped' /\ HotTyped' /\ MemosTyped'
         /\ jit_cache' \subseteq Regions /\ rip' \in Entries
  <1>1. rip' \in Entries /\ code_page_bitmap' = mark_code_page({PageOf(rip)}) BY DEF step
  <1>2. code_page_bitmap' \subseteq 0..(BITMAP_BITS - 1)
    <2>1. rip \in Nat BY EntriesAreNat DEF Typed, LoopTyped
    <2>2. {PageOf(rip)} \subseteq Nat BY <2>1, PageIsNat
    <2>3. QED BY <1>1, <2>2, MarkTyped DEF Typed
  <1>3. CASE UNCHANGED <<guest, smc_dirty_pages, caches>>
    <2>1. GuestTyped' /\ MmuTyped' BY <1>2, <1>3 DEF guest, Typed, GuestTyped, MmuTyped
    <2>2. UNCHANGED caches BY <1>3
    <2>3. QED BY <1>1, <2>1, <2>2, SameCachesTyped
  <1>4. ASSUME NEW w \in Stores, NEW c \in Contents, UNCHANGED caches,
               smc_dirty_pages' = note_smc(w[1], w[2]), Write(w[1], w[2], c)
        PROVE  /\ GuestTyped' /\ MmuTyped' /\ HotTyped' /\ MemosTyped'
               /\ jit_cache' \subseteq Regions
    <2>1. GuestTyped' BY <1>4, WriteTyped
    <2>2. smc_dirty_pages' \subseteq Pages BY <1>4, NoteTyped DEF Typed
    <2>3. QED BY <1>2, <1>4, <2>1, <2>2, SameCachesTyped DEF MmuTyped
  <1>5. ASSUME NEW s \in Spaces, NEW p \in Pages, NEW f \in Frames, UNCHANGED smc_dirty_pages,
               invalidate_linear_translation(s, p, f)
        PROVE  /\ GuestTyped' /\ MmuTyped' /\ HotTyped' /\ MemosTyped'
               /\ jit_cache' \subseteq Regions
    <2>1. GuestTyped' BY <1>5, RemapTyped DEF invalidate_linear_translation, Typed, GuestTyped
    <2>2. MmuTyped' BY <1>2, <1>5 DEF Typed, MmuTyped
    <2>3. HotTyped' /\ MemosTyped' /\ jit_cache' = {}
      BY <1>5, EmptiedTyped DEF invalidate_linear_translation
    <2>4. QED BY <2>1, <2>2, <2>3
  <1>6. ASSUME NEW s \in Spaces, NEW p \in Pages, NEW f \in Frames, NEW t \in Spaces,
               UNCHANGED smc_dirty_pages, mov_to_cr3(t, s, p, f)
        PROVE  /\ GuestTyped' /\ MmuTyped' /\ HotTyped' /\ MemosTyped'
               /\ jit_cache' \subseteq Regions
    <2>1. GuestTyped' BY <1>6, RemapTyped DEF mov_to_cr3, Typed, GuestTyped
    <2>2. MmuTyped' BY <1>2, <1>6 DEF Typed, MmuTyped
    <2>3. UNCHANGED caches BY <1>6 DEF mov_to_cr3
    <2>4. QED BY <2>1, <2>2, <2>3, SameCachesTyped
  <1>7. QED BY <1>1, <1>3, <1>4, <1>5, <1>6 DEF step

LEMMA ReadTyped ==
  ASSUME Typed, NEW S \in SUBSET Pages
  PROVE  [p \in S |-> Current(cr3, p)] \in UNION {[T -> Contents] : T \in SUBSET Pages}
  <1>1. \A p \in S : Current(cr3, p) \in Contents BY DEF Typed, GuestTyped, Current
  <1>2. [p \in S |-> Current(cr3, p)] \in [S -> Contents] BY <1>1
  <1>3. QED BY <1>2

LEMMA CompiledTyped ==
  ASSUME Typed, NEW r \in jit_compile_region(rip)
  PROVE  r \in Regions /\ r.source_pages \subseteq Nat
  <1>1. PICK S \in SUBSET Window(rip) :
          r = [head |-> rip, space |-> cr3, source_pages |-> S,
               seen |-> [p \in S |-> Current(cr3, p)]]
    BY DEF jit_compile_region
  <1>2. S \subseteq Pages BY DEF Window
  <1> DEFINE seen == [p \in S |-> Current(cr3, p)]
  <1>3. seen \in UNION {[T -> Contents] : T \in SUBSET Pages} /\ DOMAIN seen = S
    BY <1>2, ReadTyped
  <1>4. r = [head |-> rip, space |-> cr3, source_pages |-> S, seen |-> seen] BY <1>1
  <1> HIDE DEF seen
  <1>5. rip \in Entries /\ cr3 \in Spaces BY DEF Typed, LoopTyped, GuestTyped
  <1>6. r \in Regions BY <1>2, <1>3, <1>4, <1>5 DEF Regions
  <1>7. Pages \subseteq Nat BY SizesAssumption DEF Pages
  <1>8. QED BY <1>2, <1>4, <1>6, <1>7

LEMMA ForgottenTyped ==
  ASSUME Typed, NEW T \in SUBSET jit_ineligible
  PROVE  /\ T \subseteq Memos /\ IsFiniteSet(T) /\ Cardinality(T) \in Nat
         /\ Cardinality(T) <= INELIGIBLE_CAP
  <1>1. /\ jit_ineligible \subseteq Memos /\ IsFiniteSet(jit_ineligible)
        /\ Cardinality(jit_ineligible) <= INELIGIBLE_CAP
    BY DEF Typed, MemosTyped
  <1>2. IsFiniteSet(T) /\ Cardinality(T) <= Cardinality(jit_ineligible) BY <1>1, FS_Subset
  <1>3. Cardinality(T) \in Nat /\ Cardinality(jit_ineligible) \in Nat
    BY <1>1, <1>2, FS_CardinalityType
  <1>4. QED BY <1>1, <1>2, <1>3, SizesAssumption

(* jit_enter_region marks the pages of a typed region. *)
LEMMA EnterTyped ==
  ASSUME Typed, NEW r \in Regions, jit_enter_region(r), jit_cache' \subseteq Regions,
         UNCHANGED smc_dirty_pages
  PROVE  MmuTyped' /\ RegionTyped'
  <1>1. r.source_pages \subseteq Nat
    <2>1. r.source_pages \subseteq Pages BY DEF Regions
    <2>2. QED BY <2>1, SizesAssumption DEF Pages
  <1>2. code_page_bitmap' \subseteq 0..(BITMAP_BITS - 1)
    BY <1>1, MarkTyped DEF Typed, jit_enter_region
  <1>3. MmuTyped' BY <1>2 DEF Typed, MmuTyped
  <1>4. QED BY <1>3, Zenon DEF jit_enter_region, RegionTyped, InFlight

LEMMA SampleTyped == ASSUME Typed, jit_sample_backedge PROVE Typed'
  <1>1. /\ phase = "sample" /\ UNCHANGED <<memory, page_table, cr3, rip, return_pc, smc_dirty_pages>>
        /\ rip_before' = 0
    BY DEF jit_sample_backedge, SampleNothing, SampleRefused, SampleCold, SampleCompiled,
           SampleIneligible, Promotes, Sampled, guest
  <1>2. GuestTyped' BY <1>1 DEF Typed, GuestTyped
  <1>3. rip' \in Entries /\ rip_before' \in Entries /\ return_pc' \in Entries
    BY <1>1, EntriesAssumption DEF Typed, LoopTyped
  <1>4. /\ rip \in Entries /\ jit_hot \in [Entries -> 0..(HOT_THRESHOLD - 1)]
        /\ jit_cache \subseteq Regions /\ active = {} /\ jit_active_region_stale \in BOOLEAN
        /\ jit_ineligible_dirty \subseteq Entries \X Spaces
    BY <1>1 DEF Typed, LoopTyped, HotTyped, MemosTyped, RegionTyped, InFlight
  <1>5. ASSUME phase' = "boundary", UNCHANGED <<code_page_bitmap, jit_cache, region>>
        PROVE  LoopTyped' /\ MmuTyped' /\ RegionTyped'
    <2>1. active' = {} /\ jit_active_region_stale' \in BOOLEAN /\ jit_cache' \subseteq Regions
      BY <1>4, <1>5 DEF region
    <2>2. MmuTyped' BY <1>1, <1>5 DEF Typed, MmuTyped
    <2>3. QED BY <1>3, <1>5, <2>1, <2>2 DEF LoopTyped, RegionTyped, InFlight
  <1>6. [jit_hot EXCEPT ![rip] = 0] \in [Entries -> 0..(HOT_THRESHOLD - 1)]
    BY <1>4, SizesAssumption
  <1>7. CASE SampleNothing
    <2>1. HotTyped' /\ MemosTyped' BY <1>7, SameCachesTyped DEF SampleNothing
    <2>2. LoopTyped' /\ MmuTyped' /\ RegionTyped'
      <3>1. phase' = "boundary" /\ UNCHANGED <<code_page_bitmap, jit_cache, region>>
        BY <1>7 DEF SampleNothing, caches
      <3>2. QED BY <3>1, <1>5
    <2>3. QED BY <1>2, <2>1, <2>2 DEF Typed
  <1>8. CASE SampleRefused
    <2>1. HotTyped' BY <1>8 DEF SampleRefused, Typed, HotTyped
    <2>2. MemosTyped' BY <1>8 DEF SampleRefused, Typed, MemosTyped
    <2>3. phase' = "boundary" /\ UNCHANGED <<code_page_bitmap, jit_cache, region>>
      BY <1>8 DEF SampleRefused
    <2>4. LoopTyped' /\ MmuTyped' /\ RegionTyped' BY <1>5, <2>3
    <2>5. QED BY <1>2, <2>1, <2>2, <2>4 DEF Typed
  <1>9. CASE SampleCold
    <2>1. HotTyped'
      <3>1. jit_hot' = [jit_hot EXCEPT ![rip] = @ + 1] /\ jit_hot[rip] + 1 < HOT_THRESHOLD
        BY <1>9 DEF SampleCold
      <3>2. jit_hot[rip] + 1 \in 0..(HOT_THRESHOLD - 1) BY <1>4, <3>1, SizesAssumption
      <3>3. QED BY <1>4, <3>1, <3>2 DEF HotTyped
    <2>2. MemosTyped'
      <3>1. /\ jit_ineligible' \subseteq jit_ineligible
            /\ jit_ineligible_dirty' \subseteq jit_ineligible_dirty
        BY <1>9 DEF SampleCold
      <3>2. QED BY <1>4, <3>1, ForgottenTyped DEF MemosTyped
    <2>3. phase' = "boundary" /\ UNCHANGED <<code_page_bitmap, jit_cache, region>>
      BY <1>9 DEF SampleCold
    <2>4. LoopTyped' /\ MmuTyped' /\ RegionTyped' BY <1>5, <2>3
    <2>5. QED BY <1>2, <2>1, <2>2, <2>4 DEF Typed
  <1>10. CASE SampleCompiled
    <2>1. PICK r \in jit_compile_region(rip) : jit_cache' = jit_cache \cup {r} /\ jit_enter_region(r)
      BY <1>10 DEF SampleCompiled
    <2>2. r \in Regions /\ jit_cache' \subseteq Regions BY <1>4, <2>1, CompiledTyped
    <2>3. MmuTyped' /\ RegionTyped' BY <1>1, <2>1, <2>2, EnterTyped
    <2>4. LoopTyped' BY <1>3, <2>1 DEF LoopTyped, jit_enter_region
    <2>5. HotTyped' BY <1>6, <1>10 DEF SampleCompiled, HotTyped
    <2>6. MemosTyped'
      <3>1. /\ jit_ineligible' \subseteq jit_ineligible
            /\ jit_ineligible_dirty' \subseteq jit_ineligible_dirty
        BY <1>10 DEF SampleCompiled
      <3>2. QED BY <1>4, <3>1, ForgottenTyped DEF MemosTyped
    <2>7. QED BY <1>2, <2>3, <2>4, <2>5, <2>6 DEF Typed
  <1>11. CASE SampleIneligible
    <2> DEFINE code == jit_code_snapshot(rip)
               memo == [head |-> rip, space |-> cr3, code |-> code,
                        marked |-> {p \in Window(rip) : is_code_page(p)}]
               kept == jit_ineligible \ MemoOf(Key)
    <2>1. memo \in Memos
      <3>1. code \in UNION {[S -> Contents] : S \in SUBSET Pages}
        <4>1. Window(rip) \in SUBSET Pages BY DEF Window
        <4>2. QED BY <4>1, ReadTyped DEF jit_code_snapshot
      <3>2. {p \in Window(rip) : is_code_page(p)} \subseteq Pages BY DEF Window
      <3>3. cr3 \in Spaces BY DEF Typed, GuestTyped
      <3> HIDE DEF code
      <3>4. QED BY <1>4, <3>1, <3>2, <3>3 DEF Memos
    <2>2. kept \subseteq jit_ineligible OBVIOUS
    <2>3. \/ jit_ineligible' = {memo} /\ jit_ineligible_dirty' = {}
          \/ /\ jit_ineligible' = kept \cup {memo} /\ ~(Cardinality(kept) >= INELIGIBLE_CAP)
             /\ jit_ineligible_dirty' \subseteq jit_ineligible_dirty
      BY <1>11 DEF SampleIneligible
    <2> HIDE DEF memo, kept
    <2>4. MemosTyped'
      <3>1. CASE jit_ineligible' = {memo} /\ jit_ineligible_dirty' = {}
        <4>1. IsFiniteSet({memo}) /\ Cardinality({memo}) = 1 BY FS_Singleton
        <4>2. QED BY <2>1, <3>1, <4>1, SizesAssumption DEF MemosTyped
      <3>2. CASE /\ jit_ineligible' = kept \cup {memo} /\ ~(Cardinality(kept) >= INELIGIBLE_CAP)
                 /\ jit_ineligible_dirty' \subseteq jit_ineligible_dirty
        <4>1. kept \subseteq Memos /\ IsFiniteSet(kept) /\ Cardinality(kept) \in Nat
          BY <2>2, ForgottenTyped
        <4>2. /\ IsFiniteSet(kept \cup {memo})
              /\ Cardinality(kept \cup {memo}) = IF memo \in kept THEN Cardinality(kept)
                                                 ELSE Cardinality(kept) + 1
          BY <4>1, FS_AddElement
        <4>3. Cardinality(kept \cup {memo}) <= INELIGIBLE_CAP
          BY <3>2, <4>1, <4>2, SizesAssumption
        <4>4. jit_ineligible' \subseteq Memos BY <2>1, <3>2, <4>1
        <4>5. QED BY <1>4, <3>2, <4>2, <4>3, <4>4 DEF MemosTyped
      <3>3. QED BY <2>3, <3>1, <3>2
    <2>5. HotTyped' BY <1>6, <1>11 DEF SampleIneligible, HotTyped
    <2>6. phase' = "boundary" /\ UNCHANGED <<code_page_bitmap, jit_cache, region>>
      BY <1>11 DEF SampleIneligible
    <2>7. LoopTyped' /\ MmuTyped' /\ RegionTyped' BY <1>5, <2>6
    <2>8. QED BY <1>2, <2>4, <2>5, <2>7 DEF Typed
  <1>12. QED BY <1>7, <1>8, <1>9, <1>10, <1>11 DEF jit_sample_backedge

(* A region in flight stays the one that was entered, until it is left. *)
LEMMA StaysInFlight ==
  ASSUME Typed, phase \in {"native", "callout", "callee"},
         phase' \in {"native", "callout", "callee"}, active' = active,
         jit_active_region_stale' \in BOOLEAN, jit_cache' \subseteq Regions
  PROVE  RegionTyped'
  BY DEF Typed, RegionTyped, InFlight

LEMMA LeaveTyped ==
  ASSUME Typed, jit_leave_region, UNCHANGED <<guest, mmu, caches>>,
         rip' \in Entries, rip_before' \in Entries, return_pc' \in Entries
  PROVE  Typed'
  <1>1. GuestTyped' BY DEF Typed, GuestTyped, guest
  <1>2. MmuTyped' BY DEF Typed, MmuTyped, mmu
  <1>3. HotTyped' /\ MemosTyped' /\ jit_cache' \subseteq Regions BY SameCachesTyped
  <1>4. LoopTyped' BY DEF LoopTyped, jit_leave_region
  <1>5. RegionTyped' BY <1>3, Zenon DEF RegionTyped, InFlight, jit_leave_region
  <1>6. QED BY <1>1, <1>2, <1>3, <1>4, <1>5 DEF Typed

LEMMA NativeTyped ==
  ASSUME Typed, rax_jit_mem_store \/ NativeExit \/ rax_jit_call
  PROVE  Typed'
  <1>1. /\ rip \in Entries /\ rip_before \in Entries /\ return_pc \in Entries
        /\ jit_active_region_stale \in BOOLEAN
    BY DEF Typed, LoopTyped, RegionTyped
  <1>2. CASE NativeExit BY <1>1, <1>2, LeaveTyped DEF NativeExit
  <1>3. CASE rax_jit_mem_store
    <2>1. phase = "native" /\ UNCHANGED <<rip_before, return_pc, mmu, caches>>
      BY <1>3 DEF rax_jit_mem_store
    <2>2. CASE rip' \in Entries /\ jit_leave_region /\ UNCHANGED guest
      BY <1>1, <2>1, <2>2, LeaveTyped
    <2>3. ASSUME NEW w \in Stores, NEW c \in Contents, Write(w[1], w[2], c),
                 UNCHANGED <<rip, phase, region>>
          PROVE  Typed'
      <3>1. GuestTyped' BY <2>3, WriteTyped
      <3>2. MmuTyped' BY <2>1 DEF Typed, MmuTyped, mmu
      <3>3. HotTyped' /\ MemosTyped' /\ jit_cache' \subseteq Regions BY <2>1, SameCachesTyped
      <3>4. LoopTyped' BY <2>1, <2>3 DEF Typed, LoopTyped
      <3>5. RegionTyped' BY <1>1, <2>1, <2>3, <3>3, StaysInFlight DEF region
      <3>6. QED BY <3>1, <3>2, <3>3, <3>4, <3>5 DEF Typed
    <2>4. QED BY <1>3, <2>2, <2>3 DEF rax_jit_mem_store
  <1>4. CASE rax_jit_call
    <2>1. /\ phase = "native" /\ phase' = "callout" /\ UNCHANGED <<rip_before, region>>
          /\ return_pc' \in Entries /\ rip' \in Entries
      BY <1>4 DEF rax_jit_call
    <2>2. PICK w \in Stores, c \in Contents :
            /\ UNCHANGED <<code_page_bitmap, caches>>
            /\ smc_dirty_pages' = note_smc(w[1], w[2])
            /\ Write(w[1], w[2], c)
      BY <1>4 DEF rax_jit_call
    <2>3. GuestTyped' BY <2>2, WriteTyped
    <2>4. smc_dirty_pages' \subseteq Pages BY <2>2, NoteTyped DEF Typed
    <2>5. MmuTyped' BY <2>2, <2>4 DEF Typed, MmuTyped
    <2>6. HotTyped' /\ MemosTyped' /\ jit_cache' \subseteq Regions BY <2>2, SameCachesTyped
    <2>7. LoopTyped' BY <1>1, <2>1 DEF LoopTyped
    <2>8. RegionTyped' BY <1>1, <2>1, <2>6, StaysInFlight DEF region
    <2>9. QED BY <2>3, <2>5, <2>6, <2>7, <2>8 DEF Typed
  <1>5. QED BY <1>2, <1>3, <1>4

LEMMA CalleeTyped == ASSUME Typed, Callee PROVE Typed'
  <1>1. /\ rip \in Entries /\ rip_before \in Entries /\ return_pc \in Entries
        /\ jit_active_region_stale \in BOOLEAN /\ phase = "callee"
    BY DEF Typed, LoopTyped, RegionTyped, Callee
  <1>2. CASE CalloutLeave
    BY <1>1, <1>2, LeaveTyped, EntriesAssumption DEF CalloutLeave
  <1>3. CASE CalloutReturn
    <2>1. /\ phase' = "native" /\ return_pc' = 0
          /\ UNCHANGED <<guest, rip, rip_before, mmu, caches, region>>
      BY <1>3 DEF CalloutReturn
    <2>2. GuestTyped' BY <2>1 DEF Typed, GuestTyped, guest
    <2>3. MmuTyped' BY <2>1 DEF Typed, MmuTyped, mmu
    <2>4. HotTyped' /\ MemosTyped' /\ jit_cache' \subseteq Regions BY <2>1, SameCachesTyped
    <2>5. LoopTyped' BY <1>1, <2>1, EntriesAssumption DEF LoopTyped
    <2>6. RegionTyped' BY <1>1, <2>1, <2>4, StaysInFlight DEF region
    <2>7. QED BY <2>2, <2>3, <2>4, <2>5, <2>6 DEF Typed
  <1>4. CASE step /\ phase' = "callout" /\ UNCHANGED <<rip_before, return_pc, region>>
    <2>1. /\ GuestTyped' /\ MmuTyped' /\ HotTyped' /\ MemosTyped'
          /\ jit_cache' \subseteq Regions /\ rip' \in Entries
      BY <1>4, StepTyped
    <2>2. LoopTyped' BY <1>1, <1>4, <2>1 DEF LoopTyped
    <2>3. RegionTyped' BY <1>1, <1>4, <2>1, StaysInFlight DEF region
    <2>4. QED BY <2>1, <2>2, <2>3 DEF Typed
  <1>5. QED BY <1>2, <1>3, <1>4 DEF Callee, CalloutStep

LEMMA NextTyped == ASSUME Typed, [Next]_vars PROVE Typed'
  <1>1. /\ rip \in Entries /\ rip_before \in Entries /\ return_pc \in Entries
        /\ jit_active_region_stale \in BOOLEAN /\ jit_cache \subseteq Regions
    BY DEF Typed, LoopTyped, RegionTyped
  <1>2. CASE Drain \/ CalloutDrain
    <2>1. /\ drain_smc
          /\ \/ phase = "boundary" /\ phase' = "dispatch"
             \/ phase = "callout" /\ phase' = "callee"
      BY <1>2 DEF Drain, CalloutDrain
    <2>2. /\ GuestTyped' /\ MmuTyped' /\ HotTyped' /\ MemosTyped'
          /\ jit_cache' \subseteq Regions /\ active' = active
          /\ jit_active_region_stale' \in BOOLEAN /\ UNCHANGED <<rip, rip_before, return_pc>>
      BY <2>1, DrainTyped
    <2>3. LoopTyped' BY <1>1, <2>1, <2>2 DEF LoopTyped
    <2>4. RegionTyped' BY <2>1, <2>2 DEF Typed, RegionTyped, InFlight
    <2>5. QED BY <2>2, <2>3, <2>4 DEF Typed
  <1>3. CASE RunNative
    <2>1. PICK r \in jit_cache : jit_enter_region(r) BY <1>3 DEF RunNative
    <2>2. UNCHANGED <<guest, rip, rip_before, return_pc, smc_dirty_pages, caches>>
      BY <1>3 DEF RunNative
    <2>3. HotTyped' /\ MemosTyped' /\ jit_cache' \subseteq Regions BY <2>2, SameCachesTyped
    <2>4. r \in Regions BY <1>1
    <2>5. MmuTyped' /\ RegionTyped' BY <2>1, <2>2, <2>3, <2>4, EnterTyped
    <2>6. GuestTyped' BY <2>2 DEF Typed, GuestTyped, guest
    <2>7. LoopTyped' BY <1>1, <2>1, <2>2 DEF LoopTyped, jit_enter_region
    <2>8. QED BY <2>3, <2>5, <2>6, <2>7 DEF Typed
  <1>4. CASE Interpret
    <2>1. /\ phase = "dispatch" /\ step /\ rip_before' = rip /\ phase' = "sample"
          /\ UNCHANGED <<return_pc, region>>
      BY <1>4 DEF Interpret
    <2>2. /\ GuestTyped' /\ MmuTyped' /\ HotTyped' /\ MemosTyped'
          /\ jit_cache' \subseteq Regions /\ rip' \in Entries
      BY <2>1, StepTyped
    <2>3. LoopTyped' BY <1>1, <2>1, <2>2 DEF LoopTyped
    <2>4. RegionTyped' BY <2>1, <2>2 DEF Typed, RegionTyped, InFlight, region
    <2>5. QED BY <2>2, <2>3, <2>4 DEF Typed
  <1>5. CASE DeviceWrite
    <2>1. /\ UNCHANGED <<page_table, cr3, loop, mmu, caches, region>>
          /\ memory' \in [Frames -> Contents]
      BY <1>5 DEF DeviceWrite, Typed, GuestTyped
    <2>2. GuestTyped' BY <2>1 DEF Typed, GuestTyped
    <2>3. HotTyped' /\ MemosTyped' BY <2>1, SameCachesTyped
    <2>4. LoopTyped' /\ MmuTyped' BY <2>1 DEF Typed, LoopTyped, MmuTyped, loop, mmu
    <2>5. RegionTyped' BY <2>1 DEF Typed, RegionTyped, InFlight, loop, caches, region
    <2>6. QED BY <2>2, <2>3, <2>4, <2>5 DEF Typed
  <1>6. CASE reset_state
    <2>1. /\ cr3' \in Spaces /\ rip' = 0 /\ jit_cache' = {}
          /\ UNCHANGED <<memory, page_table, phase, rip_before, return_pc, mmu, region>>
      BY <1>6 DEF reset_state
    <2>2. HotTyped' /\ MemosTyped' BY <1>6, EmptiedTyped DEF reset_state
    <2>3. GuestTyped' BY <2>1 DEF Typed, GuestTyped
    <2>4. LoopTyped' BY <2>1, EntriesAssumption DEF Typed, LoopTyped
    <2>5. MmuTyped' BY <2>1 DEF Typed, MmuTyped, mmu
    <2>6. RegionTyped' BY <2>1 DEF Typed, RegionTyped, InFlight, region
    <2>7. QED BY <2>2, <2>3, <2>4, <2>5, <2>6 DEF Typed
  <1>7. CASE UNCHANGED vars
    <2>1. UNCHANGED <<guest, loop, mmu, caches, region>> BY <1>7 DEF vars
    <2>2. HotTyped' /\ MemosTyped' BY <2>1, SameCachesTyped
    <2>3. GuestTyped' /\ LoopTyped' /\ MmuTyped'
      BY <2>1 DEF Typed, GuestTyped, LoopTyped, MmuTyped, guest, loop, mmu
    <2>4. RegionTyped' BY <2>1 DEF Typed, RegionTyped, InFlight, loop, caches, region
    <2>5. QED BY <2>2, <2>3, <2>4 DEF Typed
  <1>8. QED BY <1>2, <1>3, <1>4, <1>5, <1>6, <1>7, SampleTyped, NativeTyped, CalleeTyped DEF Next

(* The caches keep their types and their bounds, whatever bypasses the     *)
(* journal: no hotness counter stays at the threshold and the memo table   *)
(* never outgrows its cap (jit_sample_backedge), and a region is in flight *)
(* exactly while native code or a callee of it runs (jit_enter_region,     *)
(* jit_leave_region).                                                      *)
THEOREM CachesAreTyped == Spec => []TypeOK
  <1>1. Init => Typed
    <2> SUFFICES ASSUME Init PROVE Typed OBVIOUS
    <2>1. GuestTyped BY DEF Init, GuestTyped
    <2>2. LoopTyped BY EntriesAssumption DEF Init, LoopTyped
    <2>3. MmuTyped BY DEF Init, MmuTyped
    <2>4. HotTyped BY SizesAssumption DEF Init, HotTyped
    <2>5. MemosTyped BY FS_EmptySet, SizesAssumption DEF Init, MemosTyped
    <2>6. RegionTyped BY Zenon DEF Init, RegionTyped, InFlight
    <2>7. QED BY <2>1, <2>2, <2>3, <2>4, <2>5, <2>6 DEF Typed
  <1>2. Typed /\ [Next]_vars => Typed' BY NextTyped
  <1>3. QED BY <1>1, <1>2, TypedIsTypeOK, PTL DEF Spec
=============================================================================
