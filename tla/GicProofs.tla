------------------------------- MODULE GicProofs -------------------------------
(***************************************************************************)
(* Proofs about the GICv3, for every set of interrupts and of priorities.  *)
(***************************************************************************)
EXTENDS GicService, WellFoundedInduction, TLAPS

Entries == [intid : Intids, priority : Priorities]

(* The intids and the priorities are natural numbers, and 1023 is no intid. *)
LEMMA Numbers ==
  /\ Intids \subseteq 0..1019 /\ SPURIOUS \notin Intids
  /\ Priorities \subseteq 0..255 /\ IDLE \in Priorities /\ DEFAULT \in Priorities
  /\ Sgis \subseteq Intids /\ Ppis \subseteq Intids /\ Spis \subseteq Intids
  /\ Private \subseteq Intids
  BY GicAssumption DEF Intids, Private, SPURIOUS, IDLE, DEFAULT

(* The types of a controller's fields, and its priorities as numbers. *)
LEMMA GicFields ==
  ASSUME NEW g \in Gics
  PROVE  /\ g.int \in [Intids -> Interrupts]
         /\ g.priority_mask \in Priorities /\ g.running_priority \in Priorities
         /\ g.grp0 \in BOOLEAN /\ g.grp1 \in BOOLEAN /\ g.eoi_mode \in BOOLEAN
         /\ g.irq_line \in BOOLEAN
         /\ g.active_priorities \in Seq(Entries)
         /\ g.highest_pending_intid \in Intids \cup {SPURIOUS}
  BY DEF Gics, Entries

LEMMA PriorityRange ==
  ASSUME NEW g \in Gics
  PROVE  /\ g.running_priority \in Nat
         /\ \A i \in Intids : i \in Nat /\ i < 1024 /\ g.int[i].priority \in Nat
  <1>1. \A i \in Intids : g.int[i] \in Interrupts BY GicFields
  <1>2. \A i \in Intids : g.int[i].priority \in Priorities BY <1>1 DEF Interrupts
  <1>3. Priorities \subseteq Nat /\ \A i \in Intids : i \in Nat /\ i < 1024
    <2>1. \A i \in 0..1019 : i \in Nat /\ i < 1024 OBVIOUS
    <2>2. \A p \in 0..255 : p \in Nat OBVIOUS
    <2>3. QED BY <2>1, <2>2, Numbers
  <1>4. g.running_priority \in Priorities BY GicFields
  <1>5. g.running_priority \in Nat BY <1>3, <1>4, Zenon
  <1>6. \A i \in Intids : g.int[i].priority \in Nat BY <1>2, <1>3, Zenon
  <1>7. QED BY <1>3, <1>5, <1>6

(* Sequences: their members, lengths, parts and concatenations. *)
LEMMA SeqMember ==
  ASSUME NEW S, NEW s \in Seq(S), NEW k \in 1..Len(s)
  PROVE  s[k] \in S
  OBVIOUS

LEMMA SeqEmpty ==
  ASSUME NEW S
  PROVE  /\ <<>> \in Seq(S) /\ Len(<<>>) = 0
         /\ \A s \in Seq(S) : s # <<>> => Len(s) \in Nat \ {0}
  OBVIOUS

LEMMA SeqLength ==
  ASSUME NEW S, NEW s \in Seq(S)
  PROVE  Len(s) \in Nat /\ s \in [1..Len(s) -> S] /\ DOMAIN s = 1..Len(s)
  OBVIOUS

LEMMA SeqPart ==
  ASSUME NEW S, NEW s, NEW a \in Int, NEW z \in Int, \A k \in a..z : s[k] \in S
  PROVE  /\ SubSeq(s, a, z) \in Seq(S)
         /\ Len(SubSeq(s, a, z)) = IF a <= z THEN z - a + 1 ELSE 0
         /\ \A k \in 1..z - a + 1 : SubSeq(s, a, z)[k] = s[a + k - 1]
  OBVIOUS

LEMMA SeqAppend ==
  ASSUME NEW S, NEW s \in Seq(S), NEW e \in S
  PROVE  /\ Append(s, e) \in Seq(S) /\ Append(s, e) # <<>> /\ Len(Append(s, e)) = Len(s) + 1
         /\ \A k \in 1..Len(s) : Append(s, e)[k] = s[k]
         /\ Append(s, e)[Len(s) + 1] = e
  OBVIOUS

LEMMA SeqConcat ==
  ASSUME NEW S, NEW s \in Seq(S), NEW t \in Seq(S)
  PROVE  /\ s \o t \in Seq(S) /\ Len(s \o t) = Len(s) + Len(t)
         /\ \A k \in 1..Len(s) + Len(t) :
              (s \o t)[k] = IF k <= Len(s) THEN s[k] ELSE t[k - Len(s)]
  OBVIOUS

(* A non-empty set of natural numbers has a least element. *)
LEMMA LeastNat ==
  ASSUME NEW T \in SUBSET Nat, T # {}
  PROVE  \E m \in T : \A n \in T : m <= n
  <1> DEFINE R == OpToRel(<, Nat)
  <1>1. IsWellFoundedOn(R, Nat) BY NatLessThanWellFounded
  <1> HIDE DEF R
  <1>2. PICK m \in T : \A n \in T : ~(<<n, m>> \in R) BY <1>1, WFMin, Zenon
  <1>3. \A n \in T : ~(n < m) BY <1>2, Zenon DEF R, OpToRel
  <1>4. QED BY <1>3

-----------------------------------------------------------------------------
(* The two caches are current: highest_pending_intid is the most urgent    *)
(* candidate, if there is one, and the published line is the test          *)
(* pending_interrupt makes.                                                *)
Current(g) ==
  /\ g.highest_pending_intid = SPURIOUS => Candidates(g) = {}
  /\ g.highest_pending_intid # SPURIOUS =>
       /\ g.highest_pending_intid \in Candidates(g)
       /\ \A j \in Candidates(g) : Outranks(g, g.highest_pending_intid, j)
  /\ g.irq_line = pending_interrupt(g)

(* The fields that update_all_cpus leaves alone. *)
SameSettings(g, u) ==
  /\ u.int = g.int /\ u.priority_mask = g.priority_mask
  /\ u.grp0 = g.grp0 /\ u.grp1 = g.grp1 /\ u.eoi_mode = g.eoi_mode
  /\ u.running_priority = g.running_priority
  /\ u.active_priorities = g.active_priorities

(* Some candidate outranks them all. *)
LEMMA BestCandidate ==
  ASSUME NEW g \in Gics, Candidates(g) # {}
  PROVE  \E i \in Candidates(g) : \A j \in Candidates(g) : Outranks(g, i, j)
  <1> DEFINE C == Candidates(g)
             rank(i) == g.int[i].priority * 1024 + i
             R == {rank(i) : i \in C}
  <1>1. /\ C \subseteq Intids
        /\ \A i \in C : i \in Nat /\ i < 1024 /\ g.int[i].priority \in Nat
    BY PriorityRange DEF Candidates
  <1>2. \A i \in C : rank(i) \in Nat BY <1>1
  <1>3. R \in SUBSET Nat /\ R # {} BY <1>2
  <1>4. PICK m \in R : \A n \in R : m <= n BY <1>3, LeastNat, Zenon
  <1>5. PICK i \in C : \A j \in C : rank(i) <= rank(j) BY <1>4
  <1>6. \A j \in C : Outranks(g, i, j) BY <1>1, <1>5 DEF Outranks
  <1>7. QED BY <1>6

(* update_all_cpus makes the caches current and leaves the rest alone. *)
LEMMA UpdateIsCurrent ==
  ASSUME NEW g \in Gics
  PROVE  /\ update_all_cpus(g) \in Gics
         /\ Current(update_all_cpus(g))
         /\ SameSettings(g, update_all_cpus(g))
  <1> DEFINE C == Candidates(g)
             u == update_pending(g)
             v == update_all_cpus(g)
             h == u.highest_pending_intid
  <1>1. /\ C = {} => h = SPURIOUS
        /\ C # {} => h = CHOOSE i \in C : \A j \in C : Outranks(g, i, j)
    BY DEF update_pending, Gics
  <1>2. C # {} => h \in C /\ \A j \in C : Outranks(g, h, j)
    BY <1>1, BestCandidate
  <1>3. C \subseteq Intids BY DEF Candidates
  <1>4. h \in Intids \cup {SPURIOUS} BY <1>1, <1>2, <1>3
  <1>5. u = [g EXCEPT !.highest_pending_intid = h] BY DEF update_pending, Gics
  <1>6. u \in Gics /\ SameSettings(g, u) BY <1>4, <1>5 DEF Gics, SameSettings
  <1>7. v = [u EXCEPT !.irq_line = pending_interrupt(u)] BY DEF update_all_cpus
  <1>8. pending_interrupt(u) \in BOOLEAN BY DEF pending_interrupt
  <1>9. /\ v \in Gics /\ SameSettings(g, v) /\ v.highest_pending_intid = h
        /\ v.irq_line = pending_interrupt(u)
    BY <1>6, <1>7, <1>8 DEF Gics, SameSettings
  <1>10. pending_interrupt(u) = pending_interrupt(v)
    BY <1>6, <1>9 DEF pending_interrupt, SameSettings
  <1>11. Candidates(v) = C /\ \A i, j : Outranks(v, i, j) = Outranks(g, i, j)
    BY <1>9 DEF SameSettings, Candidates, Outranks
  <1>12. Current(v)
    <2>1. h = SPURIOUS => C = {} BY <1>2, <1>3, Numbers
    <2>2. h # SPURIOUS => h \in C /\ \A j \in C : Outranks(g, h, j) BY <1>1, <1>2
    <2>3. QED BY <2>1, <2>2, <1>9, <1>10, <1>11 DEF Current
  <1>13. QED BY <1>9, <1>12

(* Current caches signal exactly when a signal is due. *)
LEMMA CurrentIsDue ==
  ASSUME NEW g \in Gics, Current(g)
  PROVE  g.irq_line = SignalDue(g)
  <1> DEFINE h == g.highest_pending_intid
  <1>1. /\ g.running_priority \in Nat
        /\ \A i \in Intids : g.int[i].priority \in Nat
    BY PriorityRange
  <1>2. Candidates(g) \subseteq Intids BY DEF Candidates
  <1>3. CASE h = SPURIOUS
    BY <1>3 DEF Current, pending_interrupt, SignalDue
  <1>4. CASE h # SPURIOUS
    <2>1. h \in Candidates(g) /\ \A j \in Candidates(g) : Outranks(g, h, j)
      BY <1>4 DEF Current
    <2>2. \A j \in Candidates(g) : g.int[h].priority <= g.int[j].priority
      BY <2>1, <1>1, <1>2 DEF Outranks
    <2>3. (\E i \in Candidates(g) : g.int[i].priority < g.running_priority)
            <=> g.int[h].priority < g.running_priority
      BY <2>1, <2>2, <1>1, <1>2
    <2>4. g.irq_line = pending_interrupt(g) BY DEF Current
    <2>5. QED BY <2>3, <2>4, <1>4 DEF pending_interrupt, SignalDue
  <1>5. QED BY <1>3, <1>4

-----------------------------------------------------------------------------
(* The operations, one by one: each returns a controller with current      *)
(* caches.                                                                 *)
Kept(g) == g \in Gics /\ Current(g)

LEMMA IntKept ==
  ASSUME NEW g \in Gics, NEW f \in [Intids -> Interrupts]
  PROVE  /\ [g EXCEPT !.int = f] \in Gics
         /\ Kept(update_all_cpus([g EXCEPT !.int = f]))
  <1>1. [g EXCEPT !.int = f] \in Gics BY DEF Gics
  <1>2. QED BY <1>1, UpdateIsCurrent DEF Kept

(* A write of one bit or field of one interrupt. *)
LEMMA OneKept ==
  ASSUME NEW g \in Gics, NEW i \in Intids, NEW b \in BOOLEAN
  PROVE  /\ Kept(update_all_cpus([g EXCEPT !.int[i].pending = b]))
         /\ Kept(update_all_cpus([g EXCEPT !.int[i].active = b]))
         /\ Kept(update_all_cpus([g EXCEPT !.int[i].routed = b]))
  <1>1. g.int \in [Intids -> Interrupts] /\ g.int[i] \in Interrupts BY GicFields
  <1>2. /\ [g.int[i] EXCEPT !.pending = b] \in Interrupts
        /\ [g.int[i] EXCEPT !.active = b] \in Interrupts
        /\ [g.int[i] EXCEPT !.routed = b] \in Interrupts
    BY <1>1 DEF Interrupts
  <1>3. /\ [g.int EXCEPT ![i].pending = b] \in [Intids -> Interrupts]
        /\ [g.int EXCEPT ![i].active = b] \in [Intids -> Interrupts]
        /\ [g.int EXCEPT ![i].routed = b] \in [Intids -> Interrupts]
    BY <1>1, <1>2
  <1>4. /\ [g EXCEPT !.int[i].pending = b] = [g EXCEPT !.int = [g.int EXCEPT ![i].pending = b]]
        /\ [g EXCEPT !.int[i].active = b] = [g EXCEPT !.int = [g.int EXCEPT ![i].active = b]]
        /\ [g EXCEPT !.int[i].routed = b] = [g EXCEPT !.int = [g.int EXCEPT ![i].routed = b]]
    BY DEF Gics
  <1>5. QED BY <1>3, <1>4, IntKept, Zenon

LEMMA LineKept ==
  ASSUME NEW g \in Gics, NEW i \in Intids, NEW b \in BOOLEAN
  PROVE  /\ Kept(set_line(g, i, b)) /\ Kept(raise_sgi(g, i))
         /\ Kept(write_irouter(g, i, b)) /\ Kept(deactivate(g, i))
  <1>1. Kept(set_line(g, i, b)) BY OneKept, Zenon DEF set_line
  <1>2. Kept(raise_sgi(g, i)) BY OneKept, Zenon DEF raise_sgi
  <1>3. Kept(write_irouter(g, i, b)) BY OneKept, Zenon DEF write_irouter
  <1>4. Kept(deactivate(g, i)) BY OneKept, Zenon DEF deactivate
  <1>5. QED BY <1>1, <1>2, <1>3, <1>4

(* A register write over a bank of interrupts. *)
LEMMA BankKept ==
  ASSUME NEW g \in Gics, NEW S, NEW b \in BOOLEAN, NEW p \in Priorities
  PROVE  /\ Kept(write_enable(g, S, b)) /\ Kept(write_pending(g, S, b))
         /\ Kept(write_icactiver(g, S)) /\ Kept(write_priority(g, S, p))
  <1> DEFINE e == [i \in Intids |-> IF i \in S THEN [g.int[i] EXCEPT !.enabled = b] ELSE g.int[i]]
             q == [i \in Intids |-> IF i \in S THEN [g.int[i] EXCEPT !.pending = b] ELSE g.int[i]]
             a == [i \in Intids |-> IF i \in S THEN [g.int[i] EXCEPT !.active = FALSE] ELSE g.int[i]]
             r == [i \in Intids |-> IF i \in S THEN [g.int[i] EXCEPT !.priority = p] ELSE g.int[i]]
  <1>1. \A i \in Intids : g.int[i] \in Interrupts BY GicFields
  <1>2. \A i \in Intids : /\ [g.int[i] EXCEPT !.enabled = b] \in Interrupts
                          /\ [g.int[i] EXCEPT !.pending = b] \in Interrupts
                          /\ [g.int[i] EXCEPT !.active = FALSE] \in Interrupts
                          /\ [g.int[i] EXCEPT !.priority = p] \in Interrupts
    BY <1>1, Zenon DEF Interrupts
  <1>3. /\ e \in [Intids -> Interrupts] /\ q \in [Intids -> Interrupts]
        /\ a \in [Intids -> Interrupts] /\ r \in [Intids -> Interrupts]
    BY <1>1, <1>2, Zenon
  <1>4. /\ write_enable(g, S, b) = update_all_cpus([g EXCEPT !.int = e])
        /\ write_pending(g, S, b) = update_all_cpus([g EXCEPT !.int = q])
        /\ write_icactiver(g, S) = update_all_cpus([g EXCEPT !.int = a])
        /\ write_priority(g, S, p) = update_all_cpus([g EXCEPT !.int = r])
    BY DEF write_enable, write_pending, write_icactiver, write_priority, Each
  <1> HIDE DEF e, q, a, r
  <1>5. QED BY <1>3, <1>4, IntKept

(* The stack without its k-th entry. *)
LEMMA RemoveAtProperties ==
  ASSUME NEW S, NEW s \in Seq(S), NEW k \in 1..Len(s)
  PROVE  /\ RemoveAt(s, k) \in Seq(S)
         /\ k = Len(s) => /\ Len(RemoveAt(s, k)) = Len(s) - 1
                          /\ \A j \in 1..Len(s) - 1 : RemoveAt(s, k)[j] = s[j]
  <1> DEFINE a == SubSeq(s, 1, k - 1)
             z == SubSeq(s, k + 1, Len(s))
  <1>1. Len(s) \in Nat /\ \A j \in 1..Len(s) : s[j] \in S BY SeqLength, SeqMember
  <1>2. /\ a \in Seq(S)
        /\ Len(a) = IF 1 <= k - 1 THEN k - 1 - 1 + 1 ELSE 0
        /\ \A j \in 1..k - 1 - 1 + 1 : a[j] = s[1 + j - 1]
    <2>1. \A j \in 1..k - 1 : s[j] \in S BY <1>1
    <2>2. 1 \in Int /\ k - 1 \in Int BY <1>1
    <2>3. QED BY <2>1, <2>2, SeqPart
  <1>3. /\ z \in Seq(S)
        /\ Len(z) = IF k + 1 <= Len(s) THEN Len(s) - (k + 1) + 1 ELSE 0
    <2>1. \A j \in k + 1..Len(s) : s[j] \in S BY <1>1
    <2>2. k + 1 \in Int /\ Len(s) \in Int BY <1>1
    <2>3. QED BY <2>1, <2>2, SeqPart
  <1>4. RemoveAt(s, k) = a \o z BY DEF RemoveAt
  <1> HIDE DEF a, z
  <1>5. /\ a \o z \in Seq(S)
        /\ Len(a \o z) = Len(a) + Len(z)
        /\ \A j \in 1..Len(a) + Len(z) :
             (a \o z)[j] = IF j <= Len(a) THEN a[j] ELSE z[j - Len(a)]
    BY <1>2, <1>3, SeqConcat, Zenon
  <1>6. ASSUME k = Len(s)
        PROVE  /\ Len(a \o z) = Len(s) - 1
               /\ \A j \in 1..Len(s) - 1 : (a \o z)[j] = s[j]
    <2>1. Len(a) = Len(s) - 1 /\ Len(z) = 0 BY <1>1, <1>2, <1>3, <1>6
    <2>2. \A j \in 1..Len(s) - 1 : a[j] = s[j] BY <1>1, <1>2, <1>6
    <2>3. QED BY <1>1, <1>5, <2>1, <2>2
  <1>7. QED BY <1>4, <1>5, <1>6

(* Dropped removes an entry of the intid, if there is one. *)
LEMMA DroppedProperties ==
  ASSUME NEW s \in Seq(Entries), NEW i
  PROVE  /\ Dropped(s, i) \in Seq(Entries)
         /\ (\E k \in 1..Len(s) : s[k].intid = i) =>
              \E k \in 1..Len(s) : s[k].intid = i /\ Dropped(s, i) = RemoveAt(s, k)
  <1> DEFINE I == {k \in 1..Len(s) : s[k].intid = i}
  <1>1. I \in SUBSET Nat /\ I \subseteq 1..Len(s) BY SeqLength
  <1>2. CASE I # {}
    <2>1. Dropped(s, i) = RemoveAt(s, Min(I)) BY <1>2 DEF Dropped
    <2>2. Min(I) \in I
      <3> HIDE DEF I
      <3>1. \E m \in I : \A n \in I : m <= n BY <1>1, <1>2, LeastNat
      <3>2. QED BY <3>1 DEF Min
    <2>3. RemoveAt(s, Min(I)) \in Seq(Entries) BY <1>1, <2>2, RemoveAtProperties
    <2>4. QED BY <2>1, <2>2, <2>3, Zenon
  <1>3. CASE I = {}
    <2>1. Dropped(s, i) = s BY <1>3 DEF Dropped
    <2>2. QED BY <1>3, <2>1
  <1>4. QED BY <1>2, <1>3

-----------------------------------------------------------------------------
(* ICC_IAR, ICC_EOIR and the other operations. *)
LEMMA AcknowledgeKept ==
  ASSUME NEW g \in Gics
  PROVE  Kept(acknowledge(g))
  <1> DEFINE i == g.highest_pending_intid
             e == [intid |-> i, priority |-> g.int[i].priority]
             f == [g.int EXCEPT ![i].active = TRUE, ![i].pending = ~g.int[i].edge]
             w == [g EXCEPT !.int = f,
                            !.active_priorities = Append(g.active_priorities, e),
                            !.running_priority = g.int[i].priority]
  <1>1. CASE i = SPURIOUS BY <1>1, UpdateIsCurrent DEF acknowledge, Kept
  <1>2. CASE i # SPURIOUS
    <2>1. i \in Intids BY <1>2, GicFields
    <2>2. g.int \in [Intids -> Interrupts] /\ g.int[i] \in Interrupts BY <2>1, GicFields
    <2>3. g.int[i].priority \in Priorities /\ (~g.int[i].edge) \in BOOLEAN
      BY <2>2 DEF Interrupts
    <2>4. e \in Entries BY <2>1, <2>3 DEF Entries
    <2>5. Append(g.active_priorities, e) \in Seq(Entries)
      BY <2>4, GicFields, SeqAppend
    <2>6. f \in [Intids -> Interrupts] BY <2>1, <2>2, <2>3, Zenon DEF Interrupts
    <2>7. acknowledge(g) = update_all_cpus(w) BY <1>2, <2>2, Zenon DEF acknowledge, Gics
    <2> HIDE DEF f, e
    <2>8. w \in Gics BY <2>3, <2>5, <2>6, Zenon DEF Gics, Entries
    <2>9. QED BY <2>7, <2>8, UpdateIsCurrent DEF Kept
  <1>3. QED BY <1>1, <1>2

LEMMA EndKept ==
  ASSUME NEW g \in Gics, NEW i \in Intids
  PROVE  Kept(end_of_interrupt(g, i))
  <1> DEFINE s == Dropped(g.active_priorities, i)
             f == [g.int EXCEPT ![i].active = g.int[i].active /\ g.eoi_mode]
             w == [g EXCEPT !.int = f, !.active_priorities = s, !.running_priority = Top(s)]
  <1>1. s \in Seq(Entries) BY GicFields, DroppedProperties
  <1>2. Top(s) \in Priorities
    <2>1. CASE s = <<>> BY <2>1, Numbers DEF Top
    <2>2. CASE s # <<>>
      <3>1. Len(s) \in 1..Len(s) BY <1>1, <2>2, SeqLength, SeqEmpty
      <3>2. s[Len(s)] \in Entries BY <1>1, <3>1, SeqMember
      <3>3. QED BY <2>2, <3>2 DEF Top, Last, Entries
    <2>3. QED BY <2>1, <2>2
  <1>3. g.int \in [Intids -> Interrupts] /\ g.int[i] \in Interrupts BY GicFields
  <1>4. f \in [Intids -> Interrupts] BY <1>3, Zenon DEF Interrupts
  <1>5. end_of_interrupt(g, i) = update_all_cpus(w) BY Zenon DEF end_of_interrupt, Gics
  <1> HIDE DEF f, s
  <1>6. w \in Gics BY <1>1, <1>2, <1>4, Zenon DEF Gics, Entries
  <1>7. QED BY <1>5, <1>6, UpdateIsCurrent DEF Kept

LEMMA InterfaceKept ==
  ASSUME NEW g \in Gics, NEW p \in Priorities, NEW b \in BOOLEAN, NEW one
  PROVE  Kept(set_priority_mask(g, p)) /\ Kept(set_group_enable(g, one, b))
  <1>1. /\ [g EXCEPT !.priority_mask = p] \in Gics
        /\ [g EXCEPT !.grp0 = b] \in Gics /\ [g EXCEPT !.grp1 = b] \in Gics
    BY DEF Gics
  <1>2. QED BY <1>1, UpdateIsCurrent DEF Kept, set_priority_mask, set_group_enable

(* The two writes that recompute nothing change nothing the caches see. *)
LEMMA SilentKept ==
  ASSUME NEW g, Kept(g), NEW S \in (SUBSET Private) \cup (SUBSET Spis), NEW b \in BOOLEAN
  PROVE  Kept(write_ctlr(g, b)) /\ Kept(write_icfgr(g, S, b))
  <1> DEFINE f == [i \in Intids |-> IF i \in S THEN [g.int[i] EXCEPT !.edge = b] ELSE g.int[i]]
             w == [g EXCEPT !.int = f]
             c == write_ctlr(g, b)
  <1>1. g \in Gics /\ \A i \in Intids : g.int[i] \in Interrupts BY GicFields DEF Kept
  <1>2. f \in [Intids -> Interrupts]
    <2>1. \A i \in Intids : [g.int[i] EXCEPT !.edge = b] \in Interrupts BY <1>1 DEF Interrupts
    <2>2. QED BY <1>1, <2>1
  <1>3. w \in Gics /\ Kept(update_all_cpus(w)) BY <1>1, <1>2, IntKept, Zenon
  <1>4. /\ write_icfgr(g, S, b) = w \/ write_icfgr(g, S, b) = update_all_cpus(w)
    BY DEF write_icfgr, Each
  <1>5. \A i \in Intids : /\ f[i].priority = g.int[i].priority
                          /\ f[i].enabled = g.int[i].enabled
                          /\ f[i].pending = g.int[i].pending
                          /\ f[i].routed = g.int[i].routed
    BY <1>1 DEF Interrupts
  <1> HIDE DEF f
  <1>6. /\ w.int = f /\ w.priority_mask = g.priority_mask
        /\ w.highest_pending_intid = g.highest_pending_intid
        /\ w.irq_line = g.irq_line /\ w.grp0 = g.grp0 /\ w.grp1 = g.grp1
        /\ w.running_priority = g.running_priority
    BY <1>1 DEF Gics
  <1> HIDE DEF w
  <1>7. Candidates(w) = Candidates(g) BY <1>5, <1>6 DEF Candidates
  <1>8. \A i, j \in Intids : Outranks(w, i, j) = Outranks(g, i, j)
    BY <1>5, <1>6 DEF Outranks
  <1>9. pending_interrupt(w) = pending_interrupt(g)
    <2>1. g.highest_pending_intid \in Intids \cup {SPURIOUS} BY <1>1, GicFields
    <2>2. QED BY <2>1, <1>5, <1>6 DEF pending_interrupt
  <1>10. Current(w)
    <2>1. Candidates(g) \subseteq Intids BY DEF Candidates
    <2>2. QED BY <2>1, <1>6, <1>7, <1>8, <1>9 DEF Current, Kept
  <1>11. Kept(write_icfgr(g, S, b)) BY <1>3, <1>4, <1>10 DEF Kept
  <1>12. /\ c \in Gics /\ c.int = g.int /\ c.priority_mask = g.priority_mask
         /\ c.highest_pending_intid = g.highest_pending_intid
         /\ c.irq_line = g.irq_line /\ c.grp0 = g.grp0 /\ c.grp1 = g.grp1
         /\ c.running_priority = g.running_priority
    BY <1>1 DEF write_ctlr, Gics
  <1> HIDE DEF c
  <1>13. Kept(c)
    BY <1>12 DEF Kept, Current, Candidates, Outranks, pending_interrupt
  <1>14. QED BY <1>11, <1>13 DEF c

LEMMA NewKept == NewGic \in Gics /\ Kept(NewGic) /\ Kept(update_all_cpus(NewGic))
  <1> DEFINE f == [i \in Intids |-> [pending |-> FALSE, active |-> FALSE, enabled |-> FALSE,
                              priority |-> DEFAULT, edge |-> i \in Sgis, routed |-> TRUE]]
  <1>1. f \in [Intids -> Interrupts] BY Numbers DEF Interrupts
  <1>2. <<>> \in Seq(Entries) BY SeqEmpty
  <1>3. NewGic \in Gics BY <1>1, <1>2, Numbers DEF NewGic, Gics, Entries
  <1>4. Candidates(NewGic) = {} BY DEF Candidates, NewGic
  <1>5. Current(NewGic) BY <1>4 DEF Current, pending_interrupt, NewGic
  <1>6. QED BY <1>3, <1>5, UpdateIsCurrent DEF Kept

(* Any operation keeps the caches current. *)
LEMMA QuietKept ==
  ASSUME Kept(gic), QuietStep \/ \E S \in (SUBSET Private) \cup (SUBSET Spis) : PriorityWrite(S)
  PROVE  Kept(gic')
  <1>0. gic \in Gics BY DEF Kept
  <1>1. CASE DeviceLine
    <2>1. PICK i \in Ppis \cup Spis, level \in BOOLEAN : gic' = set_line(gic, i, level)
      BY <1>1 DEF DeviceLine
    <2>2. i \in Intids BY Numbers
    <2>3. QED BY <1>0, <2>1, <2>2, LineKept
  <1>2. ASSUME NEW S \in (SUBSET Private) \cup (SUBSET Spis), BankWrite(S)
        PROVE  Kept(gic')
    <2>1. PICK on \in BOOLEAN : \/ gic' = write_enable(gic, S, on)
                                \/ gic' = write_pending(gic, S, on)
                                \/ gic' = write_icfgr(gic, S, on)
      BY <1>2 DEF BankWrite
    <2>2. Kept(write_enable(gic, S, on)) /\ Kept(write_pending(gic, S, on))
      BY <1>0, Numbers, BankKept
    <2>3. Kept(write_icfgr(gic, S, on)) BY SilentKept
    <2>4. QED BY <2>1, <2>2, <2>3
  <1>3. ASSUME NEW S \in (SUBSET Private) \cup (SUBSET Spis), PriorityWrite(S)
        PROVE  Kept(gic')
    <2>1. PICK p \in Priorities : gic' = write_priority(gic, S, p) BY <1>3 DEF PriorityWrite
    <2>2. Kept(write_priority(gic, S, p)) BY <1>0, BankKept, Zenon
    <2>3. QED BY <2>1, <2>2
  <1>4. CASE InterfaceWrite
    <2>1. CASE \E mask \in Priorities : gic' = set_priority_mask(gic, mask)
      BY <1>0, <2>1, InterfaceKept, Zenon
    <2>2. CASE \E group1 \in BOOLEAN, enabled \in BOOLEAN :
                  gic' = set_group_enable(gic, group1, enabled)
      BY <1>0, <2>2, Numbers, InterfaceKept
    <2>3. CASE \E i \in Sgis : gic' = raise_sgi(gic, i)
      <3>1. PICK i \in Sgis : gic' = raise_sgi(gic, i) BY <2>3
      <3>2. i \in Intids /\ TRUE \in BOOLEAN BY Numbers
      <3>3. Kept(raise_sgi(gic, i)) BY <1>0, <3>2, LineKept, Zenon
      <3>4. QED BY <3>1, <3>3
    <2>4. CASE \E i \in Spis, here \in BOOLEAN : gic' = write_irouter(gic, i, here)
      <3>1. PICK i \in Spis, here \in BOOLEAN : gic' = write_irouter(gic, i, here) BY <2>4
      <3>2. i \in Intids BY Numbers
      <3>3. QED BY <1>0, <3>1, <3>2, LineKept
    <2>5. QED BY <1>4, <2>1, <2>2, <2>3, <2>4 DEF InterfaceWrite
  <1>5. QED BY <1>1, <1>2, <1>3, <1>4 DEF QuietStep

LEMMA NextKept ==
  ASSUME Kept(gic), GicNext
  PROVE  Kept(gic')
  <1>0. gic \in Gics BY DEF Kept
  <1>1. CASE QuietStep BY <1>1, QuietKept
  <1>2. CASE Begin BY <1>0, <1>2, AcknowledgeKept DEF Begin
  <1>3. CASE End
    <2> DEFINE s == gic.active_priorities
    <2>1. s \in Seq(Entries) /\ s # <<>> BY <1>0, <1>3, GicFields DEF End
    <2>2. Len(s) \in 1..Len(s) BY <2>1, SeqLength, SeqEmpty
    <2>3. s[Len(s)] \in Entries BY <2>1, <2>2, SeqMember
    <2>4. Last(s).intid \in Intids BY <2>3 DEF Last, Entries
    <2>5. QED BY <1>0, <1>3, <2>4, EndKept DEF End
  <1>4. CASE Reset BY <1>4, NewKept DEF Reset
  <1>5. CASE UnruledStep
    <2>1. CASE gic' = acknowledge(gic) BY <1>0, <2>1, AcknowledgeKept
    <2>2. CASE \E i \in Intids : gic' = end_of_interrupt(gic, i) \/ gic' = deactivate(gic, i)
      BY <1>0, <2>2, EndKept, LineKept, Zenon
    <2>3. CASE \E mode \in BOOLEAN : gic' = write_ctlr(gic, mode) BY <2>3, SilentKept
    <2>4. CASE \E S \in SUBSET Private : gic' = write_icactiver(gic, S)
      <3>1. PICK S \in SUBSET Private : gic' = write_icactiver(gic, S) BY <2>4
      <3>2. TRUE \in BOOLEAN /\ DEFAULT \in Priorities BY Numbers
      <3>3. Kept(write_icactiver(gic, S)) BY <1>0, <3>2, BankKept, Zenon
      <3>4. QED BY <3>1, <3>3
    <2>5. CASE \E S \in (SUBSET Private) \cup (SUBSET Spis) : PriorityWrite(S)
      BY <2>5, QuietKept
    <2>6. QED BY <1>5, <2>1, <2>2, <2>3, <2>4, <2>5 DEF UnruledStep
  <1>6. QED BY <1>1, <1>2, <1>3, <1>4, <1>5 DEF GicNext, NestedNext

(* Whatever the guest does to the controller, in any order, the line the   *)
(* virtual CPU tests without a lock is up exactly when a signal is due     *)
(* (update_all_cpus at the end of every operation that changes what        *)
(* pending_interrupt consults).                                            *)
THEOREM IrqLineStaysCurrent == GicSpec => [](TypeOK /\ IrqLineIsCurrent)
  <1>1. GicInit => Kept(gic) BY NewKept DEF GicInit
  <1>2. Kept(gic) /\ [GicNext]_gic => Kept(gic)'
    <2>1. ASSUME Kept(gic), GicNext PROVE Kept(gic)' BY <2>1, NextKept
    <2>2. ASSUME Kept(gic), UNCHANGED gic PROVE Kept(gic)' BY <2>2
    <2>3. QED BY <2>1, <2>2
  <1>3. Kept(gic) => TypeOK /\ IrqLineIsCurrent
    BY CurrentIsDue DEF Kept, TypeOK, IrqLineIsCurrent
  <1>4. QED BY <1>1, <1>2, <1>3, PTL DEF GicSpec

-----------------------------------------------------------------------------
(* Nested service.  The inductive invariant: the stack of active           *)
(* priorities holds exactly the active interrupts, each with the priority  *)
(* it still has, every entry more urgent than those below it, and the      *)
(* running priority is the top's.                                          *)
Nested(g) ==
  /\ Kept(g)
  /\ ~g.eoi_mode
  /\ g.running_priority = Top(g.active_priorities)
  /\ \A k \in 1..Len(g.active_priorities) :
       /\ g.int[g.active_priorities[k].intid].active
       /\ g.int[g.active_priorities[k].intid].priority = g.active_priorities[k].priority
  /\ \A i \in Intids : g.int[i].active =>
       \E k \in 1..Len(g.active_priorities) : g.active_priorities[k].intid = i
  /\ \A j, k \in 1..Len(g.active_priorities) :
       j < k => g.active_priorities[k].priority < g.active_priorities[j].priority

(* What a step may do to the services: nothing, start one on top, or end   *)
(* the one on top.                                                         *)
Over(g) == StackOrder(g.active_priorities)

Idles(g, d) == Active(d) = Active(g) /\ Over(d) = Over(g)

Starts(g, d, i) ==
  /\ i \in Intids \ Active(g)
  /\ Active(d) = Active(g) \cup {i}
  /\ Over(d) = Over(g) \cup ({i} \X Active(g))

Ends(g, d, i) ==
  /\ i \in Active(g)
  /\ \A j \in Active(g) \ {i} : <<i, j>> \in Over(g)
  /\ Active(d) = Active(g) \ {i}
  /\ Over(d) = Over(g) \cap (Active(d) \X Active(d))

(* The stack's entries, and no intid is on it twice. *)
LEMMA StackFacts ==
  ASSUME NEW g, Nested(g), NEW s, s = g.active_priorities
  PROVE  /\ s \in Seq(Entries) /\ Len(s) \in Nat
         /\ \A k \in 1..Len(s) : /\ s[k] \in Entries /\ s[k].intid \in Active(g)
                                 /\ s[k].priority \in Nat
                                 /\ s[k].priority = g.int[s[k].intid].priority
         /\ \A i \in Active(g) : \E k \in 1..Len(s) : s[k].intid = i
         /\ \A j, k \in 1..Len(s) : s[j].intid = s[k].intid => j = k
  <1>1. g \in Gics BY DEF Nested, Kept
  <1>2. s \in Seq(Entries) /\ Len(s) \in Nat BY <1>1, GicFields, SeqLength
  <1>3. \A k \in 1..Len(s) : s[k] \in Entries BY <1>2, SeqMember
  <1>4. \A k \in 1..Len(s) : /\ s[k].intid \in Active(g)
                             /\ s[k].priority = g.int[s[k].intid].priority
    BY <1>3 DEF Nested, Active, Entries
  <1>5. \A k \in 1..Len(s) : s[k].priority \in Nat
    BY <1>1, <1>3, <1>4, PriorityRange DEF Entries
  <1>6. \A i \in Active(g) : \E k \in 1..Len(s) : s[k].intid = i BY DEF Nested, Active
  <1>7. ASSUME NEW j \in 1..Len(s), NEW k \in 1..Len(s), s[j].intid = s[k].intid
        PROVE  j = k
    <2>1. s[j].priority = s[k].priority BY <1>4, <1>7
    <2>2. ~(j < k) /\ ~(k < j) BY <1>5, <2>1 DEF Nested
    <2>3. QED BY <1>2, <2>2
  <1>8. QED BY <1>2, <1>3, <1>4, <1>5, <1>6, <1>7

(* A step that neither starts nor ends a service, and gives no active      *)
(* interrupt another priority.                                             *)
SameInts(m, f) ==
  \A i \in Intids : /\ f[i].active <=> m[i].active
                    /\ m[i].active => f[i].priority = m[i].priority

SameServices(g, d) ==
  /\ d.active_priorities = g.active_priorities /\ d.eoi_mode = g.eoi_mode
  /\ d.running_priority = g.running_priority
  /\ SameInts(g.int, d.int)

LEMMA SameIsNested ==
  ASSUME NEW g, Nested(g), NEW d, Kept(d), SameServices(g, d)
  PROVE  Nested(d) /\ Idles(g, d)
  <1> DEFINE s == g.active_priorities
  <1>1. /\ \A k \in 1..Len(s) : s[k].intid \in Active(g) /\ s[k].priority \in Nat
        /\ \A k \in 1..Len(s) : s[k].priority = g.int[s[k].intid].priority
    BY StackFacts
  <1>2. \A k \in 1..Len(s) : s[k].intid \in Intids /\ g.int[s[k].intid].active
    BY <1>1 DEF Active
  <1>3. d.active_priorities = s BY DEF SameServices, SameInts
  <1>4. ~d.eoi_mode /\ d.running_priority = Top(s) BY DEF SameServices, SameInts, Nested
  <1>5. \A k \in 1..Len(s) : /\ d.int[s[k].intid].active
                             /\ d.int[s[k].intid].priority = s[k].priority
    BY <1>1, <1>2 DEF SameServices, SameInts
  <1>6. \A i \in Intids : d.int[i].active => \E k \in 1..Len(s) : s[k].intid = i
    BY DEF SameServices, SameInts, Nested
  <1>7. \A j, k \in 1..Len(s) : j < k => s[k].priority < s[j].priority BY DEF Nested
  <1>8. Nested(d)
    <2> HIDE DEF s
    <2>1. QED BY <1>3, <1>4, <1>5, <1>6, <1>7 DEF Nested
  <1>9. Active(d) = Active(g) BY DEF SameServices, SameInts, Active
  <1>10. Over(d) = Over(g) BY <1>3 DEF Over
  <1>11. QED BY <1>8, <1>9, <1>10 DEF Idles

(* An acknowledge on a raised line starts the most urgent candidate on top: *)
(* it is more urgent than the running priority, so it is not active yet.    *)
LEMMA BeginNests ==
  ASSUME NEW g, Nested(g), g.irq_line
  PROVE  /\ Nested(acknowledge(g))
         /\ Starts(g, acknowledge(g), g.highest_pending_intid)
  <1> DEFINE i == g.highest_pending_intid
             p == g.int[i].priority
             e == [intid |-> i, priority |-> p]
             s == g.active_priorities
             t == Append(s, e)
             f == [g.int EXCEPT ![i].active = TRUE, ![i].pending = ~g.int[i].edge]
             w == [g EXCEPT !.int = f, !.active_priorities = t, !.running_priority = p]
             d == acknowledge(g)
  <1>1. g \in Gics /\ Current(g) BY DEF Nested, Kept
  <1>2. i # SPURIOUS /\ p < g.running_priority BY <1>1, Zenon DEF Current, pending_interrupt
  <1>3. i \in Intids BY <1>1, <1>2, GicFields
  <1>4. g.int \in [Intids -> Interrupts] /\ g.int[i] \in Interrupts BY <1>1, <1>3, GicFields
  <1>5. p \in Priorities /\ p \in Nat BY <1>1, <1>3, <1>4, PriorityRange DEF Interrupts
  <1>6. e \in Entries /\ e.intid = i /\ e.priority = p BY <1>3, <1>5 DEF Entries
  <1>7. /\ s \in Seq(Entries) /\ Len(s) \in Nat
        /\ \A k \in 1..Len(s) : /\ s[k] \in Entries /\ s[k].intid \in Active(g)
                                /\ s[k].priority \in Nat
                                /\ s[k].priority = g.int[s[k].intid].priority
        /\ \A j \in Active(g) : \E k \in 1..Len(s) : s[k].intid = j
    <2>1. s = g.active_priorities OBVIOUS
    <2> HIDE DEF s
    <2>2. QED BY <2>1, StackFacts
  <1>8. /\ t \in Seq(Entries) /\ t # <<>> /\ Len(t) = Len(s) + 1
        /\ \A k \in 1..Len(s) : t[k] = s[k]
        /\ t[Len(s) + 1] = e
    BY <1>6, <1>7, SeqAppend
  <1> HIDE DEF e
  <1>9. f \in [Intids -> Interrupts] BY <1>3, <1>4, Zenon DEF Interrupts
  <1>10. \A j \in Intids : /\ f[j].active <=> (j = i \/ g.int[j].active)
                           /\ f[j].priority = g.int[j].priority
    <2>1. f[i].active /\ f[i].priority = g.int[i].priority BY <1>3, <1>4 DEF Interrupts
    <2>2. \A j \in Intids \ {i} : f[j] = g.int[j] BY <1>3, <1>4
    <2> HIDE DEF f
    <2>3. QED BY <2>1, <2>2
  <1>11. d = update_all_cpus(w) BY <1>1, <1>2, Zenon DEF acknowledge, Gics, e
  <1> HIDE DEF t, f
  <1>12. w \in Gics BY <1>1, <1>5, <1>8, <1>9, Zenon DEF Gics, Entries
  <1>13. /\ w.int = f /\ w.active_priorities = t /\ w.running_priority = p
         /\ w.eoi_mode = g.eoi_mode
    BY <1>1 DEF Gics
  <1> HIDE DEF w
  <1>14. /\ Kept(d) /\ d.int = f /\ d.active_priorities = t /\ d.running_priority = p
         /\ d.eoi_mode = g.eoi_mode
    BY <1>11, <1>12, <1>13, UpdateIsCurrent DEF Kept, SameSettings
  <1> HIDE DEF d
  <1>15. \A k \in 1..Len(s) : p < s[k].priority
    <2>1. SUFFICES ASSUME NEW k \in 1..Len(s) PROVE p < s[k].priority OBVIOUS
    <2>2. s # <<>> /\ Len(s) \in 1..Len(s) BY <1>7, SeqEmpty
    <2>3. g.running_priority = s[Len(s)].priority BY <2>2 DEF Nested, Top, Last
    <2>4. k = Len(s) \/ s[Len(s)].priority < s[k].priority BY <1>7, <2>2 DEF Nested
    <2>5. QED BY <1>2, <1>5, <1>7, <2>2, <2>3, <2>4
  <1>16. i \notin Active(g)
    <2>1. SUFFICES ASSUME i \in Active(g) PROVE FALSE OBVIOUS
    <2>2. PICK k \in 1..Len(s) : s[k].intid = i BY <1>7, <2>1
    <2>3. s[k].priority = p BY <1>7, <2>2
    <2>4. QED BY <1>5, <1>15, <2>3
  <1>17. Active(d) = Active(g) \cup {i} BY <1>3, <1>10, <1>14 DEF Active
  <1>18. \A k \in 1..Len(t) : k \in 1..Len(s) \/ k = Len(s) + 1 BY <1>7, <1>8
  <1>19. Over(d) = Over(g) \cup ({i} \X Active(g))
    <2>1. Active(g) \subseteq Intids BY DEF Active
    <2>2. ASSUME NEW x \in Over(d) PROVE x \in Over(g) \cup ({i} \X Active(g))
      <3>1. PICK j \in 1..Len(t), k \in 1..Len(t) : j < k /\ x = <<t[k].intid, t[j].intid>>
        BY <1>14 DEF Over, StackOrder
      <3>2. j \in 1..Len(s) BY <1>7, <1>8, <3>1
      <3>3. CASE k \in 1..Len(s)
        BY <1>8, <2>2, <3>1, <3>2, <3>3, Zenon DEF Over, StackOrder
      <3>4. CASE k = Len(s) + 1
        BY <1>6, <1>7, <1>8, <3>1, <3>2, <3>4
      <3>5. QED BY <1>18, <3>3, <3>4
    <2>3. ASSUME NEW x \in Over(g) PROVE x \in Over(d)
      <3>1. PICK j \in 1..Len(s), k \in 1..Len(s) : j < k /\ x = <<s[k].intid, s[j].intid>>
        BY DEF Over, StackOrder
      <3>2. j \in 1..Len(t) /\ k \in 1..Len(t) BY <1>7, <1>8
      <3>3. x = <<t[k].intid, t[j].intid>> BY <1>8, <3>1
      <3>4. x \in Intids \X Intids BY DEF Over, StackOrder
      <3>5. QED BY <1>14, <3>1, <3>2, <3>3, <3>4 DEF Over, StackOrder
    <2>4. ASSUME NEW a \in Active(g) PROVE <<i, a>> \in Over(d)
      <3>1. PICK j \in 1..Len(s) : s[j].intid = a BY <1>7
      <3>2. j \in 1..Len(t) /\ Len(s) + 1 \in 1..Len(t) /\ j < Len(s) + 1 BY <1>7, <1>8
      <3>3. <<i, a>> = <<t[Len(s) + 1].intid, t[j].intid>> BY <1>6, <1>8, <3>1
      <3>4. <<i, a>> \in Intids \X Intids BY <1>3, <2>1
      <3>5. QED BY <1>14, <3>2, <3>3, <3>4 DEF Over, StackOrder
    <2>5. QED BY <2>2, <2>3, <2>4
  <1>20. Nested(d)
    <2>1. ~d.eoi_mode BY <1>14 DEF Nested
    <2>2. p = Top(t) BY <1>6, <1>8 DEF Top, Last
    <2>3. \A k \in 1..Len(t) : f[t[k].intid].active /\ f[t[k].intid].priority = t[k].priority
      <3>1. ASSUME NEW k \in 1..Len(s)
            PROVE  f[t[k].intid].active /\ f[t[k].intid].priority = t[k].priority
        <4>1. t[k] = s[k] /\ s[k].intid \in Active(g) BY <1>7, <1>8
        <4>2. s[k].intid \in Intids /\ g.int[s[k].intid].active BY <4>1 DEF Active
        <4>3. s[k].priority = g.int[s[k].intid].priority BY <1>7
        <4>4. QED BY <1>10, <4>1, <4>2, <4>3
      <3>2. f[e.intid].active /\ f[e.intid].priority = e.priority BY <1>3, <1>6, <1>10
      <3>3. QED BY <1>8, <1>18, <3>1, <3>2
    <2>4. \A j \in Intids : f[j].active => \E k \in 1..Len(t) : t[k].intid = j
      <3>1. SUFFICES ASSUME NEW j \in Intids, f[j].active
                     PROVE  \E k \in 1..Len(t) : t[k].intid = j
        OBVIOUS
      <3>2. CASE j = i BY <1>6, <1>7, <1>8, <3>2
      <3>3. CASE j # i
        <4>1. j \in Active(g) BY <1>10, <3>1, <3>3 DEF Active
        <4>2. PICK k \in 1..Len(s) : s[k].intid = j BY <1>7, <4>1
        <4>3. k \in 1..Len(t) /\ t[k].intid = j BY <1>7, <1>8, <4>2
        <4>4. QED BY <4>3
      <3>4. QED BY <3>2, <3>3
    <2>5. \A j, k \in 1..Len(t) : j < k => t[k].priority < t[j].priority
      <3>1. SUFFICES ASSUME NEW j \in 1..Len(t), NEW k \in 1..Len(t), j < k
                     PROVE  t[k].priority < t[j].priority
        OBVIOUS
      <3>2. j \in 1..Len(s) BY <1>7, <1>8, <3>1
      <3>3. CASE k \in 1..Len(s) BY <1>8, <3>1, <3>2, <3>3 DEF Nested
      <3>4. CASE k = Len(s) + 1 BY <1>6, <1>8, <1>15, <3>2, <3>4
      <3>5. QED BY <1>18, <3>3, <3>4
    <2>6. QED BY <1>14, <2>1, <2>2, <2>3, <2>4, <2>5 DEF Nested
  <1>21. QED BY <1>3, <1>16, <1>17, <1>19, <1>20 DEF Starts, d

(* Ending the service on top removes the top entry, and the priority of    *)
(* the one below runs again.                                               *)
LEMMA EndNests ==
  ASSUME NEW g, Nested(g), g.active_priorities # <<>>
  PROVE  LET i == Last(g.active_priorities).intid
         IN  Nested(end_of_interrupt(g, i)) /\ Ends(g, end_of_interrupt(g, i), i)
  <1> DEFINE s == g.active_priorities
             n == Len(s)
             i == s[n].intid
             t == Dropped(s, i)
             f == [g.int EXCEPT ![i].active = g.int[i].active /\ g.eoi_mode]
             w == [g EXCEPT !.int = f, !.active_priorities = t, !.running_priority = Top(t)]
             d == end_of_interrupt(g, i)
  <1>1. g \in Gics BY DEF Nested, Kept
  <1>2. /\ s \in Seq(Entries) /\ n \in Nat
        /\ \A k \in 1..n : /\ s[k] \in Entries /\ s[k].intid \in Active(g)
                           /\ s[k].priority \in Nat
                           /\ s[k].priority = g.int[s[k].intid].priority
        /\ \A j \in Active(g) : \E k \in 1..n : s[k].intid = j
        /\ \A j, k \in 1..n : s[j].intid = s[k].intid => j = k
    <2>1. s = g.active_priorities OBVIOUS
    <2> HIDE DEF s
    <2>2. QED BY <2>1, StackFacts
  <1>3. n \in 1..n BY <1>2, SeqEmpty
  <1>4. i \in Active(g) /\ i \in Intids BY <1>2, <1>3 DEF Active
  <1>5. /\ t \in Seq(Entries) /\ Len(t) = n - 1
        /\ \A k \in 1..n - 1 : t[k] = s[k]
    <2>1. PICK k \in 1..n : s[k].intid = i /\ t = RemoveAt(s, k)
      BY <1>2, <1>3, DroppedProperties
    <2>2. k = n BY <1>2, <1>3, <2>1
    <2>3. s \in Seq(Entries) /\ t \in Seq(Entries) BY <1>2, DroppedProperties
    <2> HIDE DEF s, i
    <2>4. Len(s) \in 1..Len(s) /\ t = RemoveAt(s, Len(s)) BY <1>3, <2>1, <2>2
    <2> HIDE DEF t
    <2>5. /\ Len(RemoveAt(s, Len(s))) = Len(s) - 1
          /\ \A j \in 1..Len(s) - 1 : RemoveAt(s, Len(s))[j] = s[j]
      BY <2>3, <2>4, RemoveAtProperties
    <2>6. QED BY <2>3, <2>4, <2>5
  <1>6. \A k \in 1..Len(t) : k \in 1..n /\ k < n /\ t[k] = s[k] BY <1>2, <1>3, <1>5
  <1>7. Kept(d) BY <1>1, <1>4, EndKept
  <1>8. g.int \in [Intids -> Interrupts] /\ g.int[i] \in Interrupts BY <1>1, <1>4, GicFields
  <1>9. d = update_all_cpus(w) BY <1>1, Zenon DEF end_of_interrupt, Gics
  <1>10. w \in Gics
    <2>1. f \in [Intids -> Interrupts] BY <1>1, <1>4, <1>8, GicFields DEF Interrupts
    <2>2. Top(t) \in Priorities
      <3>1. CASE t = <<>> BY <3>1, Numbers DEF Top
      <3>2. CASE t # <<>>
        <4>1. Len(t) \in 1..Len(t) BY <1>5, <3>2, SeqLength, SeqEmpty
        <4>2. t[Len(t)] \in Entries BY <1>2, <1>6, <4>1
        <4> HIDE DEF t
        <4>3. QED BY <3>2, <4>2 DEF Top, Last, Entries
      <3>3. QED BY <3>1, <3>2
    <2> HIDE DEF f, t
    <2>3. QED BY <1>1, <1>5, <2>1, <2>2, Zenon DEF Gics, Entries
  <1>11. \A j \in Intids : /\ f[j].active <=> (j # i /\ g.int[j].active)
                           /\ f[j].priority = g.int[j].priority
    <2>1. ~g.eoi_mode BY DEF Nested
    <2>2. ~f[i].active /\ f[i].priority = g.int[i].priority
      BY <1>4, <1>8, <2>1, Zenon DEF Interrupts
    <2>3. \A j \in Intids \ {i} : f[j] = g.int[j] BY <1>4, <1>8
    <2> HIDE DEF f, i
    <2>4. QED BY <2>2, <2>3
  <1> HIDE DEF f, t
  <1>12. /\ w.int = f /\ w.active_priorities = t /\ w.running_priority = Top(t)
         /\ w.eoi_mode = g.eoi_mode
    BY <1>1 DEF Gics
  <1> HIDE DEF w
  <1>13. /\ d.int = f /\ d.active_priorities = t /\ d.running_priority = Top(t)
         /\ d.eoi_mode = g.eoi_mode
    BY <1>9, <1>10, <1>12, UpdateIsCurrent DEF SameSettings
  <1> HIDE DEF d, i
  <1>14. Active(d) = Active(g) \ {i} BY <1>11, <1>13 DEF Active
  <1>15. \A k \in 1..n : k < n => s[k].intid # i /\ k \in 1..Len(t)
    BY <1>2, <1>3, <1>5 DEF i
  <1>16. \A j \in Active(g) \ {i} : <<i, j>> \in Over(g)
    <2>1. SUFFICES ASSUME NEW j \in Active(g) \ {i} PROVE <<i, j>> \in Over(g) OBVIOUS
    <2>2. PICK k \in 1..n : s[k].intid = j BY <1>2, <2>1
    <2>3. k # n BY <2>1, <2>2 DEF i
    <2>4. k < n /\ <<i, j>> = <<s[n].intid, s[k].intid>> BY <1>2, <1>3, <2>2, <2>3 DEF i
    <2>5. <<i, j>> \in Intids \X Intids BY <1>4 DEF Active
    <2>6. QED BY <1>3, <2>2, <2>4, <2>5 DEF Over, StackOrder
  <1>17. Over(d) = Over(g) \cap (Active(d) \X Active(d))
    <2>1. ASSUME NEW x \in Over(d)
          PROVE  x \in Over(g) /\ x \in Active(d) \X Active(d)
      <3>1. PICK j \in 1..Len(t), k \in 1..Len(t) : j < k /\ x = <<t[k].intid, t[j].intid>>
        BY <1>13 DEF Over, StackOrder
      <3>2. x \in Intids \X Intids BY DEF Over, StackOrder
      <3>3. /\ j \in 1..n /\ k \in 1..n /\ j < n /\ k < n
            /\ x = <<s[k].intid, s[j].intid>>
        BY <1>6, <3>1
      <3>4. x \in Over(g) BY <3>1, <3>2, <3>3 DEF Over, StackOrder
      <3>5. s[k].intid \in Active(d) /\ s[j].intid \in Active(d)
        BY <1>2, <1>14, <1>15, <3>3, Zenon
      <3>6. QED BY <3>3, <3>4, <3>5
    <2>2. ASSUME NEW x \in Over(g), x \in Active(d) \X Active(d)
          PROVE  x \in Over(d)
      <3>1. PICK j \in 1..n, k \in 1..n : j < k /\ x = <<s[k].intid, s[j].intid>>
        BY DEF Over, StackOrder
      <3>2. x \in Intids \X Intids BY DEF Over, StackOrder
      <3>3. s[k].intid # i BY <1>14, <2>2, <3>1
      <3>4. k < n /\ j < n BY <1>2, <3>1, <3>3 DEF i
      <3>5. j \in 1..Len(t) /\ k \in 1..Len(t) BY <1>15, <3>4
      <3>6. x = <<t[k].intid, t[j].intid>> BY <1>6, <3>1, <3>5
      <3>7. QED BY <1>13, <3>1, <3>2, <3>5, <3>6 DEF Over, StackOrder
    <2>3. QED BY <2>1, <2>2
  <1>18. Nested(d)
    <2>1. ~d.eoi_mode BY <1>13 DEF Nested
    <2>2. \A k \in 1..Len(t) : f[t[k].intid].active /\ f[t[k].intid].priority = t[k].priority
      <3>1. SUFFICES ASSUME NEW k \in 1..Len(t)
                     PROVE  f[t[k].intid].active /\ f[t[k].intid].priority = t[k].priority
        OBVIOUS
      <3>2. t[k] = s[k] /\ k \in 1..n /\ k < n BY <1>6
      <3>3. s[k].intid \in Intids /\ g.int[s[k].intid].active BY <1>2, <3>2 DEF Active
      <3>4. s[k].intid # i BY <1>15, <3>2
      <3>5. s[k].priority = g.int[s[k].intid].priority BY <1>2, <3>2
      <3>6. QED BY <1>11, <3>2, <3>3, <3>4, <3>5
    <2>3. \A j \in Intids : f[j].active => \E k \in 1..Len(t) : t[k].intid = j
      <3>1. SUFFICES ASSUME NEW j \in Intids, f[j].active
                     PROVE  \E k \in 1..Len(t) : t[k].intid = j
        OBVIOUS
      <3>2. j # i /\ j \in Active(g) BY <1>11, <3>1 DEF Active
      <3>3. PICK k \in 1..n : s[k].intid = j BY <1>2, <3>2
      <3>4. k < n BY <1>2, <3>2, <3>3 DEF i
      <3>5. k \in 1..Len(t) /\ t[k].intid = j BY <1>6, <1>15, <3>3, <3>4
      <3>6. QED BY <3>5
    <2>4. \A j, k \in 1..Len(t) : j < k => t[k].priority < t[j].priority
      BY <1>6 DEF Nested
    <2>5. QED BY <1>7, <1>13, <2>1, <2>2, <2>3, <2>4 DEF Nested, d
  <1>19. QED BY <1>4, <1>14, <1>16, <1>17, <1>18 DEF Ends, d, i, Last

(* The quiet operations leave the services as they are. *)
LEMMA UpdateKeepsServices ==
  ASSUME NEW g, NEW w \in Gics, SameServices(g, w)
  PROVE  SameServices(g, update_all_cpus(w))
  BY UpdateIsCurrent DEF SameServices, SameSettings

LEMMA IntKeepsServices ==
  ASSUME NEW g \in Gics, NEW f \in [Intids -> Interrupts], SameInts(g.int, f)
  PROVE  /\ SameServices(g, [g EXCEPT !.int = f])
         /\ SameServices(g, update_all_cpus([g EXCEPT !.int = f]))
  <1> DEFINE w == [g EXCEPT !.int = f]
  <1>1. w \in Gics BY IntKept
  <1>2. /\ w.int = f /\ w.active_priorities = g.active_priorities
        /\ w.eoi_mode = g.eoi_mode /\ w.running_priority = g.running_priority
    BY DEF Gics
  <1> HIDE DEF w
  <1>3. SameServices(g, w) BY <1>2 DEF SameServices, SameInts
  <1>4. QED BY <1>1, <1>3, UpdateKeepsServices DEF w

LEMMA QuietKeepsServices ==
  ASSUME gic \in Gics, QuietStep
  PROVE  SameServices(gic, gic')
  <1>0. /\ gic.int \in [Intids -> Interrupts]
        /\ \A i \in Intids : gic.int[i] \in Interrupts
    BY GicFields
  <1>1. \A f \in [Intids -> Interrupts] : SameInts(gic.int, f) =>
               /\ SameServices(gic, [gic EXCEPT !.int = f])
               /\ SameServices(gic, update_all_cpus([gic EXCEPT !.int = f]))
    BY IntKeepsServices
  <1>2. ASSUME NEW i \in Intids, NEW b \in BOOLEAN
        PROVE  /\ SameServices(gic, update_all_cpus([gic EXCEPT !.int[i].pending = b]))
               /\ SameServices(gic, update_all_cpus([gic EXCEPT !.int[i].routed = b]))
    <2> DEFINE f == [gic.int EXCEPT ![i].pending = b]
               h == [gic.int EXCEPT ![i].routed = b]
    <2>1. f \in [Intids -> Interrupts] /\ h \in [Intids -> Interrupts]
      BY <1>0 DEF Interrupts
    <2>2. \A j \in Intids : /\ f[j].active = gic.int[j].active
                            /\ f[j].priority = gic.int[j].priority
                            /\ h[j].active = gic.int[j].active
                            /\ h[j].priority = gic.int[j].priority
      BY <1>0 DEF Interrupts
    <2>3. /\ [gic EXCEPT !.int[i].pending = b] = [gic EXCEPT !.int = f]
          /\ [gic EXCEPT !.int[i].routed = b] = [gic EXCEPT !.int = h]
      BY DEF Gics
    <2> HIDE DEF f, h
    <2>4. SameInts(gic.int, f) /\ SameInts(gic.int, h) BY <2>2 DEF SameInts
    <2>5. QED BY <1>1, <2>1, <2>3, <2>4
  <1>3. CASE DeviceLine
    <2>1. PICK i \in Ppis \cup Spis, level \in BOOLEAN : gic' = set_line(gic, i, level)
      BY <1>3 DEF DeviceLine
    <2>2. i \in Intids BY Numbers
    <2>3. QED BY <1>2, <2>1, <2>2, Zenon DEF set_line
  <1>4. ASSUME NEW S, BankWrite(S) PROVE SameServices(gic, gic')
    <2>1. PICK on \in BOOLEAN : \/ gic' = write_enable(gic, S, on)
                                \/ gic' = write_pending(gic, S, on)
                                \/ gic' = write_icfgr(gic, S, on)
      BY <1>4 DEF BankWrite
    <2> DEFINE
      e == [i \in Intids |-> IF i \in S THEN [gic.int[i] EXCEPT !.enabled = on] ELSE gic.int[i]]
      q == [i \in Intids |-> IF i \in S THEN [gic.int[i] EXCEPT !.pending = on] ELSE gic.int[i]]
      c == [i \in Intids |-> IF i \in S THEN [gic.int[i] EXCEPT !.edge = on] ELSE gic.int[i]]
    <2>2. \A i \in Intids :
            /\ [gic.int[i] EXCEPT !.enabled = on] \in Interrupts
            /\ [gic.int[i] EXCEPT !.pending = on] \in Interrupts
            /\ [gic.int[i] EXCEPT !.edge = on] \in Interrupts
      BY <1>0 DEF Interrupts
    <2>3. /\ e \in [Intids -> Interrupts] /\ q \in [Intids -> Interrupts]
          /\ c \in [Intids -> Interrupts]
      BY <1>0, <2>2, Zenon
    <2>4. \A i \in Intids :
            /\ e[i].active = gic.int[i].active /\ e[i].priority = gic.int[i].priority
            /\ q[i].active = gic.int[i].active /\ q[i].priority = gic.int[i].priority
            /\ c[i].active = gic.int[i].active /\ c[i].priority = gic.int[i].priority
      BY <1>0 DEF Interrupts
    <2>5. /\ write_enable(gic, S, on) = update_all_cpus([gic EXCEPT !.int = e])
          /\ write_pending(gic, S, on) = update_all_cpus([gic EXCEPT !.int = q])
          /\ \/ write_icfgr(gic, S, on) = [gic EXCEPT !.int = c]
             \/ write_icfgr(gic, S, on) = update_all_cpus([gic EXCEPT !.int = c])
      BY DEF write_enable, write_pending, write_icfgr, Each
    <2> HIDE DEF e, q, c
    <2>6. /\ SameServices(gic, update_all_cpus([gic EXCEPT !.int = e]))
          /\ SameServices(gic, update_all_cpus([gic EXCEPT !.int = q]))
          /\ SameServices(gic, update_all_cpus([gic EXCEPT !.int = c]))
          /\ SameServices(gic, [gic EXCEPT !.int = c])
      <3>1. SameInts(gic.int, e) /\ SameInts(gic.int, q) /\ SameInts(gic.int, c)
        BY <2>4 DEF SameInts
      <3>2. QED BY <1>1, <2>3, <3>1
    <2>7. QED BY <2>1, <2>5, <2>6
  <1>5. ASSUME NEW S, S \cap Active(gic) = {}, PriorityWrite(S)
        PROVE  SameServices(gic, gic')
    <2>1. PICK p \in Priorities : gic' = write_priority(gic, S, p) BY <1>5 DEF PriorityWrite
    <2> DEFINE
      r == [i \in Intids |-> IF i \in S THEN [gic.int[i] EXCEPT !.priority = p] ELSE gic.int[i]]
    <2>2. \A i \in Intids : [gic.int[i] EXCEPT !.priority = p] \in Interrupts
      BY <1>0 DEF Interrupts
    <2>3. r \in [Intids -> Interrupts] BY <1>0, <2>2
    <2>4. \A i \in Intids : /\ r[i].active = gic.int[i].active
                            /\ i \notin S => r[i].priority = gic.int[i].priority
      BY <1>0 DEF Interrupts
    <2>5. write_priority(gic, S, p) = update_all_cpus([gic EXCEPT !.int = r])
      BY DEF write_priority, Each
    <2> HIDE DEF r
    <2>6. \A i \in Intids : gic.int[i].active => i \notin S BY <1>5 DEF Active
    <2>7. SameServices(gic, update_all_cpus([gic EXCEPT !.int = r]))
      <3>1. SameInts(gic.int, r) BY <2>4, <2>6 DEF SameInts
      <3>2. QED BY <1>1, <2>3, <3>1
    <2>8. QED BY <2>1, <2>5, <2>7
  <1>6. CASE InterfaceWrite
    <2>1. CASE \E mask \in Priorities : gic' = set_priority_mask(gic, mask)
      <3>1. PICK mask \in Priorities : gic' = set_priority_mask(gic, mask) BY <2>1
      <3>2. /\ [gic EXCEPT !.priority_mask = mask] \in Gics
            /\ SameServices(gic, [gic EXCEPT !.priority_mask = mask])
        BY DEF Gics, SameServices, SameInts
      <3>3. QED BY <3>1, <3>2, UpdateKeepsServices DEF set_priority_mask
    <2>2. CASE \E group1 \in BOOLEAN, enabled \in BOOLEAN :
                  gic' = set_group_enable(gic, group1, enabled)
      <3>1. PICK group1 \in BOOLEAN, enabled \in BOOLEAN :
                  gic' = set_group_enable(gic, group1, enabled) BY <2>2
      <3>2. /\ [gic EXCEPT !.grp0 = enabled] \in Gics /\ [gic EXCEPT !.grp1 = enabled] \in Gics
            /\ SameServices(gic, [gic EXCEPT !.grp0 = enabled])
            /\ SameServices(gic, [gic EXCEPT !.grp1 = enabled])
        BY DEF Gics, SameServices, SameInts
      <3>3. QED BY <3>1, <3>2, UpdateKeepsServices DEF set_group_enable
    <2>3. CASE \E i \in Sgis : gic' = raise_sgi(gic, i)
      <3>1. PICK i \in Sgis : gic' = raise_sgi(gic, i) BY <2>3
      <3>2. i \in Intids BY Numbers
      <3>3. QED BY <1>2, <3>1, <3>2, Zenon DEF raise_sgi
    <2>4. CASE \E i \in Spis, here \in BOOLEAN : gic' = write_irouter(gic, i, here)
      <3>1. PICK i \in Spis, here \in BOOLEAN : gic' = write_irouter(gic, i, here) BY <2>4
      <3>2. i \in Intids BY Numbers
      <3>3. QED BY <1>2, <3>1, <3>2, Zenon DEF write_irouter
    <2>5. QED BY <1>6, <2>1, <2>2, <2>3, <2>4 DEF InterfaceWrite
  <1>7. QED BY <1>3, <1>4, <1>5, <1>6 DEF QuietStep

LEMMA NewNests ==
  /\ Nested(NewGic) /\ Active(NewGic) = {} /\ Over(NewGic) = {}
  /\ Nested(update_all_cpus(NewGic))
  /\ Active(update_all_cpus(NewGic)) = {} /\ Over(update_all_cpus(NewGic)) = {}
  <1> DEFINE u == update_all_cpus(NewGic)
  <1>1. /\ NewGic.active_priorities = <<>> /\ NewGic.running_priority = IDLE
        /\ ~NewGic.eoi_mode /\ \A i \in Intids : ~NewGic.int[i].active
    BY DEF NewGic
  <1>2. NewGic \in Gics /\ Kept(NewGic) /\ Kept(u) BY NewKept
  <1>3. SameSettings(NewGic, u) BY <1>2, UpdateIsCurrent
  <1>4. ASSUME NEW g, Kept(g), g.active_priorities = <<>>, g.running_priority = IDLE,
               ~g.eoi_mode, \A i \in Intids : ~g.int[i].active
        PROVE  Nested(g) /\ Active(g) = {} /\ Over(g) = {}
    <2>1. Len(g.active_priorities) = 0 /\ Top(g.active_priorities) = IDLE
      BY <1>4 DEF Top
    <2>2. Nested(g) BY <1>4, <2>1 DEF Nested
    <2>3. Active(g) = {} BY <1>4 DEF Active
    <2>4. Over(g) = {} BY <2>1 DEF Over, StackOrder
    <2>5. QED BY <2>2, <2>3, <2>4
  <1> HIDE DEF u
  <1>5. /\ u.active_priorities = <<>> /\ u.running_priority = IDLE
        /\ ~u.eoi_mode /\ \A i \in Intids : ~u.int[i].active
    BY <1>1, <1>3 DEF SameSettings
  <1>6. Nested(NewGic) /\ Active(NewGic) = {} /\ Over(NewGic) = {} BY <1>1, <1>2, <1>4
  <1>7. Nested(u) /\ Active(u) = {} /\ Over(u) = {} BY <1>2, <1>4, <1>5
  <1>8. QED BY <1>6, <1>7 DEF u

(* Under a guest that keeps to nested service, the controller implements   *)
(* the stack of ServiceOrder: a signalled acknowledge pushes an interrupt  *)
(* that is not active yet, the EOI of the last one pops it and restores    *)
(* the priority below, and no other register write touches the stack       *)
(* (acknowledge, end_of_interrupt, update_pending).                        *)
THEOREM GicImplementsStack == NestedSpec => ServicesNest
  <1> DEFINE svc == <<Active(gic), StackOrder(gic.active_priorities)>>
  <1>1. GicInit => Service!Init /\ Nested(gic)
    BY NewNests DEF GicInit, Service!Init, Over
  <1>2. Nested(gic) /\ [NestedNext]_gic => Nested(gic)' /\ [Service!Next]_svc
    <2> SUFFICES ASSUME Nested(gic), [NestedNext]_gic
                 PROVE  Nested(gic)' /\ [Service!Next]_svc
      OBVIOUS
    <2>1. CASE UNCHANGED gic BY <2>1
    <2>2. CASE QuietStep
      <3>1. Kept(gic) /\ gic \in Gics BY DEF Nested, Kept
      <3>2. Kept(gic') /\ SameServices(gic, gic')
        BY <2>2, <3>1, QuietKept, QuietKeepsServices
      <3>3. Nested(gic') /\ Idles(gic, gic') BY <3>2, SameIsNested
      <3>4. QED BY <3>3 DEF Idles, Over
    <2>3. CASE Begin
      <3>1. Nested(gic') /\ Starts(gic, gic', gic.highest_pending_intid)
        BY <2>3, BeginNests DEF Begin
      <3>2. QED BY <3>1 DEF Starts, Over, Service!Next, Service!Begin
    <2>4. CASE End
      <3>1. Nested(gic') /\ Ends(gic, gic', Last(gic.active_priorities).intid)
        BY <2>4, EndNests DEF End
      <3>2. Last(gic.active_priorities).intid \in Intids BY <3>1 DEF Ends, Active
      <3>3. QED BY <3>1, <3>2 DEF Ends, Over, Service!Next, Service!End
    <2>5. CASE Reset
      <3>1. Nested(gic') /\ Active(gic') = {} /\ Over(gic') = {}
        BY <2>5, NewNests DEF Reset
      <3>2. QED BY <3>1 DEF Over, Service!Next, Service!Reset
    <2>6. QED BY <2>1, <2>2, <2>3, <2>4, <2>5 DEF NestedNext
  <1>3. QED BY <1>1, <1>2, PTL DEF NestedSpec, ServicesNest, Service!Spec

-----------------------------------------------------------------------------
(* The controller's operations, as a machine uses them. *)

(* What decides, besides the pending bits, whether an interrupt gets through. *)
SameGate(g, d) ==
  /\ d.grp0 = g.grp0 /\ d.grp1 = g.grp1 /\ d.priority_mask = g.priority_mask
  /\ \A i \in Intids : /\ d.int[i].enabled = g.int[i].enabled
                       /\ d.int[i].routed = g.int[i].routed
                       /\ d.int[i].priority = g.int[i].priority
                       /\ d.int[i].edge = g.int[i].edge

(* A write of the interrupts' bits that leaves the services alone. *)
LEMMA IntWrite ==
  ASSUME NEW g \in Gics, NEW f \in [Intids -> Interrupts], SameInts(g.int, f),
         NEW d, d = update_all_cpus([g EXCEPT !.int = f])
  PROVE  /\ Kept(d) /\ SameServices(g, d) /\ d.int = f
         /\ d.grp0 = g.grp0 /\ d.grp1 = g.grp1 /\ d.priority_mask = g.priority_mask
  <1> DEFINE w == [g EXCEPT !.int = f]
  <1>1. w \in Gics /\ Kept(d) BY IntKept
  <1>2. SameServices(g, d) BY IntKeepsServices
  <1>3. /\ w.int = f /\ w.grp0 = g.grp0 /\ w.grp1 = g.grp1
        /\ w.priority_mask = g.priority_mask
    BY DEF Gics
  <1>4. SameSettings(w, d) BY <1>1, UpdateIsCurrent
  <1> HIDE DEF w
  <1>5. QED BY <1>1, <1>2, <1>3, <1>4 DEF SameSettings

(* A device drives its line. *)
LEMMA LineDriven ==
  ASSUME NEW g \in Gics, NEW i \in Intids, NEW b \in BOOLEAN, NEW d, d = set_line(g, i, b)
  PROVE  /\ Kept(d) /\ SameServices(g, d) /\ SameGate(g, d)
         /\ d.int[i].pending = b
         /\ \A j \in Intids \ {i} : d.int[j].pending = g.int[j].pending
  <1> DEFINE f == [g.int EXCEPT ![i].pending = b]
  <1>1. g.int \in [Intids -> Interrupts] /\ \A j \in Intids : g.int[j] \in Interrupts
    BY GicFields
  <1>2. f \in [Intids -> Interrupts] BY <1>1 DEF Interrupts
  <1>3. /\ f[i].pending = b /\ f[i].active = g.int[i].active
        /\ f[i].enabled = g.int[i].enabled /\ f[i].routed = g.int[i].routed
        /\ f[i].priority = g.int[i].priority /\ f[i].edge = g.int[i].edge
    BY <1>1 DEF Interrupts
  <1>4. \A j \in Intids \ {i} : f[j] = g.int[j] BY <1>1
  <1>5. [g EXCEPT !.int[i].pending = b] = [g EXCEPT !.int = f] BY DEF Gics
  <1> HIDE DEF f
  <1>6. d = update_all_cpus([g EXCEPT !.int = f]) BY <1>5 DEF set_line
  <1>7. SameInts(g.int, f) BY <1>3, <1>4 DEF SameInts
  <1>8. /\ Kept(d) /\ SameServices(g, d) /\ d.int = f
        /\ d.grp0 = g.grp0 /\ d.grp1 = g.grp1 /\ d.priority_mask = g.priority_mask
    BY <1>2, <1>6, <1>7, IntWrite
  <1>9. SameGate(g, d) BY <1>3, <1>4, <1>8 DEF SameGate
  <1>10. QED BY <1>3, <1>4, <1>8, <1>9

LEMMA Chained ==
  ASSUME NEW g, NEW d, NEW e, SameServices(g, d), SameGate(g, d),
         SameServices(d, e), SameGate(d, e)
  PROVE  SameServices(g, e) /\ SameGate(g, e)
  <1>1. SameGate(g, e) BY DEF SameGate
  <1>2. SameServices(g, e) BY DEF SameServices, SameInts
  <1>3. QED BY <1>1, <1>2

(* A raised line stays up as long as pending bits are only set. *)
LEMMA LineStaysUp ==
  ASSUME NEW g, Kept(g), NEW d, Kept(d), SameServices(g, d), SameGate(g, d), g.irq_line,
         \A j \in Intids : g.int[j].pending => d.int[j].pending
  PROVE  d.irq_line
  <1>1. SignalDue(g) BY CurrentIsDue DEF Kept
  <1>2. Candidates(g) \subseteq Candidates(d) BY DEF Candidates, SameGate
  <1>3. d.running_priority = g.running_priority BY DEF SameServices
  <1>4. \A i \in Candidates(g) : d.int[i].priority = g.int[i].priority
    BY DEF Candidates, SameGate
  <1>5. SignalDue(d) BY <1>1, <1>2, <1>3, <1>4 DEF SignalDue, SameGate
  <1>6. QED BY <1>5, CurrentIsDue DEF Kept

(* ICC_IAR on a raised line: the interrupt it returns is on top of the     *)
(* stack, and a level-triggered one is as pending as before.                 *)
LEMMA IarStacks ==
  ASSUME NEW g, Nested(g), g.irq_line, NEW d, d = acknowledge(g),
         NEW i, i = g.highest_pending_intid
  PROVE  /\ Nested(d) /\ Starts(g, d, i) /\ d.grp1 = g.grp1
         /\ i \in Intids /\ g.int[i].pending
         /\ \E e \in Entries : e.intid = i /\ d.active_priorities = Append(g.active_priorities, e)
         /\ \A j \in Intids : /\ d.int[j].edge = g.int[j].edge
                              /\ ~g.int[j].edge => d.int[j].pending = g.int[j].pending
  <1> DEFINE p == g.int[i].priority
             e == [intid |-> i, priority |-> p]
             f == [g.int EXCEPT ![i].active = TRUE, ![i].pending = ~g.int[i].edge]
             w == [g EXCEPT !.int = f, !.active_priorities = Append(g.active_priorities, e),
                            !.running_priority = p]
  <1>1. g \in Gics /\ Current(g) BY DEF Nested, Kept
  <1>2. i # SPURIOUS BY <1>1, Zenon DEF Current, pending_interrupt
  <1>3. i \in Candidates(g) BY <1>1, <1>2 DEF Current
  <1>4. i \in Intids /\ g.int[i].pending BY <1>3 DEF Candidates
  <1>5. g.int \in [Intids -> Interrupts] /\ \A j \in Intids : g.int[j] \in Interrupts
    BY <1>1, GicFields
  <1>6. p \in Priorities BY <1>4, <1>5 DEF Interrupts
  <1>7. e \in Entries /\ e.intid = i BY <1>4, <1>6 DEF Entries
  <1>8. Append(g.active_priorities, e) \in Seq(Entries)
    BY <1>1, <1>7, GicFields, SeqAppend
  <1>9. f \in [Intids -> Interrupts]
    <2>1. g.int[i] \in Interrupts BY <1>4, <1>5
    <2>2. [[g.int[i] EXCEPT !.active = TRUE] EXCEPT !.pending = ~g.int[i].edge] \in Interrupts
      BY <2>1, Zenon DEF Interrupts
    <2>3. QED BY <1>4, <1>5, <2>2, Zenon
  <1>10. /\ f[i].edge = g.int[i].edge /\ f[i].pending = ~g.int[i].edge
    BY <1>4, <1>5 DEF Interrupts
  <1>11. \A j \in Intids \ {i} : f[j] = g.int[j] BY <1>4, <1>5
  <1>12. d = update_all_cpus(w) BY <1>1, <1>2, Zenon DEF acknowledge, Gics
  <1> HIDE DEF f, e
  <1>13. w \in Gics BY <1>1, <1>6, <1>8, <1>9, Zenon DEF Gics, Entries
  <1>14. /\ w.int = f /\ w.active_priorities = Append(g.active_priorities, e)
         /\ w.grp1 = g.grp1
    BY <1>1 DEF Gics
  <1> HIDE DEF w
  <1>15. SameSettings(w, d) BY <1>12, <1>13, UpdateIsCurrent
  <1>16. /\ d.int = f /\ d.active_priorities = Append(g.active_priorities, e)
         /\ d.grp1 = g.grp1
    BY <1>14, <1>15 DEF SameSettings
  <1>17. Nested(d) /\ Starts(g, d, i) BY <1>1, BeginNests
  <1>18. \A j \in Intids : /\ f[j].edge = g.int[j].edge
                           /\ ~g.int[j].edge => f[j].pending = g.int[j].pending
    <2>1. SUFFICES ASSUME NEW j \in Intids
                   PROVE  /\ f[j].edge = g.int[j].edge
                          /\ ~g.int[j].edge => f[j].pending = g.int[j].pending
      OBVIOUS
    <2>2. CASE j = i
      <3>1. g.int[i].pending = TRUE BY <1>4, <1>5 DEF Interrupts
      <3>2. QED BY <1>10, <2>2, <3>1, Zenon
    <2>3. CASE j # i BY <1>11, <2>3
    <2>4. QED BY <2>2, <2>3
  <1>19. QED BY <1>4, <1>7, <1>16, <1>17, <1>18

(* ICC_EOIR of the interrupt on top of the stack. *)
LEMMA EoiPops ==
  ASSUME NEW g, Nested(g), g.active_priorities # <<>>,
         NEW i, i = g.active_priorities[Len(g.active_priorities)].intid,
         NEW d, d = end_of_interrupt(g, i)
  PROVE  /\ Nested(d) /\ Ends(g, d, i) /\ i \in Intids /\ d.grp1 = g.grp1
         /\ Len(d.active_priorities) = Len(g.active_priorities) - 1
         /\ \A k \in 1..Len(g.active_priorities) - 1 :
              d.active_priorities[k] = g.active_priorities[k]
         /\ \A j \in Intids : /\ d.int[j].edge = g.int[j].edge
                              /\ d.int[j].pending = g.int[j].pending
  <1> DEFINE s == g.active_priorities
             t == Dropped(s, i)
             f == [g.int EXCEPT ![i].active = g.int[i].active /\ g.eoi_mode]
             w == [g EXCEPT !.int = f, !.active_priorities = t, !.running_priority = Top(t)]
  <1>1. g \in Gics BY DEF Nested, Kept
  <1>2. Nested(d) /\ Ends(g, d, i) BY <1>1, EndNests DEF Last
  <1>3. i \in Intids BY <1>2 DEF Ends, Active
  <1>4. /\ s \in Seq(Entries) /\ Len(s) \in Nat
        /\ \A j, k \in 1..Len(s) : s[j].intid = s[k].intid => j = k
    <2>1. s = g.active_priorities OBVIOUS
    <2> HIDE DEF s
    <2>2. QED BY <1>1, <2>1, StackFacts
  <1>5. Len(s) \in 1..Len(s) BY <1>4, SeqEmpty
  <1>6. t \in Seq(Entries) /\ Len(t) = Len(s) - 1 /\ \A k \in 1..Len(s) - 1 : t[k] = s[k]
    <2> HIDE DEF s
    <2>1. s[Len(s)].intid = i BY DEF s
    <2>2. PICK k \in 1..Len(s) : s[k].intid = i /\ t = RemoveAt(s, k)
      BY <1>4, <1>5, <2>1, DroppedProperties
    <2>3. k = Len(s) BY <1>4, <1>5, <2>1, <2>2
    <2>4. t \in Seq(Entries) BY <1>4, DroppedProperties
    <2> HIDE DEF t
    <2>5. /\ Len(RemoveAt(s, Len(s))) = Len(s) - 1
          /\ \A j \in 1..Len(s) - 1 : RemoveAt(s, Len(s))[j] = s[j]
      BY <1>4, <1>5, RemoveAtProperties
    <2>6. QED BY <2>2, <2>3, <2>4, <2>5
  <1>7. g.int \in [Intids -> Interrupts] /\ \A j \in Intids : g.int[j] \in Interrupts
    BY <1>1, GicFields
  <1>8. f \in [Intids -> Interrupts]
    <2>1. g.int[i] \in Interrupts BY <1>3, <1>7
    <2>2. [g.int[i] EXCEPT !.active = g.int[i].active /\ g.eoi_mode] \in Interrupts
      BY <2>1, Zenon DEF Interrupts
    <2>3. QED BY <1>3, <1>7, <2>2
  <1>9. \A j \in Intids : f[j].edge = g.int[j].edge /\ f[j].pending = g.int[j].pending
    BY <1>3, <1>7 DEF Interrupts
  <1>10. d = update_all_cpus(w) BY <1>1, Zenon DEF end_of_interrupt, Gics
  <1>11. Top(t) \in Priorities
    <2>1. CASE t = <<>> BY <2>1, Numbers DEF Top
    <2>2. CASE t # <<>>
      <3> HIDE DEF t
      <3>1. Len(t) \in 1..Len(t) BY <1>6, <2>2, SeqLength, SeqEmpty
      <3>2. t[Len(t)] \in Entries BY <1>6, <3>1, SeqMember
      <3>3. QED BY <2>2, <3>2 DEF Top, Last, Entries
    <2>3. QED BY <2>1, <2>2
  <1> HIDE DEF f, t
  <1>12. w \in Gics BY <1>1, <1>6, <1>8, <1>11, Zenon DEF Gics, Entries
  <1>13. w.int = f /\ w.active_priorities = t /\ w.grp1 = g.grp1 BY <1>1 DEF Gics
  <1> HIDE DEF w
  <1>14. SameSettings(w, d) BY <1>10, <1>12, UpdateIsCurrent
  <1>15. d.int = f /\ d.active_priorities = t /\ d.grp1 = g.grp1
    BY <1>13, <1>14 DEF SameSettings
  <1>16. QED BY <1>2, <1>3, <1>6, <1>9, <1>15

(* The guest's register writes: they touch one interrupt or the mask,      *)
(* raise no request and leave the services alone.                          *)
QuietOn(g, d, i) ==
  /\ Kept(d) /\ SameServices(g, d) /\ d.grp1 = g.grp1
  /\ \A j \in Intids : d.int[j].edge = g.int[j].edge
  /\ \A j \in Intids \ {i} : d.int[j].pending = g.int[j].pending
  /\ d.int[i].pending => g.int[i].pending

LEMMA QuietWrites ==
  ASSUME NEW g \in Gics, NEW i \in Intids, NEW flag \in BOOLEAN,
         NEW d, d \in {write_enable(g, {i}, flag), write_irouter(g, i, flag),
                       write_pending(g, {i}, FALSE)}
  PROVE  QuietOn(g, d, i)
  <1>1. g.int \in [Intids -> Interrupts] /\ \A j \in Intids : g.int[j] \in Interrupts
    BY GicFields
  <1>2. ASSUME NEW r \in Interrupts, r.active = g.int[i].active,
               r.priority = g.int[i].priority, r.edge = g.int[i].edge,
               r.pending => g.int[i].pending,
               NEW f, f = [j \in Intids |-> IF j = i THEN r ELSE g.int[j]],
               d = update_all_cpus([g EXCEPT !.int = f])
        PROVE  QuietOn(g, d, i)
    <2>1. f \in [Intids -> Interrupts] BY <1>1, <1>2
    <2>2. f[i] = r /\ \A j \in Intids \ {i} : f[j] = g.int[j] BY <1>2
    <2>3. SameInts(g.int, f) BY <1>2, <2>2 DEF SameInts
    <2>4. Kept(d) /\ SameServices(g, d) /\ d.int = f /\ d.grp1 = g.grp1
      BY <1>2, <2>1, <2>3, IntWrite
    <2>5. QED BY <1>2, <2>2, <2>4 DEF QuietOn
  <1> DEFINE One(r) == [j \in Intids |-> IF j = i THEN r ELSE g.int[j]]
             u == g.int[i]
  <1>3. u \in Interrupts BY <1>1
  <1>4. ASSUME NEW on \in BOOLEAN
        PROVE  /\ [u EXCEPT !.enabled = on] \in Interrupts
               /\ [u EXCEPT !.enabled = on].active = u.active
               /\ [u EXCEPT !.enabled = on].priority = u.priority
               /\ [u EXCEPT !.enabled = on].edge = u.edge
               /\ [u EXCEPT !.enabled = on].pending => u.pending
               /\ [u EXCEPT !.routed = on] \in Interrupts
               /\ [u EXCEPT !.routed = on].active = u.active
               /\ [u EXCEPT !.routed = on].priority = u.priority
               /\ [u EXCEPT !.routed = on].edge = u.edge
               /\ [u EXCEPT !.routed = on].pending => u.pending
               /\ [u EXCEPT !.pending = FALSE] \in Interrupts
               /\ [u EXCEPT !.pending = FALSE].active = u.active
               /\ [u EXCEPT !.pending = FALSE].priority = u.priority
               /\ [u EXCEPT !.pending = FALSE].edge = u.edge
               /\ ~[u EXCEPT !.pending = FALSE].pending
    BY <1>3, Zenon DEF Interrupts
  <1>5. ASSUME NEW on \in BOOLEAN
        PROVE  /\ write_enable(g, {i}, on)
                    = update_all_cpus([g EXCEPT !.int = One([u EXCEPT !.enabled = on])])
               /\ write_pending(g, {i}, FALSE)
                    = update_all_cpus([g EXCEPT !.int = One([u EXCEPT !.pending = FALSE])])
               /\ write_irouter(g, i, on)
                    = update_all_cpus([g EXCEPT !.int = One([u EXCEPT !.routed = on])])
    <2>1. [j \in Intids |-> IF j \in {i} THEN [g.int[j] EXCEPT !.enabled = on] ELSE g.int[j]]
            = One([u EXCEPT !.enabled = on])
      OBVIOUS
    <2>2. [j \in Intids |-> IF j \in {i} THEN [g.int[j] EXCEPT !.pending = FALSE] ELSE g.int[j]]
            = One([u EXCEPT !.pending = FALSE])
      BY Zenon
    <2>3. [g.int EXCEPT ![i].routed = on] = One([u EXCEPT !.routed = on])
      BY <1>1
    <2>4. [g EXCEPT !.int[i].routed = on]
            = [g EXCEPT !.int = [g.int EXCEPT ![i].routed = on]]
      BY DEF Gics
    <2> HIDE DEF One, u
    <2>5. QED BY <2>1, <2>2, <2>3, <2>4, Zenon
      DEF write_enable, write_pending, write_irouter, Each
  <1> HIDE DEF One
  <1>6. ASSUME NEW on \in BOOLEAN, d = write_enable(g, {i}, on)
        PROVE  QuietOn(g, d, i)
    <2> DEFINE r == [u EXCEPT !.enabled = on]
               f == One(r)
    <2>1. /\ r \in Interrupts /\ r.active = g.int[i].active
          /\ r.priority = g.int[i].priority /\ r.edge = g.int[i].edge
          /\ r.pending => g.int[i].pending
      BY <1>4, Zenon
    <2>2. d = update_all_cpus([g EXCEPT !.int = f]) BY <1>5, <1>6, Zenon
    <2> HIDE DEF r
    <2>3. f = [j \in Intids |-> IF j = i THEN r ELSE g.int[j]] BY DEF One
    <2> HIDE DEF f
    <2>4. QED BY <1>2, <2>1, <2>2, <2>3
  <1>7. ASSUME NEW on \in BOOLEAN, d = write_irouter(g, i, on)
        PROVE  QuietOn(g, d, i)
    <2> DEFINE r == [u EXCEPT !.routed = on]
               f == One(r)
    <2>1. /\ r \in Interrupts /\ r.active = g.int[i].active
          /\ r.priority = g.int[i].priority /\ r.edge = g.int[i].edge
          /\ r.pending => g.int[i].pending
      BY <1>4, Zenon
    <2>2. d = update_all_cpus([g EXCEPT !.int = f]) BY <1>5, <1>7, Zenon
    <2> HIDE DEF r
    <2>3. f = [j \in Intids |-> IF j = i THEN r ELSE g.int[j]] BY DEF One
    <2> HIDE DEF f
    <2>4. QED BY <1>2, <2>1, <2>2, <2>3
  <1>8. ASSUME d = write_pending(g, {i}, FALSE)
         PROVE  QuietOn(g, d, i)
    BY <1>2, <1>4, <1>5, <1>8, Zenon DEF One
  <1>9. QED BY <1>6, <1>7, <1>8, Zenon

LEMMA MaskWrite ==
  ASSUME NEW g \in Gics, NEW m \in Priorities, NEW d, d = set_priority_mask(g, m)
  PROVE  Kept(d) /\ SameServices(g, d) /\ d.grp1 = g.grp1 /\ d.int = g.int
  <1> DEFINE w == [g EXCEPT !.priority_mask = m]
  <1>1. w \in Gics /\ SameServices(g, w) /\ w.grp1 = g.grp1 /\ w.int = g.int
    BY DEF Gics, SameServices, SameInts
  <1>2. d = update_all_cpus(w) BY DEF set_priority_mask
  <1> HIDE DEF w
  <1>3. Kept(d) /\ SameSettings(w, d) BY <1>1, <1>2, UpdateIsCurrent DEF Kept
  <1>4. SameServices(g, d) BY <1>1, <1>2, UpdateKeepsServices
  <1>5. QED BY <1>1, <1>3, <1>4 DEF SameSettings

(* The boot starts from a reset controller and requests nothing. *)
Fresh(g) ==
  /\ Kept(g) /\ ~g.eoi_mode
  /\ g.active_priorities = <<>> /\ g.running_priority = IDLE
  /\ \A i \in Intids : /\ ~g.int[i].active /\ ~g.int[i].pending
                       /\ g.int[i].edge => i \in Sgis

LEMMA FreshWrite ==
  ASSUME NEW g, Fresh(g), NEW f \in [Intids -> Interrupts],
         \A i \in Intids : /\ ~f[i].active /\ ~f[i].pending
                           /\ f[i].edge => i \in Sgis
  PROVE  Fresh(update_all_cpus([g EXCEPT !.int = f]))
  <1> DEFINE d == update_all_cpus([g EXCEPT !.int = f])
  <1>1. g \in Gics BY DEF Fresh, Kept
  <1>2. SameInts(g.int, f) BY DEF Fresh, SameInts
  <1>3. d = update_all_cpus([g EXCEPT !.int = f]) OBVIOUS
  <1> HIDE DEF d
  <1>4. Kept(d) /\ SameServices(g, d) /\ d.int = f BY <1>1, <1>2, <1>3, IntWrite
  <1>5. Fresh(d) BY <1>4 DEF Fresh, SameServices
  <1>6. QED BY <1>5 DEF d

LEMMA FreshWrites ==
  ASSUME NEW g, Fresh(g), NEW S, NEW p \in Priorities
  PROVE  Fresh(write_enable(g, S, TRUE)) /\ Fresh(write_priority(g, S, p))
  <1> DEFINE e == [i \in Intids |-> IF i \in S THEN [g.int[i] EXCEPT !.enabled = TRUE] ELSE g.int[i]]
             r == [i \in Intids |-> IF i \in S THEN [g.int[i] EXCEPT !.priority = p] ELSE g.int[i]]
  <1>1. \A i \in Intids : g.int[i] \in Interrupts BY GicFields DEF Fresh, Kept
  <1>2. \A i \in Intids : /\ [g.int[i] EXCEPT !.enabled = TRUE] \in Interrupts
                          /\ [g.int[i] EXCEPT !.priority = p] \in Interrupts
    BY <1>1, Zenon DEF Interrupts
  <1>3. e \in [Intids -> Interrupts] /\ r \in [Intids -> Interrupts] BY <1>1, <1>2, Zenon
  <1>4. \A i \in Intids : /\ e[i].active = g.int[i].active /\ e[i].pending = g.int[i].pending
                          /\ e[i].edge = g.int[i].edge
                          /\ r[i].active = g.int[i].active /\ r[i].pending = g.int[i].pending
                          /\ r[i].edge = g.int[i].edge
    BY <1>1 DEF Interrupts
  <1>5. /\ write_enable(g, S, TRUE) = update_all_cpus([g EXCEPT !.int = e])
        /\ write_priority(g, S, p) = update_all_cpus([g EXCEPT !.int = r])
    BY DEF write_enable, write_priority, Each
  <1> HIDE DEF e, r
  <1>6. \A i \in Intids : /\ ~e[i].active /\ ~e[i].pending /\ (e[i].edge => i \in Sgis)
                          /\ ~r[i].active /\ ~r[i].pending /\ (r[i].edge => i \in Sgis)
    BY <1>4 DEF Fresh
  <1>7. /\ Fresh(update_all_cpus([g EXCEPT !.int = e]))
        /\ Fresh(update_all_cpus([g EXCEPT !.int = r]))
    BY <1>3, <1>6, FreshWrite
  <1>8. QED BY <1>5, <1>7, Zenon
=============================================================================
