------------------------------- MODULE PicProofs -------------------------------
(***************************************************************************)
(* Proofs about the 8259A pair, for every set of device lines and of       *)
(* command bytes.                                                          *)
(***************************************************************************)
EXTENDS PicNesting, TLAPS

-----------------------------------------------------------------------------
(* Arithmetic of the rotating priority: ranks are lines again, two lines   *)
(* never share a rank, and when the top t of a group becomes the lowest    *)
(* level the rest of the group keeps its order.                            *)
LEMMA RankArithmetic ==
  ASSUME NEW l \in Lines, NEW t \in Lines, NEW i \in Lines, NEW j \in Lines
  PROVE  /\ (i + 7 - l) % 8 \in Lines
         /\ (i + 7 - l) % 8 = (j + 7 - l) % 8 => i = j
         /\ (t + 7 - l) % 8 < (i + 7 - l) % 8 /\ (t + 7 - l) % 8 < (j + 7 - l) % 8
              => ((i + 7 - t) % 8 < (j + 7 - t) % 8
                    <=> (i + 7 - l) % 8 < (j + 7 - l) % 8)
  BY DEF Lines

(* A non-empty set of lines has a least element. *)
LEMMA LeastLine ==
  ASSUME NEW T \in SUBSET Lines, T # {}
  PROVE  \E m \in T : \A n \in T : m <= n
  <1>1. CASE 0 \in T BY <1>1 DEF Lines
  <1>2. CASE 0 \notin T /\ 1 \in T BY <1>2 DEF Lines
  <1>3. CASE 0 \notin T /\ 1 \notin T /\ 2 \in T BY <1>3 DEF Lines
  <1>4. CASE 0 \notin T /\ 1 \notin T /\ 2 \notin T /\ 3 \in T BY <1>4 DEF Lines
  <1>5. CASE T \cap (0..3) = {} /\ 4 \in T BY <1>5 DEF Lines
  <1>6. CASE T \cap (0..4) = {} /\ 5 \in T BY <1>6 DEF Lines
  <1>7. CASE T \cap (0..5) = {} /\ 6 \in T BY <1>7 DEF Lines
  <1>8. CASE T \cap (0..6) = {}
    <2>1. \A n \in T : n = 7 BY <1>8 DEF Lines
    <2>2. QED BY <2>1
  <1>9. QED BY <1>1, <1>2, <1>3, <1>4, <1>5, <1>6, <1>7, <1>8 DEF Lines

-----------------------------------------------------------------------------
(* TopOf picks the line of smallest rank. *)
LEMMA TopOfIsTop ==
  ASSUME NEW c \in Chips, NEW S \in SUBSET Lines, S # {}
  PROVE  /\ TopOf(c, S) \in S
         /\ \A j \in S : priority_rank(c, TopOf(c, S)) <= priority_rank(c, j)
         /\ \A j \in S \ {TopOf(c, S)} :
              priority_rank(c, TopOf(c, S)) < priority_rank(c, j)
  <1> DEFINE R == {priority_rank(c, i) : i \in S}
  <1>1. c.lowest_priority \in Lines BY DEF Chips
  <1>2. \A i \in S : priority_rank(c, i) \in Lines
    BY <1>1, RankArithmetic DEF priority_rank
  <1>3. R \in SUBSET Lines /\ R # {} BY <1>2
  <1>4. PICK m \in R : \A n \in R : m <= n BY <1>3, LeastLine, Zenon
  <1>5. \E i \in S : \A j \in S : priority_rank(c, i) <= priority_rank(c, j) BY <1>4
  <1>6. /\ TopOf(c, S) \in S
        /\ \A j \in S : priority_rank(c, TopOf(c, S)) <= priority_rank(c, j)
    BY <1>5 DEF TopOf
  <1>7. ASSUME NEW j \in S \ {TopOf(c, S)}
        PROVE  priority_rank(c, TopOf(c, S)) < priority_rank(c, j)
    <2>1. priority_rank(c, TopOf(c, S)) # priority_rank(c, j)
      BY <1>1, <1>6, RankArithmetic DEF priority_rank
    <2>2. QED BY <2>1, <1>2, <1>6 DEF Lines
  <1>8. QED BY <1>6, <1>7

(* What a chip that stays a chip may do to its services: nothing, start    *)
(* one on top, end the one on top, or forget them all.                     *)
Quiet(c, d) == d.isr = c.isr /\ InServiceOrder(d) = InServiceOrder(c)

Starts(c, d, i) ==
  /\ i \in Lines \ c.isr
  /\ d.isr = c.isr \cup {i}
  /\ InServiceOrder(d) = InServiceOrder(c) \cup ({i} \X c.isr)

Ends(c, d, i) ==
  /\ i \in c.isr
  /\ \A j \in c.isr \ {i} : <<i, j>> \in InServiceOrder(c)
  /\ d.isr = c.isr \ {i}
  /\ InServiceOrder(d) = InServiceOrder(c) \cap (d.isr \X d.isr)

Forgets(d) == d.isr = {} /\ InServiceOrder(d) = {}

Serves(c, d) ==
  Quiet(c, d) \/ (\E i \in Lines : Starts(c, d, i) \/ Ends(c, d, i)) \/ Forgets(d)

(* A step that leaves the services and the priority alone is quiet. *)
LEMMA SameIsQuiet ==
  ASSUME NEW c, NEW d, d.isr = c.isr, d.lowest_priority = c.lowest_priority
  PROVE  Quiet(c, d)
  BY DEF Quiet, InServiceOrder, priority_rank

-----------------------------------------------------------------------------
(* The operators of the chip, one by one: each returns a chip, keeps special *)
(* mask mode off where it was off, and serves.                              *)
Plain(c) == c \in Chips /\ ~c.special_mask_mode

LEMMA SetIrqPlain ==
  ASSUME NEW c \in Chips, NEW irq \in Lines, NEW level \in BOOLEAN
  PROVE  /\ set_irq(c, irq, level) \in Chips
         /\ Quiet(c, set_irq(c, irq, level))
         /\ set_irq(c, irq, level).special_mask_mode = c.special_mask_mode
  <1> DEFINE d == set_irq(c, irq, level)
  <1>1. d \in Chips /\ d.special_mask_mode = c.special_mask_mode
    BY Zenon DEF set_irq, WithLine, Chips
  <1>2. d.isr = c.isr /\ d.lowest_priority = c.lowest_priority
    BY DEF set_irq, WithLine, Chips
  <1>3. QED BY <1>1, <1>2, SameIsQuiet

LEMMA RefreshPlain ==
  ASSUME NEW m \in Chips, NEW s
  PROVE  /\ refresh_cascade(m, s) \in Chips
         /\ Quiet(m, refresh_cascade(m, s))
         /\ refresh_cascade(m, s).special_mask_mode = m.special_mask_mode
  <1> DEFINE d == set_irq(m, Cascade, has_pending(s))
             r == refresh_cascade(m, s)
  <1>1. has_pending(s) \in BOOLEAN /\ Cascade \in Lines
    BY DEF has_pending, Cascade, Lines
  <1>2. d \in Chips /\ Quiet(m, d) /\ d.special_mask_mode = m.special_mask_mode
    BY <1>1, SetIrqPlain
  <1>3. r = d \/ r = [d EXCEPT !.irr = @ \ {Cascade}] BY DEF refresh_cascade
  <1>4. /\ r \in Chips /\ r.special_mask_mode = d.special_mask_mode
        /\ r.isr = d.isr /\ r.lowest_priority = d.lowest_priority
    BY <1>2, <1>3 DEF Chips
  <1>5. Quiet(d, r) BY <1>4, SameIsQuiet
  <1>6. QED BY <1>2, <1>4, <1>5 DEF Quiet

(* An acknowledge of the highest pending request starts it on top, or, in  *)
(* auto-EOI mode, leaves every service and their order as they were.       *)
LEMMA AckPlain ==
  ASSUME NEW c, Plain(c), has_pending(c)
  PROVE  /\ Plain(ack_irq(c, highest_pending(c)))
         /\ Serves(c, ack_irq(c, highest_pending(c)))
  <1> DEFINE i == highest_pending(c)
             d == ack_irq(c, i)
  <1>0. c \in Chips /\ c.isr \in SUBSET Lines /\ c.lowest_priority \in Lines
    BY DEF Plain, Chips
  <1>1. Deliverable(c) \in SUBSET Lines BY <1>0 DEF Deliverable, Chips
  <1>2. i \in Deliverable(c)
    BY <1>0, <1>1, TopOfIsTop DEF has_pending, highest_pending
  <1>3. /\ i \in Lines \ c.isr
        /\ \A j \in c.isr : priority_rank(c, i) < priority_rank(c, j)
    <2>1. i \in Lines \ c.isr BY <1>1, <1>2 DEF Deliverable
    <2>2. \A j \in c.isr : priority_rank(c, j) > priority_rank(c, i)
      BY <1>2 DEF Deliverable, BlockingIsr, Plain
    <2>3. \A j \in Lines : priority_rank(c, j) \in Lines
      BY <1>0, RankArithmetic DEF priority_rank
    <2>4. QED BY <2>1, <2>2, <2>3, <1>0 DEF Lines
  <1>4. Plain(d) BY <1>0, <1>3, Zenon DEF ack_irq, Plain, Chips
  <1>5. CASE ~c.auto_eoi
    <2>1. d.isr = c.isr \cup {i} /\ d.lowest_priority = c.lowest_priority
      BY <1>0, <1>5 DEF ack_irq, Chips
    <2>2. \A j \in c.isr : ~(priority_rank(c, j) < priority_rank(c, i))
      <3>1. \A j \in Lines : priority_rank(c, j) \in Lines
        BY <1>0, RankArithmetic DEF priority_rank
      <3>2. QED BY <3>1, <1>0, <1>3 DEF Lines
    <2>3. ~(priority_rank(c, i) < priority_rank(c, i))
      BY <1>0, <1>3, RankArithmetic DEF priority_rank, Lines
    <2>4. InServiceOrder(d) = InServiceOrder(c) \cup ({i} \X c.isr)
      <3>1. InServiceOrder(d) = {p \in d.isr \X d.isr :
                                   priority_rank(c, p[1]) < priority_rank(c, p[2])}
        BY <2>1 DEF InServiceOrder, priority_rank
      <3>2. QED BY <3>1, <2>1, <2>2, <2>3, <1>3 DEF InServiceOrder
    <2>5. Starts(c, d, i) BY <2>1, <2>4, <1>3 DEF Starts
    <2>6. QED BY <2>5, <1>3, <1>4 DEF Serves
  <1>6. CASE c.auto_eoi /\ c.rotate_in_auto_eoi
    <2>1. d.isr = c.isr /\ d.lowest_priority = i
      BY <1>0, <1>6 DEF ack_irq, Chips
    <2>2. \A j, k \in c.isr : priority_rank(d, j) < priority_rank(d, k)
                                <=> priority_rank(c, j) < priority_rank(c, k)
      BY <1>0, <1>3, <2>1, RankArithmetic DEF priority_rank
    <2>3. InServiceOrder(d) = InServiceOrder(c)
      BY <2>1, <2>2 DEF InServiceOrder
    <2>4. QED BY <2>1, <2>3, <1>4 DEF Serves, Quiet
  <1>7. CASE c.auto_eoi /\ ~c.rotate_in_auto_eoi
    <2>1. d.isr = c.isr /\ d.lowest_priority = c.lowest_priority
      BY <1>0, <1>7 DEF ack_irq, Chips
    <2>2. QED BY <2>1, <1>4, SameIsQuiet DEF Serves
  <1>8. QED BY <1>5, <1>6, <1>7

(* A write to the command port yields a chip, whatever the byte. *)
LEMMA CommandType ==
  ASSUME NEW c \in Chips, NEW v \in Bytes
  PROVE  write_command(c, v) \in Chips
  <1>0. Ocw2Level(v) \in Lines BY DEF Ocw2Level, Lines, Bytes
  <1>b. \A i : Bit(v, i) \in BOOLEAN BY DEF Bit
  <1>1. Icw1(c, v) \in Chips
    <2>1. 7 \in Lines /\ {} \in SUBSET Lines /\ "WaitingICW2" \in InitStates
      BY DEF Lines, InitStates
    <2>2. QED BY <1>b, <2>1, Zenon DEF Icw1, Chips
  <1>2. Ocw3(c, v) \in Chips
    <2>1. \A p, r, s \in BOOLEAN :
             [c EXCEPT !.poll_mode = p, !.read_irr = r, !.special_mask_mode = s]
               \in Chips
      BY Zenon DEF Chips
    <2>2. /\ (c.poll_mode \/ Bit(v, 2)) \in BOOLEAN
          /\ (IF Bit(v, 1) THEN ~Bit(v, 0) ELSE c.read_irr) \in BOOLEAN
          /\ (IF Bit(v, 6) THEN Bit(v, 5) ELSE c.special_mask_mode) \in BOOLEAN
      BY <1>b, Zenon DEF Chips
    <2>3. QED BY <2>1, <2>2, Zenon DEF Ocw3
  <1>3. non_specific_eoi(c) \in Chips BY DEF non_specific_eoi, Chips
  <1>4. RotateOnEoi(c) \in Chips
    <2>1. CASE BlockingIsr(c) = {} BY <2>1 DEF RotateOnEoi
    <2>2. CASE BlockingIsr(c) # {}
      <3>1. TopOf(c, BlockingIsr(c)) \in Lines
        BY <2>2, TopOfIsTop DEF BlockingIsr, Chips
      <3>2. QED BY <2>2, <3>1, <1>3 DEF RotateOnEoi, Chips
    <2>3. QED BY <2>1, <2>2
  <1>5. Ocw2(c, v) \in Chips
    <2>1. specific_eoi(c, Ocw2Level(v)) \in Chips BY DEF specific_eoi, Chips
    <2>2. [specific_eoi(c, Ocw2Level(v)) EXCEPT !.lowest_priority = Ocw2Level(v)]
            \in Chips
      BY <2>1, <1>0 DEF Chips
    <2>3. /\ [c EXCEPT !.lowest_priority = Ocw2Level(v)] \in Chips
          /\ [c EXCEPT !.rotate_in_auto_eoi = TRUE] \in Chips
          /\ [c EXCEPT !.rotate_in_auto_eoi = FALSE] \in Chips
      BY <1>0, Zenon DEF Chips
    <2>4. QED BY <1>3, <1>4, <2>1, <2>2, <2>3 DEF Ocw2
  <1>6. QED BY <1>1, <1>2, <1>5 DEF write_command

(* A non-specific EOI, rotating or not, ends the service on top: the two   *)
(* differ only in the priority that is lowest afterwards.                  *)
LEMMA EoiEnds ==
  ASSUME NEW c, Plain(c), NEW d, c.isr # {},
         d.isr = c.isr \ {TopOf(c, c.isr)},
         d.lowest_priority \in {c.lowest_priority, TopOf(c, c.isr)}
  PROVE  \E i \in Lines : Ends(c, d, i)
  <1> DEFINE t == TopOf(c, c.isr)
  <1>0. c \in Chips /\ c.isr \in SUBSET Lines /\ c.lowest_priority \in Lines
    BY DEF Plain, Chips
  <1>1. /\ t \in c.isr
        /\ \A j \in c.isr \ {t} : priority_rank(c, t) < priority_rank(c, j)
    BY <1>0, TopOfIsTop
  <1>2. \A j \in c.isr \ {t} : <<t, j>> \in InServiceOrder(c)
    BY <1>1 DEF InServiceOrder
  <1>3. \A j, k \in d.isr : priority_rank(d, j) < priority_rank(d, k)
                              <=> priority_rank(c, j) < priority_rank(c, k)
    <2>1. CASE d.lowest_priority = c.lowest_priority BY <2>1 DEF priority_rank
    <2>2. CASE d.lowest_priority = t
      BY <2>2, <1>0, <1>1, RankArithmetic DEF priority_rank
    <2>3. QED BY <2>1, <2>2
  <1>4. InServiceOrder(d) = InServiceOrder(c) \cap (d.isr \X d.isr)
    BY <1>3 DEF InServiceOrder
  <1>5. Ends(c, d, t) BY <1>1, <1>2, <1>4 DEF Ends
  <1>6. QED BY <1>0, <1>1, <1>5

LEMMA CommandPlain ==
  ASSUME NEW c, Plain(c), NEW v \in NestedCommands
  PROVE  Plain(write_command(c, v)) /\ Serves(c, write_command(c, v))
  <1> DEFINE d == write_command(c, v)
  <1>0. /\ c \in Chips /\ v \in Bytes /\ BlockingIsr(c) = c.isr
        /\ c.isr \in SUBSET Lines
    BY DEF Plain, NestedCommands, BlockingIsr, Chips
  <1>1. d \in Chips BY <1>0, CommandType
  <1>2. CASE Bit(v, 4)
    <2>1. d.isr = {} /\ ~d.special_mask_mode
      BY <1>0, <1>2 DEF write_command, Icw1, Chips
    <2>2. InServiceOrder(d) = {} BY <2>1 DEF InServiceOrder
    <2>3. QED BY <1>1, <2>1, <2>2 DEF Plain, Serves, Forgets
  <1>3. CASE ~Bit(v, 4) /\ Bit(v, 3)
    <2>1. d = Ocw3(c, v) BY <1>3 DEF write_command
    <2>2. d.isr = c.isr /\ d.lowest_priority = c.lowest_priority
      BY <1>0, <2>1 DEF Ocw3, Chips
    <2>3. ~(Bit(v, 6) /\ Bit(v, 5)) BY <1>3 DEF NestedCommands
    <2>4. ~d.special_mask_mode BY <1>0, <2>1, <2>3 DEF Ocw3, Plain, Chips
    <2>5. QED BY <1>1, <2>2, <2>4, SameIsQuiet DEF Plain, Serves
  <1>4. CASE ~Bit(v, 4) /\ ~Bit(v, 3)
    <2>1. d = Ocw2(c, v) /\ Ocw2Op(v) \in {0, 1, 2, 4, 5}
      BY <1>4 DEF write_command, NestedCommands
    <2>2. CASE Ocw2Op(v) \in {0, 2, 4} \/ c.isr = {}
      <3>1. d \in {c, [c EXCEPT !.rotate_in_auto_eoi = TRUE],
                      [c EXCEPT !.rotate_in_auto_eoi = FALSE]}
        BY <1>0, <2>1, <2>2 DEF Ocw2, non_specific_eoi, RotateOnEoi
      <3>2. /\ d.isr = c.isr /\ d.lowest_priority = c.lowest_priority
            /\ d.special_mask_mode = c.special_mask_mode
        BY <1>0, <3>1 DEF Chips
      <3>3. QED BY <1>1, <3>2, SameIsQuiet DEF Plain, Serves
    <2>3. CASE Ocw2Op(v) \in {1, 5} /\ c.isr # {}
      <3>1. d \in {non_specific_eoi(c), RotateOnEoi(c)}
        BY <2>1, <2>3 DEF Ocw2
      <3>2. /\ d.isr = c.isr \ {TopOf(c, c.isr)}
            /\ d.lowest_priority \in {c.lowest_priority, TopOf(c, c.isr)}
            /\ d.special_mask_mode = c.special_mask_mode
        BY <1>0, <2>3, <3>1, Zenon DEF non_specific_eoi, RotateOnEoi, Chips
      <3>3. QED BY <1>1, <2>3, <3>2, EoiEnds DEF Plain, Serves
    <2>4. QED BY <2>1, <2>2, <2>3
  <1>5. QED BY <1>2, <1>3, <1>4

LEMMA DataPlain ==
  ASSUME NEW c \in Chips, NEW v \in Bytes
  PROVE  /\ write_data(c, v) \in Chips
         /\ Quiet(c, write_data(c, v))
         /\ write_data(c, v).special_mask_mode = c.special_mask_mode
  <1> DEFINE d == write_data(c, v)
  <1>1. /\ Bit(v, 1) \in BOOLEAN
        /\ (v - (v % 8)) \in Bytes
        /\ LinesOf(v) \in SUBSET Lines
        /\ AfterIcw3(c) \in InitStates
    BY DEF Bit, Bytes, LinesOf, AfterIcw3, InitStates
  <1>2. /\ d \in Chips /\ d.special_mask_mode = c.special_mask_mode
        /\ d.isr = c.isr /\ d.lowest_priority = c.lowest_priority
    <2>1. \A o \in Bytes : \A s \in InitStates :
            [c EXCEPT !.vector_offset = o, !.init_state = s] \in Chips
      BY Zenon DEF Chips
    <2>2. CASE c.init_state = "WaitingICW2"
      <3>1. PICK s \in InitStates :
              d = [c EXCEPT !.vector_offset = v - (v % 8), !.init_state = s]
        BY <1>1, <2>2, Zenon DEF write_data, InitStates
      <3>2. QED BY <1>1, <2>1, <3>1, Zenon DEF Chips
    <2>3. CASE c.init_state = "WaitingICW3"
      BY <1>1, <2>3 DEF write_data, Chips
    <2>4. CASE c.init_state = "WaitingICW4"
      <3>1. d = [c EXCEPT !.auto_eoi = Bit(v, 1), !.init_state = "Ready"]
        BY <2>4 DEF write_data
      <3>2. \A b \in BOOLEAN :
              [c EXCEPT !.auto_eoi = b, !.init_state = "Ready"] \in Chips
        BY Zenon DEF Chips, InitStates
      <3>3. QED BY <1>1, <3>1, <3>2, Zenon DEF Chips
    <2>5. CASE c.init_state = "Ready"
      BY <1>1, <2>5 DEF write_data, Chips
    <2>6. QED BY <2>2, <2>3, <2>4, <2>5 DEF Chips, InitStates
  <1>3. QED BY <1>2, SameIsQuiet

LEMMA PendingIsLine ==
  ASSUME NEW c \in Chips, has_pending(c)
  PROVE  highest_pending(c) \in Deliverable(c) /\ highest_pending(c) \in Lines
  <1>1. Deliverable(c) \in SUBSET Lines BY DEF Deliverable, Chips
  <1>2. QED BY <1>1, TopOfIsTop DEF has_pending, highest_pending

LEMMA AckType ==
  ASSUME NEW c \in Chips, NEW irq \in Lines
  PROVE  ack_irq(c, irq) \in Chips
  BY Zenon DEF ack_irq, Chips

(* A poll read acknowledges as an INTA does; any other read is quiet. *)
LEMMA ReadCommandType ==
  ASSUME NEW c \in Chips
  PROVE  read_command(c) \in Chips
  <1> DEFINE p == [c EXCEPT !.poll_mode = FALSE]
  <1>1. p \in Chips BY Zenon DEF Chips
  <1>2. QED BY <1>1, AckType, PendingIsLine DEF read_command

LEMMA ReadCommandPlain ==
  ASSUME NEW c, Plain(c)
  PROVE  Plain(read_command(c)) /\ Serves(c, read_command(c))
  <1> DEFINE p == [c EXCEPT !.poll_mode = FALSE]
  <1>0. c \in Chips BY DEF Plain
  <1>1. /\ p \in Chips /\ p.isr = c.isr /\ p.lowest_priority = c.lowest_priority
        /\ p.irr = c.irr /\ p.imr = c.imr
        /\ p.special_mask_mode = c.special_mask_mode
    BY <1>0, Zenon DEF Chips
  <1>2. Plain(p) /\ Quiet(c, p) BY <1>1, SameIsQuiet, Zenon DEF Plain
  <1>3. CASE c.poll_mode /\ has_pending(c)
    <2>1. \A S : TopOf(p, S) = TopOf(c, S) BY <1>1 DEF TopOf, priority_rank
    <2>2. Deliverable(p) = Deliverable(c)
      BY <1>1 DEF Deliverable, BlockingIsr, priority_rank
    <2>3. has_pending(p) /\ highest_pending(p) = highest_pending(c)
      BY <1>3, <2>1, <2>2, Zenon DEF has_pending, highest_pending
    <2>4. read_command(c) = ack_irq(p, highest_pending(p))
      BY <1>3, <2>3 DEF read_command
    <2>5. Plain(read_command(c)) /\ Serves(p, read_command(c))
      BY <1>2, <2>3, <2>4, AckPlain
    <2>6. QED BY <1>2, <2>5, Zenon DEF Serves, Quiet, Starts, Ends, Forgets
  <1>4. CASE ~(c.poll_mode /\ has_pending(c))
    BY <1>2, <1>4 DEF read_command, Serves
  <1>5. QED BY <1>3, <1>4

(* Keeps(c, d): chip d is chip c as far as its services are concerned. *)
Keeps(c, d) ==
  d \in Chips /\ Quiet(c, d) /\ d.special_mask_mode = c.special_mask_mode

(* Devices move lines and latch requests; they never touch a service. *)
LEMMA DeviceQuiet ==
  ASSUME TypeOK, DeviceStep
  PROVE  TypeOK' /\ Keeps(master, master') /\ Keeps(slave, slave')
  <1>0. /\ master \in Chips /\ slave \in Chips
        /\ Keeps(master, master) /\ Keeps(slave, slave)
    BY DEF TypeOK, Keeps, Quiet
  <1>1. PICK irq \in DeviceIrqs :
          PulseIrq(irq) \/ \E level \in BOOLEAN : SetIrq(irq, level)
    BY DEF DeviceStep
  <1>2. irq \in Int /\ (irq < 8 => irq \in Lines) /\ (irq >= 8 => irq - 8 \in Lines)
    BY DualPicAssumption DEF Lines
  <1>3. \A c \in Chips, i \in Lines, level \in BOOLEAN : Keeps(c, set_irq(c, i, level))
    BY SetIrqPlain DEF Keeps
  <1>4. \A m \in Chips, s \in Chips : Keeps(m, refresh_cascade(m, s))
    BY RefreshPlain DEF Keeps
  <1>5. \A c, d, e : Keeps(c, d) /\ Keeps(d, e) => Keeps(c, e) BY DEF Keeps, Quiet
  <1>6. Keeps(master, master') /\ Keeps(slave, slave')
    <2>1. ASSUME NEW level \in BOOLEAN, SetIrq(irq, level)
          PROVE  Keeps(master, master') /\ Keeps(slave, slave')
      <3>1. CASE irq < 8 /\ master' = set_irq(master, irq, level) /\ slave' = slave
        BY <3>1, <1>0, <1>2, <1>3
      <3>2. CASE irq >= 8 /\ SlaveBecomes(master, set_irq(slave, irq - 8, level))
        <4>1. Keeps(slave, slave') BY <3>2, <1>0, <1>2, <1>3 DEF SlaveBecomes
        <4>2. slave' \in Chips BY <4>1 DEF Keeps
        <4>3. QED BY <4>1, <4>2, <3>2, <1>0, <1>4 DEF SlaveBecomes
      <3>3. QED BY <2>1, <3>1, <3>2 DEF SetIrq
    <2>2. CASE PulseIrq(irq)
      <3>1. CASE /\ irq < 8 /\ slave' = slave
                 /\ master' = set_irq(set_irq(master, irq, TRUE), irq, FALSE)
        <4> DEFINE high == set_irq(master, irq, TRUE)
        <4>1. Keeps(master, high) /\ high \in Chips
          BY <3>1, <1>0, <1>2, <1>3, Zenon DEF Keeps
        <4>2. Keeps(high, set_irq(high, irq, FALSE)) BY <4>1, <3>1, <1>2, <1>3, Zenon
        <4>3. QED BY <4>1, <4>2, <3>1, <1>0, <1>5, Zenon
      <3>2. CASE /\ irq >= 8
                 /\ SlaveBecomes(refresh_cascade(master, set_irq(slave, irq - 8, TRUE)),
                                 set_irq(set_irq(slave, irq - 8, TRUE), irq - 8, FALSE))
        <4> DEFINE raised == set_irq(slave, irq - 8, TRUE)
                   m == refresh_cascade(master, raised)
        <4>1. Keeps(slave, raised) /\ raised \in Chips
          BY <3>2, <1>0, <1>2, <1>3, Zenon DEF Keeps
        <4>2. Keeps(raised, slave')
          BY <4>1, <3>2, <1>2, <1>3, Zenon DEF SlaveBecomes
        <4>3. Keeps(master, m) /\ m \in Chips /\ slave' \in Chips
          BY <4>1, <4>2, <1>0, <1>4, Zenon DEF Keeps
        <4>4. Keeps(m, master') BY <4>3, <3>2, <1>4, Zenon DEF SlaveBecomes
        <4>5. QED BY <4>1, <4>2, <4>3, <4>4, <1>5, Zenon
      <3>3. QED BY <2>2, <3>1, <3>2, Zenon DEF PulseIrq
    <2>3. QED BY <1>1, <2>1, <2>2
  <1>7. QED BY <1>6 DEF Keeps, TypeOK

-----------------------------------------------------------------------------
(* Every step of the pair keeps both chips chips: the registers stay eight *)
(* bits wide and the rotating priority a line number.                      *)
THEOREM TypeCorrect == Spec => []TypeOK
  <1>1. Init => TypeOK
    BY DEF Init, TypeOK, NewChip, Chips, Lines, Bytes, InitStates
  <1>2. TypeOK /\ [Next]_vars => TypeOK'
    <2> SUFFICES ASSUME TypeOK, [Next]_vars PROVE TypeOK' OBVIOUS
    <2> USE DEF TypeOK
    <2>1. CASE DeviceStep BY <2>1, DeviceQuiet
    <2>s. SlaveAcked \in Chips BY PendingIsLine, AckType DEF SlaveAcked
    <2>3. CASE get_pending_vector
      BY <2>3, <2>s, PendingIsLine, AckType DEF get_pending_vector
    <2>4. ASSUME NEW irq \in ExplicitAcks, acknowledge(irq) PROVE TypeOK'
      <3>1. irq \in Lines /\ Cascade \in Lines
        BY DualPicAssumption DEF Lines, Cascade
      <3>2. QED BY <2>4, <2>s, <3>1, AckType DEF acknowledge, vars
    <2>5. CASE GuestStep
      BY <2>5, DualPicAssumption, CommandType, DataPlain, RefreshPlain,
         ReadCommandType
      DEF GuestStep, MasterWriteCommand, MasterWriteData, SlaveWriteCommand,
          SlaveWriteData, MasterReadCommand, SlaveReadCommand, SlaveBecomes
    <2>6. CASE UNCHANGED vars BY <2>6 DEF vars
    <2>7. QED BY <2>1, <2>3, <2>4, <2>5, <2>6 DEF Next, CpuStep
  <1>3. QED BY <1>1, <1>2, PTL DEF Spec

-----------------------------------------------------------------------------
(* What a step does to a chip whose guest keeps to nested commands.  The    *)
(* strengthening that makes nesting inductive is Plain: with special mask   *)
(* mode off every level in service blocks the ones below it.                *)
LEMMA KeepsServes ==
  ASSUME NEW c, Plain(c), NEW d, Keeps(c, d)
  PROVE  Plain(d) /\ Serves(c, d)
  BY DEF Keeps, Plain, Serves

LEMMA MasterServes ==
  ASSUME MasterCommands \subseteq NestedCommands, ExplicitAcks = {},
         TypeOK, Plain(master), Next
  PROVE  Plain(master') /\ Serves(master, master')
  <1>0. Keeps(master, master) BY DEF Keeps, Quiet, Plain
  <1>1. CASE DeviceStep BY <1>1, DeviceQuiet, KeepsServes
  <1>2. CASE CpuStep
    BY <1>2, AckPlain DEF CpuStep, get_pending_vector
  <1>3. CASE GuestStep
    <2>1. CASE \E v \in MasterCommands : MasterWriteCommand(v)
      BY <2>1, CommandPlain DEF MasterWriteCommand
    <2>2. CASE \E v \in MasterData : MasterWriteData(v)
      <3>1. PICK v \in MasterData : MasterWriteData(v) BY <2>2
      <3>2. Keeps(master, master')
        BY <3>1, DualPicAssumption, DataPlain DEF MasterWriteData, Keeps, TypeOK
      <3>3. QED BY <3>2, KeepsServes
    <2>3. CASE MasterReadCommand BY <2>3, ReadCommandPlain DEF MasterReadCommand
    <2>4. CASE SlaveReadCommand BY <2>4, <1>0, KeepsServes DEF SlaveReadCommand
    <2>5. CASE \/ \E v \in SlaveCommands : SlaveWriteCommand(v)
               \/ \E v \in SlaveData : SlaveWriteData(v)
      <3>1. PICK s : master' = refresh_cascade(master, s)
        BY <2>5 DEF SlaveWriteCommand, SlaveWriteData, SlaveBecomes
      <3>2. Keeps(master, master') BY <3>1, RefreshPlain DEF Keeps, TypeOK
      <3>3. QED BY <3>2, KeepsServes
    <2>6. QED BY <1>3, <2>1, <2>2, <2>3, <2>4, <2>5 DEF GuestStep
  <1>4. QED BY <1>1, <1>2, <1>3 DEF Next

LEMMA SlaveServes ==
  ASSUME SlaveCommands \subseteq NestedCommands, TypeOK, Plain(slave), Next
  PROVE  Plain(slave') /\ Serves(slave, slave')
  <1>0. Keeps(slave, slave) BY DEF Keeps, Quiet, Plain
  <1>1. CASE DeviceStep BY <1>1, DeviceQuiet, KeepsServes
  <1>2. CASE CpuStep
    <2>1. Plain(SlaveAcked) /\ Serves(slave, SlaveAcked)
      BY <1>0, AckPlain, KeepsServes DEF SlaveAcked
    <2>2. slave' \in {slave, SlaveAcked}
      BY <1>2 DEF CpuStep, get_pending_vector, acknowledge, vars
    <2>3. QED BY <1>0, <2>1, <2>2, KeepsServes
  <1>3. CASE GuestStep
    <2>1. CASE \E v \in SlaveCommands : SlaveWriteCommand(v)
      BY <2>1, CommandPlain DEF SlaveWriteCommand, SlaveBecomes
    <2>2. CASE \E v \in SlaveData : SlaveWriteData(v)
      <3>1. PICK v \in SlaveData : SlaveWriteData(v) BY <2>2
      <3>2. Keeps(slave, slave')
        BY <3>1, DualPicAssumption, DataPlain
        DEF SlaveWriteData, SlaveBecomes, Keeps, TypeOK
      <3>3. QED BY <3>2, KeepsServes
    <2>3. CASE SlaveReadCommand BY <2>3, ReadCommandPlain DEF SlaveReadCommand
    <2>4. CASE slave' = slave BY <2>4, <1>0, KeepsServes
    <2>5. QED BY <1>3, <2>1, <2>2, <2>3, <2>4
      DEF GuestStep, MasterWriteCommand, MasterWriteData, MasterReadCommand
  <1>4. QED BY <1>1, <1>2, <1>3 DEF Next

(* The master chip, under any nested commands and any device lines,        *)
(* implements the stack of ServiceOrder: acknowledges push, non-specific   *)
(* EOIs pop, rotations never reorder what is in service.                   *)
THEOREM MasterImplementsStack ==
  ASSUME MasterCommands \subseteq NestedCommands, ExplicitAcks = {}
  PROVE  Spec => MasterNests
  <1> DEFINE svc == <<master.isr, InServiceOrder(master)>>
  <1>1. Init => MasterService!Init /\ Plain(master)
    BY DEF Init, NewChip, MasterService!Init, InServiceOrder, Plain, Chips, Lines,
           Bytes, InitStates
  <1>2. TypeOK /\ Plain(master) /\ [Next]_vars
          => Plain(master)' /\ [MasterService!Next]_svc
    <2> SUFFICES ASSUME TypeOK, Plain(master), [Next]_vars
                 PROVE  Plain(master)' /\ [MasterService!Next]_svc
      OBVIOUS
    <2>1. CASE UNCHANGED vars BY <2>1 DEF vars
    <2>2. CASE Next
      <3>1. Plain(master') /\ Serves(master, master') BY <2>2, MasterServes
      <3>2. [MasterService!Next]_svc
        BY <3>1 DEF Serves, Quiet, Starts, Ends, Forgets, MasterService!Next,
           MasterService!Begin, MasterService!End, MasterService!Reset
      <3>3. QED BY <3>1, <3>2
    <2>3. QED BY <2>1, <2>2
  <1>3. QED BY <1>1, <1>2, TypeCorrect, PTL DEF Spec, MasterNests, MasterService!Spec

(* The slave chip likewise, whatever the guest does to the master. *)
THEOREM SlaveImplementsStack ==
  ASSUME SlaveCommands \subseteq NestedCommands
  PROVE  Spec => SlaveNests
  <1> DEFINE svc == <<slave.isr, InServiceOrder(slave)>>
  <1>1. Init => SlaveService!Init /\ Plain(slave)
    BY DEF Init, NewChip, SlaveService!Init, InServiceOrder, Plain, Chips, Lines,
           Bytes, InitStates
  <1>2. TypeOK /\ Plain(slave) /\ [Next]_vars
          => Plain(slave)' /\ [SlaveService!Next]_svc
    <2> SUFFICES ASSUME TypeOK, Plain(slave), [Next]_vars
                 PROVE  Plain(slave)' /\ [SlaveService!Next]_svc
      OBVIOUS
    <2>1. CASE UNCHANGED vars BY <2>1 DEF vars
    <2>2. CASE Next
      <3>1. Plain(slave') /\ Serves(slave, slave') BY <2>2, SlaveServes
      <3>2. [SlaveService!Next]_svc
        BY <3>1 DEF Serves, Quiet, Starts, Ends, Forgets, SlaveService!Next,
           SlaveService!Begin, SlaveService!End, SlaveService!Reset
      <3>3. QED BY <3>1, <3>2
    <2>3. QED BY <2>1, <2>2
  <1>3. QED BY <1>1, <1>2, TypeCorrect, PTL DEF Spec, SlaveNests, SlaveService!Spec

-----------------------------------------------------------------------------
(* Requests.  Backed is the inductive invariant of a chip; Holds is what an *)
(* operation that acknowledges nothing does to the requests on the lines S. *)
Backed(c) == c \in Chips /\ (c.level_triggered => c.irr \subseteq c.irq_lines)

Holds(c, d, S) ==
  /\ Backed(d) /\ d.level_triggered = c.level_triggered
  /\ ~c.level_triggered => c.irr \cap S \subseteq d.irr

(* What any step does: it may also consume a request. *)
Passes(c, d, S) == Backed(d) /\ KeepsRequests(c, d, S)

LEMMA HoldsPasses == ASSUME NEW c, NEW d, NEW S, Holds(c, d, S) PROVE Passes(c, d, S)
  BY DEF Holds, Passes, KeepsRequests

LEMMA HoldsTransitive ==
  ASSUME NEW c, NEW d, NEW e, NEW S, Holds(c, d, S), Holds(d, e, S)
  PROVE  Holds(c, e, S)
  BY DEF Holds

(* A chip whose requests, lines and trigger mode are the old ones. *)
LEMMA SameHolds ==
  ASSUME NEW c, Backed(c), NEW d \in Chips, NEW S, d.irr = c.irr,
         d.irq_lines = c.irq_lines, d.level_triggered = c.level_triggered
  PROVE  Holds(c, d, S)
  BY DEF Holds, Backed

LEMMA SetIrqHolds ==
  ASSUME NEW c, Backed(c), NEW irq \in Lines, NEW level \in BOOLEAN
  PROVE  Holds(c, set_irq(c, irq, level), Lines)
  <1> DEFINE d == set_irq(c, irq, level)
  <1>1. c \in Chips /\ d \in Chips BY SetIrqPlain DEF Backed
  <1>2. /\ d.level_triggered = c.level_triggered
        /\ d.irq_lines = IF level THEN c.irq_lines \cup {irq} ELSE c.irq_lines \ {irq}
        /\ d.irr = IF Latches(c, irq, level) THEN c.irr \cup {irq}
                   ELSE IF c.level_triggered THEN c.irr \ {irq} ELSE c.irr
    BY <1>1 DEF set_irq, WithLine, Chips
  <1>3. c.level_triggered \in BOOLEAN BY <1>1 DEF Chips
  <1> HIDE DEF d
  <1>4. c.level_triggered => d.irr \subseteq d.irq_lines BY <1>2 DEF Backed, Latches
  <1>5. ~c.level_triggered => c.irr \subseteq d.irr BY <1>2
  <1>6. QED BY <1>1, <1>2, <1>4, <1>5 DEF Holds, Backed, d

(* A refresh of the cascade may withdraw the request of line 2 only. *)
LEMMA RefreshHolds ==
  ASSUME NEW m, Backed(m), NEW s
  PROVE  Holds(m, refresh_cascade(m, s), Lines \ {Cascade})
  <1> DEFINE d == set_irq(m, Cascade, has_pending(s))
             r == refresh_cascade(m, s)
  <1>1. has_pending(s) \in BOOLEAN /\ Cascade \in Lines BY DEF has_pending, Cascade, Lines
  <1>2. Holds(m, d, Lines) BY <1>1, SetIrqHolds
  <1>3. m \in Chips /\ r \in Chips BY RefreshPlain DEF Backed
  <1>4. r = d \/ r = [d EXCEPT !.irr = @ \ {Cascade}] BY DEF refresh_cascade
  <1> HIDE DEF d, r
  <1>5. /\ r.level_triggered = d.level_triggered /\ r.irq_lines = d.irq_lines
        /\ r.irr \subseteq d.irr /\ d.irr \ {Cascade} \subseteq r.irr
    BY <1>2, <1>4 DEF Holds, Backed, Chips
  <1>6. QED BY <1>2, <1>3, <1>5 DEF Holds, Backed, r

(* An acknowledge consumes its own request, into service or, in auto-EOI   *)
(* mode, at once.                                                          *)
LEMMA AckPasses ==
  ASSUME NEW c, Backed(c), NEW irq \in Lines, NEW S, irq \notin S \/ irq \notin c.isr
  PROVE  Passes(c, ack_irq(c, irq), S)
  <1> DEFINE d == ack_irq(c, irq)
  <1>1. c \in Chips /\ d \in Chips BY AckType DEF Backed
  <1>2. /\ d.irr = c.irr \ {irq} /\ d.level_triggered = c.level_triggered
        /\ d.irq_lines = c.irq_lines /\ (~c.auto_eoi => d.isr = c.isr \cup {irq})
    BY <1>1 DEF ack_irq, Chips
  <1> HIDE DEF d
  <1>3. Backed(d) BY <1>1, <1>2 DEF Backed
  <1>4. KeepsRequests(c, d, S) BY <1>2 DEF KeepsRequests, Consumed
  <1>5. QED BY <1>3, <1>4 DEF Passes, d

LEMMA PendingPasses ==
  ASSUME NEW c, Backed(c), has_pending(c), NEW S
  PROVE  Passes(c, ack_irq(c, highest_pending(c)), S)
  <1>1. highest_pending(c) \in Deliverable(c) /\ highest_pending(c) \in Lines
    BY PendingIsLine DEF Backed
  <1>2. highest_pending(c) \notin c.isr BY <1>1 DEF Deliverable
  <1>3. QED BY <1>1, <1>2, AckPasses

(* ICW1 withdraws every request; no other command byte touches one. *)
LEMMA CommandPasses ==
  ASSUME NEW c, Backed(c), NEW v \in Bytes, NEW S
  PROVE  Passes(c, write_command(c, v), S)
  <1> DEFINE d == write_command(c, v)
  <1>1. c \in Chips /\ d \in Chips BY CommandType DEF Backed
  <1>2. CASE Bit(v, 4)
    <2>1. d = Icw1(c, v) BY <1>2 DEF write_command
    <2>2. d.irr = {} /\ d.init_state = "WaitingICW2" BY <1>1, <2>1 DEF Icw1, Chips
    <2>3. QED BY <1>1, <2>2 DEF Passes, Backed, KeepsRequests, Consumed
  <1>3. CASE ~Bit(v, 4) /\ Bit(v, 3)
    <2>1. d = Ocw3(c, v) BY <1>3 DEF write_command
    <2>2. d.irr = c.irr /\ d.irq_lines = c.irq_lines /\ d.level_triggered = c.level_triggered
      BY <1>1, <2>1 DEF Ocw3, Chips
    <2>3. QED BY <1>1, <2>2, SameHolds, HoldsPasses
  <1>4. CASE ~Bit(v, 4) /\ ~Bit(v, 3)
    <2>1. d = Ocw2(c, v) BY <1>4 DEF write_command
    <2> DEFINE Same(e) == /\ e.irr = c.irr /\ e.irq_lines = c.irq_lines
                          /\ e.level_triggered = c.level_triggered
                          /\ DOMAIN e = DOMAIN c
    <2>2. Same(c) /\ Same(non_specific_eoi(c)) BY <1>1 DEF non_specific_eoi, Chips
    <2>3. \A irq : Same(specific_eoi(c, irq)) BY <1>1 DEF specific_eoi, Chips
    <2>4. \A e, irq : Same(e) /\ "lowest_priority" \in DOMAIN e
                        => Same([e EXCEPT !.lowest_priority = irq])
      OBVIOUS
    <2>5. "lowest_priority" \in DOMAIN c BY <1>1 DEF Chips
    <2>6. \A b : Same([c EXCEPT !.rotate_in_auto_eoi = b]) BY <1>1 DEF Chips
    <2>7. Same(RotateOnEoi(c)) BY <2>2, <2>4, <2>5 DEF RotateOnEoi
    <2>8. \A irq : Same([specific_eoi(c, irq) EXCEPT !.lowest_priority = irq])
      BY <2>3, <2>4, <2>5
    <2>9. \A irq : Same([c EXCEPT !.lowest_priority = irq]) BY <2>2, <2>4, <2>5
    <2> HIDE DEF Same
    <2>10. Same(d) BY <2>1, <2>2, <2>3, <2>6, <2>7, <2>8, <2>9 DEF Ocw2
    <2>11. QED BY <1>1, <2>10, SameHolds, HoldsPasses DEF Same
  <1>5. QED BY <1>2, <1>3, <1>4

(* The data port touches no request. *)
LEMMA DataPasses ==
  ASSUME NEW c, Backed(c), NEW v \in Bytes, NEW S
  PROVE  Passes(c, write_data(c, v), S)
  <1> DEFINE d == write_data(c, v)
  <1>1. c \in Chips /\ d \in Chips BY DataPlain DEF Backed
  <1>2. d.irr = c.irr /\ d.irq_lines = c.irq_lines /\ d.level_triggered = c.level_triggered
    BY <1>1 DEF write_data, Chips
  <1>3. QED BY <1>1, <1>2, SameHolds, HoldsPasses

(* A poll read acknowledges as an INTA does. *)
LEMMA ReadPasses ==
  ASSUME NEW c, Backed(c), NEW S
  PROVE  Passes(c, read_command(c), S)
  <1> DEFINE p == [c EXCEPT !.poll_mode = FALSE]
  <1>1. /\ c \in Chips /\ p \in Chips /\ p.irr = c.irr /\ p.irq_lines = c.irq_lines
        /\ p.level_triggered = c.level_triggered /\ p.isr = c.isr
        /\ p.auto_eoi = c.auto_eoi
    BY Zenon DEF Backed, Chips
  <1>2. Backed(p) /\ Passes(c, p, S) BY <1>1, SameHolds, HoldsPasses, Zenon DEF Backed
  <1>3. CASE c.poll_mode /\ has_pending(c)
    <2>1. read_command(c) = ack_irq(p, highest_pending(c)) BY <1>3 DEF read_command
    <2>2. highest_pending(c) \in Lines /\ highest_pending(c) \notin p.isr
      BY <1>1, <1>3, PendingIsLine DEF Deliverable
    <2> HIDE DEF p
    <2>3. Passes(p, read_command(c), S) BY <1>2, <2>1, <2>2, AckPasses
    <2>4. QED BY <1>1, <2>3 DEF Passes, KeepsRequests, Consumed
  <1>4. CASE ~(c.poll_mode /\ has_pending(c))
    <2>1. read_command(c) = p BY <1>4 DEF read_command
    <2>2. QED BY <1>2, <2>1
  <1>5. QED BY <1>3, <1>4

(* Every step of the pair: the master keeps the requests of the lines that *)
(* neither the cascade nor an explicit acknowledge drives, the slave all   *)
(* of its requests.                                                        *)
Own == Lines \ ({Cascade} \cup ExplicitAcks)

LEMMA SlaveBecomesPasses ==
  ASSUME NEW m, Backed(m), Holds(master, m, Own), NEW s, Passes(slave, s, Lines),
         SlaveBecomes(m, s)
  PROVE  Passes(master, master', Own) /\ Passes(slave, slave', Lines)
  <1>1. Holds(m, master', Own) BY RefreshHolds DEF SlaveBecomes, Own, Holds
  <1>2. Holds(master, master', Own) BY <1>1, HoldsTransitive
  <1>3. QED BY <1>2, HoldsPasses DEF SlaveBecomes

LEMMA StepPasses ==
  ASSUME Backed(master), Backed(slave), [Next]_vars
  PROVE  Passes(master, master', Own) /\ Passes(slave, slave', Lines)
  <1>1. master \in Chips /\ slave \in Chips BY DEF Backed
  <1>2. /\ Holds(master, master, Own) /\ Passes(master, master, Own)
        /\ Passes(slave, slave, Lines)
    BY <1>1, SameHolds, HoldsPasses
  <1>3. CASE DeviceStep
    <2>1. PICK irq \in DeviceIrqs :
            PulseIrq(irq) \/ \E level \in BOOLEAN : SetIrq(irq, level)
      BY <1>3 DEF DeviceStep
    <2>2. irq \in Int /\ (irq < 8 => irq \in Lines) /\ (irq >= 8 => irq - 8 \in Lines)
      BY DualPicAssumption DEF Lines
    <2>3. \A c, d : Holds(c, d, Lines) => Holds(c, d, Own) BY DEF Holds, Own
    <2>4. ASSUME NEW level \in BOOLEAN, SetIrq(irq, level)
          PROVE  Passes(master, master', Own) /\ Passes(slave, slave', Lines)
      <3>1. CASE irq < 8 /\ master' = set_irq(master, irq, level) /\ slave' = slave
        BY <3>1, <1>2, <2>2, <2>3, SetIrqHolds, HoldsPasses
      <3>2. CASE irq >= 8 /\ SlaveBecomes(master, set_irq(slave, irq - 8, level))
        <4>1. Passes(slave, set_irq(slave, irq - 8, level), Lines)
          BY <3>2, <2>2, SetIrqHolds, HoldsPasses
        <4>2. QED BY <3>2, <4>1, <1>2, SlaveBecomesPasses
      <3>3. QED BY <2>4, <3>1, <3>2 DEF SetIrq
    <2>5. CASE PulseIrq(irq)
      <3>1. CASE /\ irq < 8 /\ slave' = slave
                 /\ master' = set_irq(set_irq(master, irq, TRUE), irq, FALSE)
        <4>1. Holds(master, set_irq(master, irq, TRUE), Lines) BY <3>1, <2>2, SetIrqHolds, Zenon
        <4>2. Holds(set_irq(master, irq, TRUE), master', Lines)
          BY <3>1, <4>1, <2>2, SetIrqHolds, Zenon DEF Holds
        <4>3. Holds(master, master', Own) BY <4>1, <4>2, <2>3, HoldsTransitive, Zenon
        <4>4. QED BY <3>1, <4>3, <1>2, HoldsPasses, Zenon
      <3>2. CASE /\ irq >= 8
                 /\ SlaveBecomes(refresh_cascade(master, set_irq(slave, irq - 8, TRUE)),
                                 set_irq(set_irq(slave, irq - 8, TRUE), irq - 8, FALSE))
        <4> DEFINE raised == set_irq(slave, irq - 8, TRUE)
                   s == set_irq(raised, irq - 8, FALSE)
                   m == refresh_cascade(master, raised)
        <4>1. Holds(slave, raised, Lines) BY <3>2, <2>2, SetIrqHolds, Zenon
        <4>2. Holds(raised, s, Lines) BY <3>2, <4>1, <2>2, SetIrqHolds, Zenon DEF Holds
        <4>3. Passes(slave, s, Lines) BY <4>1, <4>2, HoldsTransitive, HoldsPasses, Zenon
        <4>4. Holds(master, m, Own) /\ Backed(m) BY RefreshHolds, Zenon DEF Own, Holds
        <4>5. SlaveBecomes(m, s) BY <3>2, Zenon
        <4> HIDE DEF raised, s, m
        <4>6. QED BY <4>3, <4>4, <4>5, SlaveBecomesPasses
      <3>3. QED BY <2>5, <3>1, <3>2, Zenon DEF PulseIrq
    <2>6. QED BY <2>1, <2>4, <2>5
  <1>4. CASE CpuStep
    <2>1. Passes(slave, SlaveAcked, Lines) BY <1>2, PendingPasses DEF SlaveAcked
    <2>2. CASE get_pending_vector
      BY <1>2, <2>1, <2>2, PendingPasses DEF get_pending_vector
    <2>3. ASSUME NEW irq \in ExplicitAcks, acknowledge(irq)
          PROVE  Passes(master, master', Own) /\ Passes(slave, slave', Lines)
      <3>1. /\ irq \in Lines /\ Cascade \in Lines
            /\ irq \notin Own /\ Cascade \notin Own
        BY DualPicAssumption DEF Cascade, Lines, Own
      <3>2. /\ Passes(master, ack_irq(master, Cascade), Own)
            /\ Passes(master, ack_irq(master, irq), Own)
        BY <3>1, AckPasses
      <3>3. QED BY <2>3, <1>2, <2>1, <3>1, <3>2 DEF acknowledge, vars
    <2>4. QED BY <1>4, <2>2, <2>3 DEF CpuStep
  <1>5. CASE GuestStep
    <2>0. /\ MasterCommands \subseteq Bytes /\ MasterData \subseteq Bytes
          /\ SlaveCommands \subseteq Bytes /\ SlaveData \subseteq Bytes
      BY DualPicAssumption
    <2>1. ASSUME NEW v \in MasterCommands, MasterWriteCommand(v)
          PROVE  Passes(master, master', Own) /\ Passes(slave, slave', Lines)
      BY <2>0, <2>1, <1>2, CommandPasses DEF MasterWriteCommand
    <2>2. ASSUME NEW v \in MasterData, MasterWriteData(v)
          PROVE  Passes(master, master', Own) /\ Passes(slave, slave', Lines)
      BY <2>0, <2>2, <1>2, DataPasses DEF MasterWriteData
    <2>3. ASSUME NEW v \in SlaveCommands, SlaveWriteCommand(v)
          PROVE  Passes(master, master', Own) /\ Passes(slave, slave', Lines)
      BY <2>0, <2>3, <1>2, CommandPasses, SlaveBecomesPasses DEF SlaveWriteCommand
    <2>4. ASSUME NEW v \in SlaveData, SlaveWriteData(v)
          PROVE  Passes(master, master', Own) /\ Passes(slave, slave', Lines)
      BY <2>0, <2>4, <1>2, DataPasses, SlaveBecomesPasses DEF SlaveWriteData
    <2>5. CASE MasterReadCommand BY <2>5, <1>2, ReadPasses DEF MasterReadCommand
    <2>6. CASE SlaveReadCommand BY <2>6, <1>2, ReadPasses DEF SlaveReadCommand
    <2>7. QED BY <1>5, <2>1, <2>2, <2>3, <2>4, <2>5, <2>6 DEF GuestStep
  <1>6. CASE UNCHANGED vars BY <1>6, <1>2 DEF vars
  <1>7. QED BY <1>3, <1>4, <1>5, <1>6 DEF Next

LEMMA BackedAlways == Spec => [](Backed(master) /\ Backed(slave))
  <1>1. Init => Backed(master) /\ Backed(slave)
    <2>1. Init => TypeOK BY DEF Init, TypeOK, NewChip, Chips, Lines, Bytes, InitStates
    <2>2. Init => ~master.level_triggered /\ ~slave.level_triggered BY DEF Init, NewChip
    <2>3. QED BY <2>1, <2>2 DEF TypeOK, Backed
  <1>2. Backed(master) /\ Backed(slave) /\ [Next]_vars => (Backed(master) /\ Backed(slave))'
    BY StepPasses DEF Passes
  <1>3. QED BY <1>1, <1>2, PTL DEF Spec

(* A level request never outlives its line, on either chip: for every set  *)
(* of device lines, command bytes and explicit acknowledges, a chip in     *)
(* level mode requests only what its lines assert (set_irq, Icw1, ack_irq, *)
(* refresh_cascade).                                                       *)
THEOREM LevelRequestsTheorem == Spec => []LevelRequestsAreBacked
  <1>1. Backed(master) /\ Backed(slave) => LevelRequestsAreBacked
    BY DEF Backed, LevelRequestsAreBacked
  <1>2. QED BY <1>1, BackedAlways, PTL

(* For every set of device lines and command bytes: an edge request is     *)
(* consumed only by an acknowledge or ICW1 (set_irq, refresh_cascade).     *)
(* acknowledge, which only unit tests call, may name the cascade line.     *)
THEOREM RequestsTheorem ==
  ASSUME ExplicitAcks \subseteq {Cascade}
  PROVE  Spec => RequestsAreKept
  <1> DEFINE Inv == Backed(master) /\ Backed(slave)
             Kept == /\ KeepsRequests(master, master', Lines \ {Cascade})
                     /\ KeepsRequests(slave, slave', Lines)
  <1>1. Inv /\ [Next]_vars => Kept
    <2>1. Lines \ {Cascade} = Own BY DEF Own
    <2>2. QED BY <2>1, StepPasses DEF Passes
  <1> HIDE DEF Kept
  <1>2. Spec => [][Kept]_vars BY <1>1, BackedAlways, PTL DEF Spec
  <1>3. QED BY <1>2 DEF RequestsAreKept, Kept
=============================================================================
