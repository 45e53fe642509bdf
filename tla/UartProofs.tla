------------------------------ MODULE UartProofs ------------------------------
(***************************************************************************)
(* Facts about the operations of the 16550, for every FIFO size: they keep *)
(* the device's type, and what pump_input and queue_input, which work      *)
(* through a sequence of bytes, leave in the receive path.  SerialProofs   *)
(* and VmLoopProofs build on them.                                         *)
(***************************************************************************)
EXTENDS Serial16550, WellFoundedInduction, TLAPS

-----------------------------------------------------------------------------
(* Induction over an initial segment of the naturals.  The library states  *)
(* it for an operator, this for the set of the indices that satisfy it.    *)

LEMMA IndexInduction ==
  ASSUME NEW n \in Nat, NEW Q, 0 \in Q, \A k \in 1..n : k - 1 \in Q => k \in Q
  PROVE  \A k \in 0..n : k \in Q
  <1> SUFFICES ASSUME NEW j \in 0..n, j \notin Q PROVE FALSE OBVIOUS
  <1> DEFINE T == {k \in 0..n : k \notin Q}
             R == OpToRel(<, Nat)
  <1>1. T \subseteq Nat /\ T # {} OBVIOUS
  <1>2. IsWellFoundedOn(R, Nat) BY NatLessThanWellFounded
  <1> HIDE DEF R
  <1>3. PICK m \in T : \A k \in T : ~(<<k, m>> \in R) BY <1>1, <1>2, WFMin, Zenon
  <1>4. \A k \in T : ~(k < m) BY <1>1, <1>3, Zenon DEF R, OpToRel
  <1>5. m # 0 BY <1>3
  <1>6. m - 1 \in 0..n /\ m \in 1..n /\ m - 1 < m BY <1>3, <1>5
  <1>7. m - 1 \in Q BY <1>4, <1>6
  <1>8. QED BY <1>3, <1>6, <1>7

(* Sequences and their parts. *)
LEMMA SeqAppends ==
  ASSUME NEW S, NEW s \in Seq(S), NEW e \in S
  PROVE  Append(s, e) = s \o <<e>>
  OBVIOUS

LEMMA SeqUpTo ==
  ASSUME NEW S, NEW s \in Seq(S), NEW k \in 1..Len(s)
  PROVE  SubSeq(s, 1, k) = SubSeq(s, 1, k - 1) \o <<s[k]>>
  OBVIOUS

LEMMA SeqWhole ==
  ASSUME NEW S, NEW s \in Seq(S)
  PROVE  SubSeq(s, 1, Len(s)) = s
  OBVIOUS

LEMMA SeqEqual ==
  ASSUME NEW S, NEW s \in Seq(S), NEW t \in Seq(S), Len(s) = Len(t),
         \A k \in 1..Len(s) : s[k] = t[k]
  PROVE  s = t
  OBVIOUS

LEMMA SeqHalves ==
  ASSUME NEW S, NEW s \in Seq(S), NEW k \in 0..Len(s)
  PROVE  SubSeq(s, 1, k) \o SubSeq(s, k + 1, Len(s)) = s
  <1>1. PICK a \in Seq(S) : a = SubSeq(s, 1, k)
    <2>1. SubSeq(s, 1, k) \in Seq(S) OBVIOUS
    <2>2. QED BY <2>1, Zenon
  <1>2. PICK z \in Seq(S) : z = SubSeq(s, k + 1, Len(s))
    <2>1. SubSeq(s, k + 1, Len(s)) \in Seq(S) OBVIOUS
    <2>2. QED BY <2>1, Zenon
  <1>3. Len(a) = k /\ \A j \in 1..k : a[j] = s[j] BY <1>1
  <1>4. Len(z) = Len(s) - k /\ \A j \in 1..Len(s) - k : z[j] = s[k + j] BY <1>2
  <1>5. a \o z = s
    <2>1. Len(a) \in Nat /\ Len(z) \in Nat /\ k \in Nat /\ Len(s) \in Nat OBVIOUS
    <2>2. Len(a \o z) = Len(s)
      <3>1. Len(a \o z) = Len(a) + Len(z) OBVIOUS
      <3>2. Len(a) = k /\ Len(z) = Len(s) - k BY <1>3, <1>4
      <3>3. QED BY <2>1, <3>1, <3>2
    <2>3. ASSUME NEW j \in 1..Len(s) PROVE (a \o z)[j] = s[j]
      <3>1. CASE j <= k BY <1>3, <2>1, <3>1
      <3>2. CASE ~(j <= k)
        <4>1. j - k \in 1..Len(s) - k /\ k + (j - k) = j BY <2>1, <3>2
        <4>2. z[j - k] = s[j] BY <1>4, <4>1
        <4>3. (a \o z)[j] = z[j - k] BY <1>3, <1>4, <2>1, <3>2, <4>1
        <4>4. QED BY <4>2, <4>3
      <3>3. QED BY <3>1, <3>2, Zenon
    <2>4. PICK y \in Seq(S) : y = a \o z
      <3>1. a \o z \in Seq(S) OBVIOUS
      <3>2. QED BY <3>1, Zenon
    <2>5. Len(y) = Len(s) /\ \A j \in 1..Len(y) : y[j] = s[j] BY <2>2, <2>3, <2>4
    <2>6. y = s BY <2>5, SeqEqual
    <2>7. QED BY <2>4, <2>6
  <1>6. QED BY <1>1, <1>2, <1>5, Zenon

(* A recursion over the indices of s, with a function for the operator,    *)
(* has a solution: the states it passes through.                           *)
Steps(h, n, S, F, u, s) ==
  /\ h \in [0..n -> S] /\ h[0] = u
  /\ \A k \in 1..n : h[k] = F[<<h[k - 1], s[k]>>]

LEMMA FoldExists ==
  ASSUME NEW S, NEW B, NEW F \in [S \X B -> S], NEW u \in S,
         NEW n \in Nat, NEW s, \A i \in 1..n : s[i] \in B
  PROVE  \E h : Steps(h, n, S, F, u, s)
  <1> DEFINE Q == {k \in 0..n : \E h : Steps(h, k, S, F, u, s)}
  <1>1. 0 \in Q
    <2> DEFINE h == [k \in 0..0 |-> u]
    <2>1. Steps(h, 0, S, F, u, s) BY DEF Steps
    <2>2. QED BY <2>1
  <1>2. ASSUME NEW k \in 1..n, k - 1 \in Q PROVE k \in Q
    <2>1. PICK g : Steps(g, k - 1, S, F, u, s) BY <1>2
    <2>2. /\ g \in [0..k - 1 -> S] /\ g[0] = u
          /\ \A i \in 1..k - 1 : g[i] = F[<<g[i - 1], s[i]>>]
      BY <2>1 DEF Steps
    <2>3. PICK e \in S : e = F[<<g[k - 1], s[k]>>]
      <3>1. k - 1 \in 0..k - 1 OBVIOUS
      <3>2. g[k - 1] \in S /\ s[k] \in B BY <2>2, <3>1
      <3>3. F[<<g[k - 1], s[k]>>] \in S BY <3>2
      <3>4. QED BY <3>3
    <2>4. PICK h : h = [i \in 0..k |-> IF i = k THEN e ELSE g[i]] BY Zenon
    <2>5. \A i \in 0..k : i # k => i \in 0..k - 1 OBVIOUS
    <2>6. h \in [0..k -> S] BY <2>2, <2>4, <2>5
    <2>7. h[0] = u BY <2>2, <2>4
    <2>8. ASSUME NEW i \in 1..k PROVE h[i] = F[<<h[i - 1], s[i]>>]
      <3>1. i - 1 \in 0..k /\ i \in 0..k /\ i - 1 # k OBVIOUS
      <3>2. h[i - 1] = g[i - 1] BY <2>4, <3>1
      <3>3. CASE i = k BY <2>3, <2>4, <3>1, <3>2, <3>3
      <3>4. CASE i # k
        <4>1. i \in 1..k - 1 BY <3>4
        <4>2. QED BY <2>2, <2>4, <3>1, <3>2, <3>4, <4>1
      <3>5. QED BY <3>3, <3>4
    <2>9. Steps(h, k, S, F, u, s) BY <2>6, <2>7, <2>8 DEF Steps
    <2>10. k \in 0..n OBVIOUS
    <2>11. QED BY <2>9, <2>10
  <1> HIDE DEF Q
  <1>3. n \in Q
    <2>1. n \in 0..n OBVIOUS
    <2>2. QED BY <1>1, <1>2, <2>1, IndexInduction
  <1>4. QED BY <1>3 DEF Q

(* So a fold goes byte by byte, through states of any set S the operator   *)
(* does not leave.  One lemma for each operator that is folded.            *)
ReceivesAll(h, S, u, s) ==
  /\ h \in [0..Len(s) -> S] /\ h[0] = u /\ FoldLeft(receive_byte, u, s) = h[Len(s)]
  /\ \A k \in 1..Len(s) : h[k] = receive_byte(h[k - 1], s[k])

LEMMA ReceiveFold ==
  ASSUME NEW S, NEW u \in S, NEW s \in Seq(CharClass),
         \A x \in S, b \in CharClass : receive_byte(x, b) \in S
  PROVE  \E h : ReceivesAll(h, S, u, s)
  <1> DEFINE n == Len(s)
             R(f) == f = [i \in 0..n |-> IF i = 0 THEN u ELSE receive_byte(f[i - 1], s[i])]
  <1>1. n \in Nat /\ \A i \in 1..n : s[i] \in CharClass OBVIOUS
  <1>2. PICK F \in [S \X CharClass -> S] : \A x \in S, b \in CharClass : F[<<x, b>>] = receive_byte(x, b)
    <2> DEFINE G == [p \in S \X CharClass |-> receive_byte(p[1], p[2])]
    <2>1. G \in [S \X CharClass -> S] /\ \A x \in S, b \in CharClass : G[<<x, b>>] = receive_byte(x, b)
      OBVIOUS
    <2> HIDE DEF G
    <2>2. QED BY <2>1
  <1>3. FoldLeft(receive_byte, u, s) = (CHOOSE f : R(f))[n] BY Zenon DEF FoldLeft
  <1> HIDE DEF n
  <1>4. PICK h : Steps(h, n, S, F, u, s) BY <1>1, <1>2, FoldExists, Zenon
  <1>5. /\ h \in [0..n -> S] /\ h[0] = u
        /\ \A k \in 1..n : k - 1 \in 0..n /\ k # 0 /\ h[k] = receive_byte(h[k - 1], s[k])
    <2>1. \A k \in 1..n : k - 1 \in 0..n /\ k # 0 BY <1>1
    <2>2. h \in [0..n -> S] /\ h[0] = u BY <1>4 DEF Steps
    <2>3. ASSUME NEW k \in 1..n PROVE h[k] = receive_byte(h[k - 1], s[k])
      <3>1. h[k - 1] \in S /\ s[k] \in CharClass BY <1>1, <2>1, <2>2
      <3>2. h[k] = F[<<h[k - 1], s[k]>>] BY <1>4 DEF Steps
      <3>3. QED BY <1>2, <3>1, <3>2
    <2>4. QED BY <2>1, <2>2, <2>3
  <1>6. R(h)
    <2>1. \A i \in 0..n : i = 0 \/ i \in 1..n BY <1>1
    <2>2. QED BY <1>5, <2>1
  <1>7. PICK f : R(f) /\ FoldLeft(receive_byte, u, s) = f[n]
    <2>1. R(CHOOSE f : R(f))
      <3> HIDE DEF R
      <3>1. QED BY <1>6
    <2>2. QED BY <1>3, <2>1, Zenon
  <1> DEFINE Q == {k \in 0..n : f[k] = h[k]}
  <1>8. 0 \in Q BY <1>1, <1>5, <1>7
  <1>9. ASSUME NEW k \in 1..n, k - 1 \in Q PROVE k \in Q
    <2>1. k \in 0..n /\ k # 0 BY <1>1
    <2>2. f[k] = receive_byte(f[k - 1], s[k]) BY <1>7, <2>1, Zenon
    <2>3. f[k - 1] = h[k - 1] BY <1>9
    <2>4. QED BY <1>5, <2>1, <2>2, <2>3
  <1> HIDE DEF Q
  <1>10. n \in Q
    <2>1. n \in 0..n BY <1>1
    <2>2. QED BY <1>1, <1>8, <1>9, <2>1, IndexInduction, Zenon
  <1>11. FoldLeft(receive_byte, u, s) = h[n] BY <1>7, <1>10 DEF Q
  <1>12. QED BY <1>5, <1>11 DEF n, ReceivesAll

StagesAll(h, S, u, s) ==
  /\ h \in [0..Len(s) -> S] /\ h[0] = u /\ FoldLeft(StageByte, u, s) = h[Len(s)]
  /\ \A k \in 1..Len(s) : h[k] = StageByte(h[k - 1], s[k])

LEMMA StageFold ==
  ASSUME NEW S, NEW u \in S, NEW s \in Seq(CharClass),
         \A x \in S, b \in CharClass : StageByte(x, b) \in S
  PROVE  \E h : StagesAll(h, S, u, s)
  <1> DEFINE n == Len(s)
             R(f) == f = [i \in 0..n |-> IF i = 0 THEN u ELSE StageByte(f[i - 1], s[i])]
  <1>1. n \in Nat /\ \A i \in 1..n : s[i] \in CharClass OBVIOUS
  <1>2. PICK F \in [S \X CharClass -> S] : \A x \in S, b \in CharClass : F[<<x, b>>] = StageByte(x, b)
    <2> DEFINE G == [p \in S \X CharClass |-> StageByte(p[1], p[2])]
    <2>1. G \in [S \X CharClass -> S] /\ \A x \in S, b \in CharClass : G[<<x, b>>] = StageByte(x, b)
      OBVIOUS
    <2> HIDE DEF G
    <2>2. QED BY <2>1
  <1>3. FoldLeft(StageByte, u, s) = (CHOOSE f : R(f))[n] BY Zenon DEF FoldLeft
  <1> HIDE DEF n
  <1>4. PICK h : Steps(h, n, S, F, u, s) BY <1>1, <1>2, FoldExists, Zenon
  <1>5. /\ h \in [0..n -> S] /\ h[0] = u
        /\ \A k \in 1..n : k - 1 \in 0..n /\ k # 0 /\ h[k] = StageByte(h[k - 1], s[k])
    <2>1. \A k \in 1..n : k - 1 \in 0..n /\ k # 0 BY <1>1
    <2>2. h \in [0..n -> S] /\ h[0] = u BY <1>4 DEF Steps
    <2>3. ASSUME NEW k \in 1..n PROVE h[k] = StageByte(h[k - 1], s[k])
      <3>1. h[k - 1] \in S /\ s[k] \in CharClass BY <1>1, <2>1, <2>2
      <3>2. h[k] = F[<<h[k - 1], s[k]>>] BY <1>4 DEF Steps
      <3>3. QED BY <1>2, <3>1, <3>2
    <2>4. QED BY <2>1, <2>2, <2>3
  <1>6. R(h)
    <2>1. \A i \in 0..n : i = 0 \/ i \in 1..n BY <1>1
    <2>2. QED BY <1>5, <2>1
  <1>7. PICK f : R(f) /\ FoldLeft(StageByte, u, s) = f[n]
    <2>1. R(CHOOSE f : R(f))
      <3> HIDE DEF R
      <3>1. QED BY <1>6
    <2>2. QED BY <1>3, <2>1, Zenon
  <1> DEFINE Q == {k \in 0..n : f[k] = h[k]}
  <1>8. 0 \in Q BY <1>1, <1>5, <1>7
  <1>9. ASSUME NEW k \in 1..n, k - 1 \in Q PROVE k \in Q
    <2>1. k \in 0..n /\ k # 0 BY <1>1
    <2>2. f[k] = StageByte(f[k - 1], s[k]) BY <1>7, <2>1, Zenon
    <2>3. f[k - 1] = h[k - 1] BY <1>9
    <2>4. QED BY <1>5, <2>1, <2>2, <2>3
  <1> HIDE DEF Q
  <1>10. n \in Q
    <2>1. n \in 0..n BY <1>1
    <2>2. QED BY <1>1, <1>8, <1>9, <2>1, IndexInduction, Zenon
  <1>11. FoldLeft(StageByte, u, s) = h[n] BY <1>7, <1>10 DEF Q
  <1>12. QED BY <1>5, <1>11 DEF n, StagesAll

-----------------------------------------------------------------------------
(* The receive path. *)

Fits(u) == Len(u.rx_fifo) <= IF u.fifo_enabled THEN FIFO_SIZE ELSE 1

(* Receiving and metering touch the FIFO, the overrun flag and the staged  *)
(* bytes only.                                                             *)
SameModes(u, w) ==
  /\ w.ier = u.ier /\ w.dlab = u.dlab /\ w.mcr = u.mcr
  /\ w.fifo_enabled = u.fifo_enabled /\ w.rx_trigger = u.rx_trigger
  /\ w.msr = u.msr /\ w.msr_delta = u.msr_delta /\ w.thre_interrupt = u.thre_interrupt
  /\ w.cpr_state = u.cpr_state /\ w.cpq_buffer = u.cpq_buffer

(* A record of the device's type has the fields of that type, and one that *)
(* differs in a few fields is of that type if these are.                   *)
LEMMA UartFields ==
  ASSUME NEW u \in Uarts
  PROVE  /\ u.ier \subseteq IerBits /\ u.dlab \in BOOLEAN /\ u.mcr \subseteq McrBits
         /\ u.fifo_enabled \in BOOLEAN /\ u.rx_fifo \in Seq(CharClass)
         /\ u.rx_trigger \in 1..FIFO_SIZE /\ u.overrun_error \in BOOLEAN
         /\ u.msr \subseteq MsrBits /\ u.msr_delta \subseteq MsrBits
         /\ u.thre_interrupt \in BOOLEAN /\ u.input_buffer \in Seq(CharClass)
         /\ u.cpr_state \in CprFilterState /\ u.cpq_buffer \in CpqPrefixes
  BY DEF Uarts

LEMMA ReceiveFacts ==
  ASSUME NEW u \in Uarts, NEW b \in CharClass, NEW w, w = receive_byte(u, b)
  PROVE  /\ w \in Uarts /\ SameModes(u, w) /\ w.input_buffer = u.input_buffer
         /\ Fits(u) => Fits(w)
         /\ u.fifo_enabled /\ Len(u.rx_fifo) < FIFO_SIZE => w.rx_fifo = Append(u.rx_fifo, b)
         /\ ~u.fifo_enabled => w.rx_fifo = <<b>>
  <1>1. /\ u.rx_fifo \in Seq(CharClass) /\ u.overrun_error \in BOOLEAN
        /\ u.fifo_enabled \in BOOLEAN /\ FIFO_SIZE \in Nat
    BY UartFields, SerialAssumption
  <1>2. CASE u.fifo_enabled /\ Len(u.rx_fifo) >= FIFO_SIZE
    <2>1. w = [u EXCEPT !.overrun_error = TRUE] BY <1>2 DEF receive_byte
    <2>2. /\ w \in Uarts /\ SameModes(u, w) /\ w.input_buffer = u.input_buffer
          /\ w.rx_fifo = u.rx_fifo
      BY <2>1, Zenon DEF Uarts, SameModes
    <2>3. QED BY <1>1, <1>2, <2>2 DEF Fits, SameModes
  <1>3. CASE u.fifo_enabled /\ Len(u.rx_fifo) < FIFO_SIZE
    <2>1. PICK rx \in Seq(CharClass) : rx = Append(u.rx_fifo, b)
      <3>1. Append(u.rx_fifo, b) \in Seq(CharClass) BY <1>1
      <3>2. QED BY <3>1, Zenon
    <2>2. w = [u EXCEPT !.rx_fifo = rx] BY <1>1, <1>3, <2>1 DEF receive_byte
    <2>3. /\ w \in Uarts /\ SameModes(u, w) /\ w.input_buffer = u.input_buffer
          /\ w.rx_fifo = rx
      BY <2>2, Zenon DEF Uarts, SameModes
    <2>4. Len(w.rx_fifo) = Len(u.rx_fifo) + 1 BY <1>1, <2>1, <2>3
    <2>5. Fits(w) BY <1>1, <1>3, <2>3, <2>4 DEF Fits, SameModes
    <2>6. QED BY <1>3, <2>1, <2>3, <2>5
  <1>4. CASE ~u.fifo_enabled
    <2>1. PICK rx \in Seq(CharClass) : rx = <<b>>
      <3>1. <<b>> \in Seq(CharClass) OBVIOUS
      <3>2. QED BY <3>1, Zenon
    <2>2. PICK o \in BOOLEAN : o = (u.overrun_error \/ u.rx_fifo # <<>>) BY Zenon
    <2>3. w = [u EXCEPT !.overrun_error = o, !.rx_fifo = rx]
      BY <1>4, <2>1, <2>2 DEF receive_byte
    <2>4. /\ w \in Uarts /\ SameModes(u, w) /\ w.input_buffer = u.input_buffer
          /\ w.rx_fifo = rx
      BY <2>3, Zenon DEF Uarts, SameModes
    <2>5. Fits(w) BY <1>4, <2>1, <2>4 DEF Fits, SameModes
    <2>6. QED BY <1>4, <2>1, <2>4, <2>5
  <1>5. QED BY <1>1, <1>2, <1>3, <1>4

(* Sequences: one byte moved from the front of q to the end of a. *)
LEMMA MoveOne ==
  ASSUME NEW A, NEW a \in Seq(A), NEW q \in Seq(A), NEW k \in 1..Len(q)
  PROVE  Append(a \o SubSeq(q, 1, k - 1), q[k]) = a \o SubSeq(q, 1, k)
  <1>1. PICK p \in Seq(A) : p = SubSeq(q, 1, k - 1)
    <2>1. SubSeq(q, 1, k - 1) \in Seq(A) OBVIOUS
    <2>2. QED BY <2>1, Zenon
  <1>2. PICK e \in Seq(A) : e = <<q[k]>>
    <2>1. <<q[k]>> \in Seq(A) OBVIOUS
    <2>2. QED BY <2>1, Zenon
  <1>3. SubSeq(q, 1, k) = p \o e BY <1>1, <1>2, SeqUpTo
  <1>4. a \o p \in Seq(A) /\ q[k] \in A OBVIOUS
  <1>5. Append(a \o p, q[k]) = (a \o p) \o e BY <1>2, <1>4, SeqAppends, Zenon
  <1>6. (a \o p) \o e = a \o (p \o e) OBVIOUS
  <1>7. QED BY <1>1, <1>3, <1>5, <1>6, Zenon

LEMMA CountFacts ==
  ASSUME NEW u \in Uarts, Fits(u), NEW n, n = PumpCount(u)
  PROVE  /\ n \in 0..Len(u.input_buffer)
         /\ u.fifo_enabled => /\ n <= FIFO_SIZE - Len(u.rx_fifo)
                              /\ n < Len(u.input_buffer) => n = FIFO_SIZE - Len(u.rx_fifo)
         /\ ~u.fifo_enabled => n = Len(u.input_buffer)
  <1>1. /\ u.rx_fifo \in Seq(CharClass) /\ u.input_buffer \in Seq(CharClass)
        /\ u.fifo_enabled \in BOOLEAN /\ FIFO_SIZE \in Nat
    BY UartFields, SerialAssumption
  <1>2. Len(u.rx_fifo) \in Nat /\ Len(u.input_buffer) \in Nat BY <1>1
  <1>3. CASE u.fifo_enabled
    <2>1. Len(u.rx_fifo) <= FIFO_SIZE BY <1>3 DEF Fits
    <2>2. n = IF Len(u.input_buffer) < FIFO_SIZE - Len(u.rx_fifo)
              THEN Len(u.input_buffer) ELSE FIFO_SIZE - Len(u.rx_fifo)
      BY <1>3 DEF PumpCount
    <2>3. PICK a \in Nat : a = Len(u.rx_fifo) BY <1>2
    <2>4. PICK b \in Nat : b = Len(u.input_buffer) BY <1>2
    <2>5. FIFO_SIZE \in Nat /\ a <= FIFO_SIZE BY <1>1, <2>1, <2>3
    <2>6. n = IF b < FIFO_SIZE - a THEN b ELSE FIFO_SIZE - a BY <2>2, <2>3, <2>4
    <2>7. n \in 0..b /\ n <= FIFO_SIZE - a /\ (n < b => n = FIFO_SIZE - a)
      BY <2>5, <2>6
    <2>8. QED BY <1>3, <2>3, <2>4, <2>7
  <1>4. CASE ~u.fifo_enabled BY <1>2, <1>4 DEF PumpCount
  <1>5. QED BY <1>1, <1>3, <1>4

(* pump_input loses nothing while the FIFO is on, and stops only when it is *)
(* full; with the FIFO off only the last staged byte is left.               *)
LEMMA PumpFacts ==
  ASSUME NEW u \in Uarts, Fits(u), NEW w, w = pump_input(u)
  PROVE  /\ w \in Uarts /\ SameModes(u, w) /\ Fits(w)
         /\ u.fifo_enabled =>
              /\ w.rx_fifo \o w.input_buffer = u.rx_fifo \o u.input_buffer
              /\ w.input_buffer # <<>> => Len(w.rx_fifo) = FIFO_SIZE
         /\ ~u.fifo_enabled =>
              /\ w.input_buffer = <<>>
              /\ w.rx_fifo = IF u.input_buffer = <<>> THEN u.rx_fifo
                             ELSE <<u.input_buffer[Len(u.input_buffer)]>>
  <1>1. PICK ib \in Seq(CharClass) : ib = u.input_buffer BY UartFields
  <1>2. PICK rx \in Seq(CharClass) : rx = u.rx_fifo BY UartFields
  <1>3. PICK n : n = PumpCount(u) OBVIOUS
  <1>4. /\ n \in 0..Len(ib)
        /\ u.fifo_enabled => /\ n <= FIFO_SIZE - Len(rx)
                             /\ n < Len(ib) => n = FIFO_SIZE - Len(rx)
        /\ ~u.fifo_enabled => n = Len(ib)
    BY <1>1, <1>2, <1>3, CountFacts
  <1>5. PICK s \in Seq(CharClass) : s = SubSeq(ib, 1, n)
    <2>1. SubSeq(ib, 1, n) \in Seq(CharClass) BY <1>4
    <2>2. QED BY <2>1, Zenon
  <1>6. Len(s) = n /\ \A k \in 1..n : s[k] = ib[k] BY <1>4, <1>5
  <1> DEFINE S == {x \in Uarts : SameModes(u, x) /\ x.input_buffer = ib /\ Fits(x)}
  <1>7. u \in S BY <1>1 DEF SameModes
  <1>8. ASSUME NEW x \in S, NEW b \in CharClass PROVE receive_byte(x, b) \in S
    <2>1. /\ receive_byte(x, b) \in Uarts /\ SameModes(x, receive_byte(x, b))
          /\ receive_byte(x, b).input_buffer = ib /\ Fits(receive_byte(x, b))
      BY ReceiveFacts
    <2>2. SameModes(u, receive_byte(x, b)) BY <2>1 DEF SameModes
    <2>3. QED BY <2>1, <2>2
  <1> HIDE DEF S
  <1>9. PICK h \in [0..n -> S] :
          /\ h[0] = u /\ FoldLeft(receive_byte, u, s) = h[n]
          /\ \A k \in 1..n : h[k] = receive_byte(h[k - 1], s[k])
    <2>1. \A x \in S, b \in CharClass : receive_byte(x, b) \in S BY <1>8
    <2>2. PICK h : ReceivesAll(h, S, u, s) BY <1>7, <2>1, ReceiveFold
    <2>3. QED BY <1>6, <2>2, Zenon DEF ReceivesAll
  <1>10. PICK rest \in Seq(CharClass) : rest = SubSeq(ib, n + 1, Len(ib))
    <2>1. SubSeq(ib, n + 1, Len(ib)) \in Seq(CharClass) BY <1>4
    <2>2. QED BY <2>1, Zenon
  <1>11. PICK v \in S : v = h[n] BY <1>4, <1>9
  <1>12. v \in Uarts /\ SameModes(u, v) /\ v.input_buffer = ib /\ Fits(v) BY <1>11 DEF S
  <1>13. w = [v EXCEPT !.input_buffer = rest]
    <2>1. w = [FoldLeft(receive_byte, u, s) EXCEPT
                 !.input_buffer = SubSeq(@, n + 1, Len(@))]
      BY <1>1, <1>3, <1>5, Zenon DEF pump_input
    <2>2. w = [v EXCEPT !.input_buffer = SubSeq(v.input_buffer, n + 1, Len(v.input_buffer))]
      BY <1>9, <1>11, <2>1, Zenon
    <2>3. QED BY <1>10, <1>12, <2>2
  <1>14. /\ w \in Uarts /\ SameModes(v, w) /\ w.rx_fifo = v.rx_fifo /\ w.input_buffer = rest
    BY <1>12, <1>13, Zenon DEF Uarts, SameModes
  <1>15. SameModes(u, w) BY <1>12, <1>14 DEF SameModes
  <1>16. Fits(w) BY <1>12, <1>14 DEF Fits, SameModes
  <1>17. \A k \in 0..n : h[k] \in Uarts /\ h[k].fifo_enabled = u.fifo_enabled
    BY <1>4, <1>9 DEF S, SameModes
  <1>18. ASSUME u.fifo_enabled
         PROVE  /\ w.rx_fifo \o w.input_buffer = u.rx_fifo \o u.input_buffer
                /\ w.input_buffer # <<>> => Len(w.rx_fifo) = FIFO_SIZE
    <2> DEFINE Q == {k \in 0..n : h[k].rx_fifo = rx \o SubSeq(ib, 1, k)}
    <2>1. 0 \in Q
      <3>1. SubSeq(ib, 1, 0) = <<>> OBVIOUS
      <3>2. rx \o <<>> = rx OBVIOUS
      <3>3. QED BY <1>2, <1>4, <1>9, <3>1, <3>2
    <2>2. ASSUME NEW k \in 1..n, k - 1 \in Q PROVE k \in Q
      <3>1. k - 1 \in 0..n /\ k \in 0..n /\ k \in 1..Len(ib) BY <1>4
      <3>2. PICK x : x = h[k - 1] OBVIOUS
      <3>3. x \in Uarts /\ x.fifo_enabled BY <1>17, <1>18, <3>1, <3>2, Zenon
      <3>4. x.rx_fifo = rx \o SubSeq(ib, 1, k - 1) BY <2>2, <3>2
      <3>5. SubSeq(ib, 1, k - 1) \in Seq(CharClass) /\ Len(SubSeq(ib, 1, k - 1)) = k - 1 BY <3>1
      <3>6. Len(x.rx_fifo) = Len(rx) + (k - 1) BY <3>4, <3>5
      <3>7. Len(x.rx_fifo) < FIFO_SIZE BY <1>4, <1>18, <3>6, SerialAssumption
      <3>8. h[k] = receive_byte(x, ib[k]) /\ ib[k] \in CharClass BY <1>6, <1>9, <3>1, <3>2
      <3>9. h[k].rx_fifo = Append(x.rx_fifo, ib[k]) BY <3>3, <3>7, <3>8, ReceiveFacts, Zenon
      <3>10. h[k].rx_fifo = rx \o SubSeq(ib, 1, k) BY <3>1, <3>4, <3>9, MoveOne, Zenon
      <3>11. QED BY <3>1, <3>10
    <2> HIDE DEF Q
    <2>3. n \in Q
      <3>1. n \in Nat /\ n \in 0..n BY <1>4
      <3>2. QED BY <2>1, <2>2, <3>1, IndexInduction, Zenon
    <2>4. w.rx_fifo = rx \o s BY <1>5, <1>11, <1>14, <2>3 DEF Q
    <2>5. s \o rest = ib
      <3>1. n \in 0..Len(ib) BY <1>4
      <3>2. SubSeq(ib, 1, n) \o SubSeq(ib, n + 1, Len(ib)) = ib BY <3>1, SeqHalves, Zenon
      <3>3. QED BY <1>5, <1>10, <3>2, Zenon
    <2>6. (rx \o s) \o rest = rx \o (s \o rest) OBVIOUS
    <2>7. w.rx_fifo \o w.input_buffer = u.rx_fifo \o u.input_buffer
      BY <1>1, <1>2, <1>14, <2>4, <2>5, <2>6
    <2>8. ASSUME rest # <<>> PROVE Len(w.rx_fifo) = FIFO_SIZE
      <3>1. n < Len(ib) BY <1>4, <1>10, <2>8
      <3>2. Len(rx \o s) = Len(rx) + Len(s) OBVIOUS
      <3>3. QED BY <1>4, <1>6, <1>18, <2>4, <3>1, <3>2, SerialAssumption
    <2>9. QED BY <1>14, <2>7, <2>8
  <1>19. ASSUME ~u.fifo_enabled
         PROVE  /\ w.input_buffer = <<>>
                /\ w.rx_fifo = IF u.input_buffer = <<>> THEN u.rx_fifo
                               ELSE <<u.input_buffer[Len(u.input_buffer)]>>
    <2>1. n = Len(ib) BY <1>4, <1>19
    <2>2. rest = <<>> BY <1>10, <2>1
    <2>3. CASE ib = <<>>
      <3>1. n = 0 BY <2>1, <2>3
      <3>2. QED BY <1>1, <1>9, <1>11, <1>14, <2>2, <2>3, <3>1
    <2>4. CASE ib # <<>>
      <3>1. n \in 1..n /\ n - 1 \in 0..n /\ n \in 1..Len(ib) BY <1>4, <2>1, <2>4
      <3>2. PICK x : x = h[n - 1] OBVIOUS
      <3>3. x \in Uarts /\ ~x.fifo_enabled BY <1>17, <1>19, <3>1, <3>2
      <3>4. h[n] = receive_byte(x, ib[n]) /\ ib[n] \in CharClass BY <1>6, <1>9, <3>1, <3>2
      <3>5. h[n].rx_fifo = <<ib[n]>> BY <3>3, <3>4, ReceiveFacts
      <3>6. w.rx_fifo = <<ib[Len(ib)]>> BY <1>11, <1>14, <2>1, <3>5
      <3>7. QED BY <1>1, <1>14, <2>2, <2>4, <3>6
    <2>5. QED BY <2>3, <2>4
  <1>20. QED BY <1>14, <1>15, <1>16, <1>18, <1>19, Zenon

-----------------------------------------------------------------------------
(* The staging filter changes only its own state and the staged bytes. *)
SameRest(u, w) ==
  /\ w.ier = u.ier /\ w.dlab = u.dlab /\ w.mcr = u.mcr
  /\ w.fifo_enabled = u.fifo_enabled /\ w.rx_trigger = u.rx_trigger
  /\ w.msr = u.msr /\ w.msr_delta = u.msr_delta /\ w.thre_interrupt = u.thre_interrupt
  /\ w.rx_fifo = u.rx_fifo /\ w.overrun_error = u.overrun_error
  /\ w.cpq_buffer = u.cpq_buffer

(* The bytes the filter keeps back, and what a byte adds to the staged and *)
(* the withheld ones: itself, or nothing.                                  *)
Withheld(state) ==
  IF state = "GotEsc" THEN <<"esc">> ELSE IF state = "GotBracket" THEN <<"esc", "[">> ELSE <<>>

LEMMA CprFacts ==
  ASSUME NEW state \in CprFilterState, NEW b \in CharClass
  PROVE  /\ CprStep(state, b).state \in CprFilterState
         /\ CprStep(state, b).out \in Seq(CharClass)
         /\ state = "Normal" /\ b # "esc" =>
              CprStep(state, b).state = "Normal" /\ CprStep(state, b).out = <<b>>
  <1>1. "esc" \in CharClass /\ "[" \in CharClass BY DEF CharClass
  <1>2. <<>> \in Seq(CharClass) OBVIOUS
  <1>3. CASE state = "Normal" BY <1>3 DEF CprStep, CprFilterState
  <1>4. CASE state = "GotEsc"
    <2>1. CprStep(state, b) \in {[state |-> "GotBracket", out |-> <<>>],
                                 [state |-> "Normal", out |-> <<"esc", b>>]}
      BY <1>4 DEF CprStep
    <2>2. <<"esc", b>> \in Seq(CharClass) BY <1>1
    <2>3. CprStep(state, b).state \in {"GotBracket", "Normal"} BY <2>1
    <2>4. CprStep(state, b).out \in {<<>>, <<"esc", b>>} BY <2>1
    <2>5. CprStep(state, b).state \in CprFilterState BY <2>3 DEF CprFilterState
    <2>6. CprStep(state, b).out \in Seq(CharClass) BY <1>2, <2>2, <2>4, Zenon
    <2>7. QED BY <1>4, <2>5, <2>6
  <1>5. CASE state = "GotBracket"
    <2>1. CprStep(state, b) \in {[state |-> "InNumber", out |-> <<>>],
                                 [state |-> "Normal", out |-> <<"esc", "[", b>>]}
      BY <1>5 DEF CprStep
    <2>2. <<"esc", "[", b>> \in Seq(CharClass) BY <1>1
    <2>3. CprStep(state, b).state \in {"InNumber", "Normal"} BY <2>1
    <2>4. CprStep(state, b).out \in {<<>>, <<"esc", "[", b>>} BY <2>1
    <2>5. CprStep(state, b).state \in CprFilterState BY <2>3 DEF CprFilterState
    <2>6. CprStep(state, b).out \in Seq(CharClass) BY <1>2, <2>2, <2>4, Zenon
    <2>7. QED BY <1>5, <2>5, <2>6
  <1>6. CASE state = "InNumber"
    <2>1. CprStep(state, b) \in {[state |-> "InNumber", out |-> <<>>],
                                 [state |-> "Normal", out |-> <<>>],
                                 [state |-> "Normal", out |-> <<b>>]}
      BY <1>6 DEF CprStep
    <2>2. <<b>> \in Seq(CharClass) OBVIOUS
    <2>3. CprStep(state, b).state \in {"InNumber", "Normal"} BY <2>1
    <2>4. CprStep(state, b).out \in {<<>>, <<b>>} BY <2>1
    <2>5. CprStep(state, b).state \in CprFilterState BY <2>3 DEF CprFilterState
    <2>6. CprStep(state, b).out \in Seq(CharClass) BY <1>2, <2>2, <2>4, Zenon
    <2>7. QED BY <1>6, <2>5, <2>6
  <1>7. QED BY <1>3, <1>4, <1>5, <1>6 DEF CprFilterState

LEMMA StageFacts ==
  ASSUME NEW u \in Uarts, NEW b \in CharClass, NEW w, w = StageByte(u, b)
  PROVE  /\ w \in Uarts /\ SameRest(u, w)
         /\ w.cpr_state = CprStep(u.cpr_state, b).state
         /\ w.input_buffer = u.input_buffer \o CprStep(u.cpr_state, b).out
  <1>1. u.cpr_state \in CprFilterState /\ u.input_buffer \in Seq(CharClass) BY UartFields
  <1>2. PICK state \in CprFilterState : state = CprStep(u.cpr_state, b).state
    BY <1>1, CprFacts
  <1>3. PICK out \in Seq(CharClass) : out = CprStep(u.cpr_state, b).out BY <1>1, CprFacts
  <1>4. PICK ib \in Seq(CharClass) : ib = u.input_buffer \o out
    <2>1. u.input_buffer \o out \in Seq(CharClass) BY <1>1
    <2>2. QED BY <2>1, Zenon
  <1>5. w = [u EXCEPT !.cpr_state = state, !.input_buffer = ib]
    BY <1>2, <1>3, <1>4 DEF StageByte
  <1>6. /\ w \in Uarts /\ SameRest(u, w) /\ w.cpr_state = state /\ w.input_buffer = ib
    BY <1>5, Zenon DEF Uarts, SameRest
  <1>7. QED BY <1>2, <1>3, <1>4, <1>6

(* Staging a burst, whatever it holds. *)
LEMMA BurstStaged ==
  ASSUME NEW u \in Uarts, NEW s \in Seq(CharClass), NEW w, w = FoldLeft(StageByte, u, s)
  PROVE  w \in Uarts /\ SameRest(u, w)
  <1> DEFINE S == {x \in Uarts : SameRest(u, x)}
  <1>1. u \in S BY DEF SameRest
  <1>2. ASSUME NEW x \in S, NEW b \in CharClass PROVE StageByte(x, b) \in S
    <2>1. StageByte(x, b) \in Uarts /\ SameRest(x, StageByte(x, b)) BY StageFacts, Zenon
    <2>2. QED BY <2>1 DEF SameRest
  <1> HIDE DEF S
  <1>3. \A x \in S, b \in CharClass : StageByte(x, b) \in S BY <1>2
  <1>4. PICK h : StagesAll(h, S, u, s) BY <1>1, <1>3, StageFold
  <1>5. w \in S BY <1>4 DEF StagesAll
  <1>6. QED BY <1>5 DEF S

(* A burst without ESC, met by an idle filter, is staged as it is. *)
LEMMA PlainBurstStaged ==
  ASSUME NEW u \in Uarts, u.cpr_state = "Normal",
         NEW s \in Seq(CharClass), \A i \in 1..Len(s) : s[i] # "esc",
         NEW w, w = FoldLeft(StageByte, u, s)
  PROVE  w.cpr_state = "Normal" /\ w.input_buffer = u.input_buffer \o s
  <1>1. \A x \in Uarts, b \in CharClass : StageByte(x, b) \in Uarts BY StageFacts, Zenon
  <1>2. PICK h : StagesAll(h, Uarts, u, s) BY <1>1, StageFold
  <1>3. PICK n \in Nat : n = Len(s) OBVIOUS
  <1>4. /\ h \in [0..n -> Uarts] /\ h[0] = u /\ w = h[n]
        /\ \A k \in 1..n : h[k] = StageByte(h[k - 1], s[k])
    BY <1>2, <1>3 DEF StagesAll
  <1>5. PICK ib \in Seq(CharClass) : ib = u.input_buffer BY UartFields
  <1> DEFINE Q == {k \in 0..n : /\ h[k].cpr_state = "Normal"
                                /\ h[k].input_buffer = ib \o SubSeq(s, 1, k)}
  <1>6. 0 \in Q
    <2>1. SubSeq(s, 1, 0) = <<>> /\ ib \o <<>> = ib OBVIOUS
    <2>2. QED BY <1>3, <1>4, <1>5, <2>1
  <1>7. ASSUME NEW k \in 1..n, k - 1 \in Q PROVE k \in Q
    <2>1. k - 1 \in 0..n /\ k \in 0..n /\ k \in 1..Len(s) BY <1>3
    <2>2. PICK x \in Uarts : x = h[k - 1] BY <1>4, <2>1
    <2>3. x.cpr_state = "Normal" /\ x.input_buffer = ib \o SubSeq(s, 1, k - 1) BY <1>7, <2>2
    <2>4. s[k] \in CharClass /\ s[k] # "esc" BY <2>1
    <2>5. h[k] = StageByte(x, s[k]) BY <1>4, <2>2
    <2>6. CprStep("Normal", s[k]).state = "Normal" /\ CprStep("Normal", s[k]).out = <<s[k]>>
      <3>1. "Normal" \in CprFilterState BY DEF CprFilterState
      <3>2. QED BY <2>4, <3>1, CprFacts
    <2>7. h[k].cpr_state = "Normal" /\ h[k].input_buffer = x.input_buffer \o <<s[k]>>
      <3>1. /\ h[k].cpr_state = CprStep(x.cpr_state, s[k]).state
            /\ h[k].input_buffer = x.input_buffer \o CprStep(x.cpr_state, s[k]).out
        BY <2>4, <2>5, StageFacts, Zenon
      <3>2. QED BY <2>3, <2>6, <3>1, Zenon
    <2>8. x.input_buffer \in Seq(CharClass) BY UartFields
    <2>9. x.input_buffer \o <<s[k]>> = Append(x.input_buffer, s[k])
      BY <2>4, <2>8, SeqAppends
    <2>10. h[k].input_buffer = ib \o SubSeq(s, 1, k) BY <2>1, <2>3, <2>7, <2>9, MoveOne, Zenon
    <2>11. QED BY <2>1, <2>7, <2>10, Zenon
  <1> HIDE DEF Q
  <1>8. n \in Q
    <2>1. n \in 0..n OBVIOUS
    <2>2. QED BY <1>6, <1>7, <2>1, IndexInduction, Zenon
  <1>9. SubSeq(s, 1, n) = s BY <1>3, SeqWhole
  <1>10. QED BY <1>4, <1>5, <1>8, <1>9, Zenon DEF Q

-----------------------------------------------------------------------------
(* What host input and reads of RBR leave alone. *)
SameRegisters(u, w) ==
  /\ w.ier = u.ier /\ w.dlab = u.dlab /\ w.mcr = u.mcr
  /\ w.fifo_enabled = u.fifo_enabled /\ w.rx_trigger = u.rx_trigger
  /\ w.msr = u.msr /\ w.msr_delta = u.msr_delta /\ w.thre_interrupt = u.thre_interrupt
  /\ w.cpq_buffer = u.cpq_buffer

(* queue_input: the bytes are staged, then metered. *)
Joins(u, s, w) ==
  w.cpr_state = "Normal" /\ w.rx_fifo \o w.input_buffer = u.rx_fifo \o (u.input_buffer \o s)

LEMMA QueueFacts ==
  ASSUME NEW u \in Uarts, Fits(u), NEW s \in Seq(CharClass), NEW w, w = queue_input(u, s)
  PROVE  /\ w \in Uarts /\ Fits(w) /\ SameRegisters(u, w)
         /\ u.fifo_enabled => (w.input_buffer # <<>> => Len(w.rx_fifo) = FIFO_SIZE)
         /\ u.fifo_enabled /\ u.cpr_state = "Normal" /\ (\A i \in 1..Len(s) : s[i] # "esc") =>
              Joins(u, s, w)
  <1>1. PICK v : v = FoldLeft(StageByte, u, s) OBVIOUS
  <1>2. w = pump_input(v) BY <1>1 DEF queue_input
  <1>3. v \in Uarts /\ SameRest(u, v) BY <1>1, BurstStaged
  <1>4. Fits(v) BY <1>3 DEF Fits, SameRest
  <1>5. /\ w \in Uarts /\ SameModes(v, w) /\ Fits(w)
        /\ v.fifo_enabled =>
             /\ w.rx_fifo \o w.input_buffer = v.rx_fifo \o v.input_buffer
             /\ w.input_buffer # <<>> => Len(w.rx_fifo) = FIFO_SIZE
    BY <1>2, <1>3, <1>4, PumpFacts, Zenon
  <1>6. SameRegisters(u, w) BY <1>3, <1>5 DEF SameRegisters, SameModes, SameRest
  <1>7. v.fifo_enabled = u.fifo_enabled /\ v.rx_fifo = u.rx_fifo BY <1>3 DEF SameRest
  <1>8. ASSUME u.fifo_enabled, u.cpr_state = "Normal", \A i \in 1..Len(s) : s[i] # "esc"
        PROVE  Joins(u, s, w)
    <2>1. v.cpr_state = "Normal" /\ v.input_buffer = u.input_buffer \o s
      BY <1>1, <1>8, PlainBurstStaged
    <2>2. w.cpr_state = "Normal" BY <1>5, <2>1 DEF SameModes
    <2>3. QED BY <1>5, <1>7, <1>8, <2>1, <2>2, Zenon DEF Joins
  <1>9. u.fifo_enabled => (w.input_buffer # <<>> => Len(w.rx_fifo) = FIFO_SIZE)
    BY <1>5, <1>7
  <1>10. QED BY <1>5, <1>6, <1>8, <1>9

(* read_rbr takes the oldest byte and refills the FIFO. *)
Rest(q) == IF q = <<>> THEN q ELSE Tail(q)

Refills(u, rx, w) ==
  /\ u.fifo_enabled =>
       /\ w.rx_fifo \o w.input_buffer = rx \o u.input_buffer
       /\ w.input_buffer # <<>> => Len(w.rx_fifo) = FIFO_SIZE
  /\ ~u.fifo_enabled =>
       /\ w.input_buffer = <<>>
       /\ w.rx_fifo = IF u.input_buffer = <<>> THEN rx
                      ELSE <<u.input_buffer[Len(u.input_buffer)]>>

LEMMA ReadFacts ==
  ASSUME NEW u \in Uarts, Fits(u), NEW w, w = read_rbr(u),
         NEW rx, rx = Rest(u.rx_fifo)
  PROVE  /\ w \in Uarts /\ Fits(w) /\ SameRegisters(u, w) /\ w.cpr_state = u.cpr_state
         /\ Refills(u, rx, w)
  <1>1. u.rx_fifo \in Seq(CharClass) BY UartFields
  <1>2. rx \in Seq(CharClass) /\ Len(rx) <= Len(u.rx_fifo) BY <1>1 DEF Rest
  <1>3. PICK v : v = [u EXCEPT !.rx_fifo = rx] BY Zenon
  <1>4. w = pump_input(v) BY <1>3 DEF read_rbr, Rest
  <1>5. /\ v \in Uarts /\ SameModes(u, v) /\ v.input_buffer = u.input_buffer /\ v.rx_fifo = rx
    BY <1>2, <1>3, Zenon DEF Uarts, SameModes
  <1>6. Fits(v)
    <2>1. v.fifo_enabled = u.fifo_enabled BY <1>5 DEF SameModes
    <2>2. Len(u.rx_fifo) \in Nat /\ Len(rx) \in Nat /\ FIFO_SIZE \in Nat
      BY <1>1, <1>2, SerialAssumption
    <2>3. QED BY <1>2, <1>5, <2>1, <2>2 DEF Fits
  <1>7. /\ w \in Uarts /\ SameModes(v, w) /\ Fits(w)
        /\ v.fifo_enabled =>
             /\ w.rx_fifo \o w.input_buffer = v.rx_fifo \o v.input_buffer
             /\ w.input_buffer # <<>> => Len(w.rx_fifo) = FIFO_SIZE
        /\ ~v.fifo_enabled =>
             /\ w.input_buffer = <<>>
             /\ w.rx_fifo = IF v.input_buffer = <<>> THEN v.rx_fifo
                            ELSE <<v.input_buffer[Len(v.input_buffer)]>>
    BY <1>4, <1>5, <1>6, PumpFacts, Zenon
  <1>8. SameRegisters(u, w) /\ w.cpr_state = u.cpr_state
    BY <1>5, <1>7 DEF SameRegisters, SameModes
  <1>9. v.fifo_enabled = u.fifo_enabled BY <1>5 DEF SameModes
  <1>10. QED BY <1>5, <1>7, <1>8, <1>9, Zenon DEF Refills

-----------------------------------------------------------------------------
(* The other registers.  Untouched is the receive path and both filters. *)
Untouched(u, w) ==
  /\ w.fifo_enabled = u.fifo_enabled /\ w.rx_fifo = u.rx_fifo
  /\ w.input_buffer = u.input_buffer /\ w.cpr_state = u.cpr_state
  /\ w.cpq_buffer = u.cpq_buffer

LEMMA IerFacts ==
  ASSUME NEW u \in Uarts, NEW bits \in SUBSET IerBits, NEW w, w = write_ier(u, bits)
  PROVE  w \in Uarts /\ Untouched(u, w) /\ w.msr = u.msr /\ w.msr_delta = u.msr_delta
  <1>1. PICK t \in BOOLEAN : w = [u EXCEPT !.ier = bits, !.thre_interrupt = t]
    BY Zenon DEF write_ier
  <1>2. QED BY <1>1, Zenon DEF Uarts, Untouched

LEMMA IirFacts ==
  ASSUME NEW u \in Uarts, NEW w, w = read_iir(u)
  PROVE  w \in Uarts /\ Untouched(u, w) /\ w.msr = u.msr /\ w.msr_delta = u.msr_delta
  <1>1. PICK t \in BOOLEAN : w = [u EXCEPT !.thre_interrupt = t] BY Zenon DEF read_iir
  <1>2. QED BY <1>1 DEF Uarts, Untouched

LEMMA LsrFacts ==
  ASSUME NEW u \in Uarts, NEW w, w = read_lsr(u)
  PROVE  w \in Uarts /\ Untouched(u, w) /\ w.msr = u.msr /\ w.msr_delta = u.msr_delta
  BY Zenon DEF read_lsr, Uarts, Untouched

LEMMA MsrFacts ==
  ASSUME NEW u \in Uarts, NEW w, w = read_msr(u)
  PROVE  w \in Uarts /\ Untouched(u, w) /\ w.msr = u.msr
  BY Zenon DEF read_msr, Uarts, Untouched

LEMMA LcrFacts ==
  ASSUME NEW u \in Uarts, NEW dlab \in BOOLEAN, NEW w, w = [u EXCEPT !.dlab = dlab]
  PROVE  w \in Uarts /\ Untouched(u, w) /\ w.msr = u.msr /\ w.msr_delta = u.msr_delta
  BY DEF Uarts, Untouched

(* A modem input that changes sets its delta bit, and no delta bit is lost. *)
Deltas(u, w) ==
  /\ u.msr_delta \subseteq w.msr_delta
  /\ \A b \in MsrBits \ {"RI"} : (b \in u.msr) # (b \in w.msr) => b \in w.msr_delta

LEMMA ModemFacts ==
  ASSUME NEW u \in Uarts, NEW status \in SUBSET MsrBits,
         NEW w, w = update_modem_status(u, status)
  PROVE  w \in Uarts /\ Untouched(u, w) /\ Deltas(u, w)
  <1> DEFINE d == u.msr_delta \cup {b \in MsrBits \ {"RI"} : (b \in u.msr) # (b \in status)}
                              \cup ((u.msr \cap {"RI"}) \ status)
  <1>1. d \in SUBSET MsrBits /\ u.msr_delta \subseteq d BY UartFields
  <1>2. \A b \in MsrBits \ {"RI"} : (b \in u.msr) # (b \in status) => b \in d OBVIOUS
  <1>3. w = [u EXCEPT !.msr = status, !.msr_delta = d] BY DEF update_modem_status
  <1> HIDE DEF d
  <1>4. w \in Uarts /\ Untouched(u, w) /\ w.msr = status /\ w.msr_delta = d
    BY <1>1, <1>3, Zenon DEF Uarts, Untouched
  <1>5. QED BY <1>1, <1>2, <1>4 DEF Deltas

LEMMA McrFacts ==
  ASSUME NEW u \in Uarts, NEW bits \in SUBSET McrBits, NEW w, w = write_mcr(u, bits)
  PROVE  w \in Uarts /\ Untouched(u, w) /\ Deltas(u, w)
  <1>1. PICK v : v = [u EXCEPT !.mcr = bits] BY Zenon
  <1>2. v \in Uarts /\ Untouched(u, v) /\ v.msr = u.msr /\ v.msr_delta = u.msr_delta
    BY <1>1, Zenon DEF Uarts, Untouched
  <1>3. \/ w = v
        \/ \E status \in SUBSET MsrBits : w = update_modem_status(v, status)
    <2>1. LoopedStatus(bits) \in SUBSET MsrBits BY DEF LoopedStatus
    <2>2. {} \in SUBSET MsrBits OBVIOUS
    <2>3. \/ w = v
          \/ w = update_modem_status(v, LoopedStatus(bits)) \/ w = update_modem_status(v, {})
      BY <1>1 DEF write_mcr
    <2>4. QED BY <2>1, <2>2, <2>3
  <1>4. CASE w = v BY <1>2, <1>4 DEF Deltas
  <1>5. ASSUME NEW status \in SUBSET MsrBits, w = update_modem_status(v, status)
        PROVE  w \in Uarts /\ Untouched(u, w) /\ Deltas(u, w)
    <2>1. w \in Uarts /\ Untouched(v, w) /\ Deltas(v, w) BY <1>2, <1>5, ModemFacts
    <2>2. QED BY <1>2, <2>1 DEF Untouched, Deltas
  <1>6. QED BY <1>3, <1>4, <1>5

LEMMA FcrFacts ==
  ASSUME NEW u \in Uarts, Fits(u),
         NEW v \in [enable : BOOLEAN, rx_reset : BOOLEAN, trigger : 0..3],
         NEW w, w = write_fcr(u, v)
  PROVE  /\ w \in Uarts /\ Fits(w) /\ w.fifo_enabled = v.enable
         /\ w.rx_fifo = IF v.enable # u.fifo_enabled \/ v.rx_reset THEN <<>> ELSE u.rx_fifo
         /\ w.input_buffer = u.input_buffer /\ w.cpr_state = u.cpr_state
         /\ w.cpq_buffer = u.cpq_buffer /\ w.msr = u.msr /\ w.msr_delta = u.msr_delta
  <1>1. u.rx_fifo \in Seq(CharClass) /\ u.fifo_enabled \in BOOLEAN BY UartFields
  <1>2. PICK rx : rx = IF v.enable # u.fifo_enabled \/ v.rx_reset THEN <<>> ELSE u.rx_fifo
    OBVIOUS
  <1>3. rx \in Seq(CharClass) BY <1>1, <1>2
  <1>4. PICK o \in BOOLEAN : o = (u.overrun_error /\ ~v.rx_reset) BY Zenon
  <1>5. PICK t \in 1..FIFO_SIZE : t = Triggers[v.trigger] BY SerialAssumption
  <1>6. PICK e \in BOOLEAN : e = v.enable OBVIOUS
  <1>7. w = [u EXCEPT !.fifo_enabled = e, !.rx_fifo = rx, !.overrun_error = o, !.rx_trigger = t]
    BY <1>2, <1>4, <1>5, <1>6 DEF write_fcr
  <1>8. /\ w \in Uarts /\ w.fifo_enabled = e /\ w.rx_fifo = rx
        /\ w.input_buffer = u.input_buffer /\ w.cpr_state = u.cpr_state
        /\ w.cpq_buffer = u.cpq_buffer /\ w.msr = u.msr /\ w.msr_delta = u.msr_delta
    BY <1>3, <1>7, Zenon DEF Uarts
  <1>9. Fits(w)
    <2>1. CASE rx = <<>>
      <3>1. Len(w.rx_fifo) = 0 /\ FIFO_SIZE \in Nat BY <1>8, <2>1, SerialAssumption
      <3>2. QED BY <3>1 DEF Fits
    <2>2. CASE rx # <<>>
      <3>1. rx = u.rx_fifo /\ e = u.fifo_enabled BY <1>1, <1>2, <1>6, <2>2
      <3>2. QED BY <1>8, <3>1 DEF Fits
    <2>3. QED BY <2>1, <2>2
  <1>10. QED BY <1>2, <1>6, <1>8, <1>9

LEMMA CpqFacts ==
  ASSUME NEW buffer \in CpqPrefixes, NEW b \in CharClass, NEW seen, seen = Append(buffer, b)
  PROVE  /\ CpqStep(buffer, b).buffer \in CpqPrefixes
         /\ \/ CpqStep(buffer, b) = [buffer |-> seen, out |-> <<>>]
            \/ CpqStep(buffer, b) = [buffer |-> <<>>, out |-> seen]
            \/ /\ seen = <<"esc", "[", "6", "n">>
               /\ CpqStep(buffer, b) = [buffer |-> <<>>, out |-> <<>>]
  <1>1. <<>> \in CpqPrefixes BY DEF CpqPrefixes
  <1>2. CASE seen \in CpqPrefixes BY <1>2 DEF CpqStep
  <1>3. CASE seen \notin CpqPrefixes /\ seen = <<"esc", "[", "6", "n">>
    BY <1>1, <1>3 DEF CpqStep
  <1>4. CASE seen \notin CpqPrefixes /\ seen # <<"esc", "[", "6", "n">>
    BY <1>1, <1>4 DEF CpqStep
  <1>5. QED BY <1>2, <1>3, <1>4

LEMMA TransmitFacts ==
  ASSUME NEW u \in Uarts, Fits(u), NEW b \in CharClass, NEW w, w = transmit_byte(u, b)
  PROVE  /\ w \in Uarts /\ Fits(w) /\ w.fifo_enabled = u.fifo_enabled
         /\ w.msr = u.msr /\ w.msr_delta = u.msr_delta
         /\ "LOOP" \in u.mcr => w.cpq_buffer = u.cpq_buffer
         /\ "LOOP" \notin u.mcr =>
              /\ w.rx_fifo = u.rx_fifo /\ w.input_buffer = u.input_buffer
              /\ w.cpr_state = u.cpr_state /\ w.cpq_buffer = CpqStep(u.cpq_buffer, b).buffer
  <1>1. CASE "LOOP" \in u.mcr
    <2>1. PICK v : v = receive_byte(u, b) OBVIOUS
    <2>2. w = [v EXCEPT !.thre_interrupt = TRUE] BY <1>1, <2>1 DEF transmit_byte
    <2>3. v \in Uarts /\ SameModes(u, v) /\ Fits(v) BY <2>1, ReceiveFacts
    <2>4. /\ w \in Uarts /\ w.fifo_enabled = v.fifo_enabled /\ w.rx_fifo = v.rx_fifo
          /\ w.msr = v.msr /\ w.msr_delta = v.msr_delta /\ w.cpq_buffer = v.cpq_buffer
      BY <2>2, <2>3, Zenon DEF Uarts
    <2>5. QED BY <1>1, <2>3, <2>4 DEF SameModes, Fits
  <1>2. CASE "LOOP" \notin u.mcr
    <2>1. u.cpq_buffer \in CpqPrefixes BY UartFields
    <2>2. PICK c \in CpqPrefixes : c = CpqStep(u.cpq_buffer, b).buffer BY <2>1, CpqFacts, Zenon
    <2>3. w = [[u EXCEPT !.cpq_buffer = c] EXCEPT !.thre_interrupt = TRUE]
      BY <1>2, <2>2 DEF transmit_byte
    <2>4. /\ w \in Uarts /\ w.cpq_buffer = c /\ w.fifo_enabled = u.fifo_enabled
          /\ w.rx_fifo = u.rx_fifo /\ w.input_buffer = u.input_buffer
          /\ w.cpr_state = u.cpr_state /\ w.msr = u.msr /\ w.msr_delta = u.msr_delta
      BY <2>3, Zenon DEF Uarts
    <2>5. QED BY <1>2, <2>2, <2>4 DEF Fits
  <1>3. QED BY <1>1, <1>2

-----------------------------------------------------------------------------
(* Typing order.  One sequence is part of another, in order, if its        *)
(* positions map to increasing positions of the other.                     *)
Places(f, a, t) ==
  /\ f \in [1..Len(a) -> 1..Len(t)]
  /\ \A i \in 1..Len(a) : a[i] = t[f[i]]
  /\ \A i, j \in 1..Len(a) : i < j => f[i] < f[j]

Embeds(a, t) == \E f : Places(f, a, t)

LEMMA EmbedsItself ==
  ASSUME NEW A, NEW a \in Seq(A)
  PROVE  Embeds(a, a)
  <1>1. PICK f : f = [i \in 1..Len(a) |-> i] BY Zenon
  <1>2. Places(f, a, a) BY <1>1 DEF Places
  <1>3. QED BY <1>2 DEF Embeds

LEMMA EmbedsThrough ==
  ASSUME NEW A, NEW a \in Seq(A), NEW b \in Seq(A), NEW t \in Seq(A), Embeds(a, b), Embeds(b, t)
  PROVE  Embeds(a, t)
  <1>1. PICK f : Places(f, a, b) BY DEF Embeds
  <1>2. PICK g : Places(g, b, t) BY DEF Embeds
  <1>3. PICK h : h = [i \in 1..Len(a) |-> g[f[i]]] BY Zenon
  <1>4. Len(a) \in Nat /\ Len(b) \in Nat /\ Len(t) \in Nat OBVIOUS
  <1>5. \A i \in 1..Len(a) : f[i] \in 1..Len(b) /\ h[i] = g[f[i]] BY <1>1, <1>3 DEF Places
  <1>6. h \in [1..Len(a) -> 1..Len(t)] BY <1>2, <1>3, <1>5 DEF Places
  <1>7. \A i \in 1..Len(a) : a[i] = t[h[i]] BY <1>1, <1>2, <1>5, Zenon DEF Places
  <1>8. \A i, j \in 1..Len(a) : i < j => h[i] < h[j] BY <1>1, <1>2, <1>5 DEF Places
  <1>9. Places(h, a, t) BY <1>6, <1>7, <1>8 DEF Places
  <1>10. QED BY <1>9 DEF Embeds

(* A byte is added to both, or to the longer one alone. *)
LEMMA EmbedsMore ==
  ASSUME NEW A, NEW a \in Seq(A), NEW t \in Seq(A), NEW b \in A, Embeds(a, t)
  PROVE  Embeds(a, Append(t, b)) /\ Embeds(Append(a, b), Append(t, b))
  <1>1. PICK f : Places(f, a, t) BY DEF Embeds
  <1>2. PICK u \in Seq(A) : u = Append(t, b)
    <2>1. Append(t, b) \in Seq(A) OBVIOUS
    <2>2. QED BY <2>1, Zenon
  <1>3. PICK c \in Seq(A) : c = Append(a, b)
    <2>1. Append(a, b) \in Seq(A) OBVIOUS
    <2>2. QED BY <2>1, Zenon
  <1>4. /\ Len(a) \in Nat /\ Len(t) \in Nat /\ Len(u) = Len(t) + 1 /\ Len(c) = Len(a) + 1
        /\ \A i \in 1..Len(t) : u[i] = t[i]
        /\ \A i \in 1..Len(a) : c[i] = a[i]
        /\ u[Len(t) + 1] = b /\ c[Len(a) + 1] = b
    BY <1>2, <1>3
  <1>5. Places(f, a, u)
    <2>1. f \in [1..Len(a) -> 1..Len(u)] BY <1>1, <1>4 DEF Places
    <2>2. \A i \in 1..Len(a) : a[i] = u[f[i]] BY <1>1, <1>4 DEF Places
    <2>3. QED BY <1>1, <2>1, <2>2 DEF Places
  <1>6. PICK g : g = [i \in 1..Len(c) |-> IF i = Len(c) THEN Len(u) ELSE f[i]] BY Zenon
  <1>7. /\ \A i \in 1..Len(a) : g[i] = f[i] /\ f[i] \in 1..Len(t)
        /\ g[Len(c)] = Len(u)
    <2>1. Len(c) \in 1..Len(c) /\ \A i \in 1..Len(a) : i \in 1..Len(c) /\ i # Len(c)
      BY <1>4
    <2>2. \A i \in 1..Len(a) : f[i] \in 1..Len(t) BY <1>1, Zenon DEF Places
    <2>3. \A i \in 1..Len(a) : g[i] = f[i] BY <1>6, <2>1
    <2>4. g[Len(c)] = Len(u) BY <1>6, <2>1
    <2>5. QED BY <2>2, <2>3, <2>4
  <1>8. Places(g, c, u)
    <2>1. g \in [1..Len(c) -> 1..Len(u)]
      <3>1. \A i \in 1..Len(c) : g[i] \in 1..Len(u)
        <4>1. \A i \in 1..Len(c) : i \in 1..Len(a) \/ i = Len(c) BY <1>4
        <4>2. Len(u) \in 1..Len(u) /\ 1..Len(t) \subseteq 1..Len(u) BY <1>4
        <4>3. QED BY <1>7, <4>1, <4>2
      <3>2. QED BY <1>6, <3>1
    <2>2. \A i \in 1..Len(c) : c[i] = u[g[i]]
      <3>1. SUFFICES ASSUME NEW i \in 1..Len(c) PROVE c[i] = u[g[i]] OBVIOUS
      <3>2. CASE i = Len(c) BY <1>4, <1>7, <3>2
      <3>3. CASE i \in 1..Len(a) BY <1>1, <1>4, <1>7, <3>3 DEF Places
      <3>4. QED BY <1>4, <3>1, <3>2, <3>3
    <2>3. \A i, j \in 1..Len(c) : i < j => g[i] < g[j]
      <3>1. SUFFICES ASSUME NEW i \in 1..Len(c), NEW j \in 1..Len(c), i < j
                     PROVE  g[i] < g[j]
        OBVIOUS
      <3>2. i \in 1..Len(a) BY <1>4, <3>1
      <3>3. CASE j = Len(c) BY <1>4, <1>7, <3>2, <3>3
      <3>4. CASE j \in 1..Len(a) BY <1>1, <1>7, <3>1, <3>2, <3>4 DEF Places
      <3>5. QED BY <1>4, <3>1, <3>3, <3>4
    <2>4. QED BY <2>1, <2>2, <2>3 DEF Places
  <1>9. QED BY <1>2, <1>3, <1>5, <1>8 DEF Embeds

(* Something is taken out. *)
LEMMA EmbedsWithout ==
  ASSUME NEW A, NEW p \in Seq(A), NEW m \in Seq(A), NEW q \in Seq(A)
  PROVE  Embeds(p \o q, (p \o m) \o q)
  <1>1. PICK a \in Seq(A) : a = p \o q
    <2>1. p \o q \in Seq(A) OBVIOUS
    <2>2. QED BY <2>1, Zenon
  <1>2. PICK pm \in Seq(A) : pm = p \o m
    <2>1. p \o m \in Seq(A) OBVIOUS
    <2>2. QED BY <2>1, Zenon
  <1>3. PICK t \in Seq(A) : t = pm \o q
    <2>1. pm \o q \in Seq(A) OBVIOUS
    <2>2. QED BY <2>1, Zenon
  <1>4. /\ Len(p) \in Nat /\ Len(m) \in Nat /\ Len(q) \in Nat
        /\ Len(a) = Len(p) + Len(q) /\ Len(pm) = Len(p) + Len(m)
        /\ Len(t) = Len(p) + Len(m) + Len(q)
    BY <1>1, <1>2, <1>3
  <1>5. \A i \in 1..Len(a) : a[i] = IF i <= Len(p) THEN p[i] ELSE q[i - Len(p)]
    BY <1>1, <1>4
  <1>6. \A i \in 1..Len(p) : pm[i] = p[i] BY <1>2, <1>4
  <1>7. \A i \in 1..Len(t) : t[i] = IF i <= Len(pm) THEN pm[i] ELSE q[i - Len(pm)]
    BY <1>3, <1>4
  <1>8. PICK f : f = [i \in 1..Len(a) |-> IF i <= Len(p) THEN i ELSE i + Len(m)] BY Zenon
  <1>9. f \in [1..Len(a) -> 1..Len(t)] BY <1>4, <1>8
  <1>10. \A i \in 1..Len(a) : a[i] = t[f[i]]
    <2>1. SUFFICES ASSUME NEW i \in 1..Len(a) PROVE a[i] = t[f[i]] OBVIOUS
    <2>2. CASE i <= Len(p)
      <3>1. f[i] = i /\ i \in 1..Len(p) /\ i \in 1..Len(t) /\ i <= Len(pm) BY <1>4, <1>8, <2>2
      <3>2. a[i] = p[i] BY <1>5, <2>2
      <3>3. t[i] = pm[i] BY <1>7, <3>1
      <3>4. QED BY <1>6, <3>1, <3>2, <3>3
    <2>3. CASE ~(i <= Len(p))
      <3>1. /\ f[i] = i + Len(m) /\ i + Len(m) \in 1..Len(t) /\ ~(i + Len(m) <= Len(pm))
            /\ i + Len(m) - Len(pm) = i - Len(p)
        BY <1>4, <1>8, <2>3
      <3>2. a[i] = q[i - Len(p)] BY <1>5, <2>3
      <3>3. t[i + Len(m)] = q[i + Len(m) - Len(pm)] BY <1>7, <3>1
      <3>4. QED BY <3>1, <3>2, <3>3, Zenon
    <2>4. QED BY <2>2, <2>3
  <1>11. \A i, j \in 1..Len(a) : i < j => f[i] < f[j] BY <1>4, <1>8
  <1>12. Places(f, a, t) BY <1>9, <1>10, <1>11 DEF Places
  <1>13. QED BY <1>1, <1>2, <1>3, <1>12 DEF Embeds

(* Matching greedily finds every such mapping's end. *)
Matched(a, n, c) == IF n < Len(a) /\ a[n + 1] = c THEN n + 1 ELSE n

MatchesAll(h, S, a, u, s) ==
  /\ h \in [0..Len(s) -> S] /\ h[0] = u /\ FoldLeft(LAMBDA i, c : Matched(a, i, c), u, s) = h[Len(s)]
  /\ \A k \in 1..Len(s) : h[k] = Matched(a, h[k - 1], s[k])

LEMMA MatchFold ==
  ASSUME NEW S, NEW B, NEW a, NEW u \in S, NEW s \in Seq(B),
         \A x \in S, b \in B : Matched(a, x, b) \in S
  PROVE  \E h : MatchesAll(h, S, a, u, s)
  <1> DEFINE n == Len(s)
             R(f) == f = [i \in 0..n |-> IF i = 0 THEN u ELSE Matched(a, f[i - 1], s[i])]
  <1>1. n \in Nat /\ \A i \in 1..n : s[i] \in B OBVIOUS
  <1>2. PICK F \in [S \X B -> S] : \A x \in S, b \in B : F[<<x, b>>] = Matched(a, x, b)
    <2> DEFINE G == [p \in S \X B |-> Matched(a, p[1], p[2])]
    <2>1. G \in [S \X B -> S] /\ \A x \in S, b \in B : G[<<x, b>>] = Matched(a, x, b)
      OBVIOUS
    <2> HIDE DEF G
    <2>2. QED BY <2>1
  <1>3. FoldLeft(LAMBDA i, c : Matched(a, i, c), u, s) = (CHOOSE f : R(f))[n]
    BY Zenon DEF FoldLeft
  <1> HIDE DEF n
  <1>4. PICK h : Steps(h, n, S, F, u, s) BY <1>1, <1>2, FoldExists, Zenon
  <1>5. /\ h \in [0..n -> S] /\ h[0] = u
        /\ \A k \in 1..n : k - 1 \in 0..n /\ k # 0 /\ h[k] = Matched(a, h[k - 1], s[k])
    <2>1. \A k \in 1..n : k - 1 \in 0..n /\ k # 0 BY <1>1
    <2>2. h \in [0..n -> S] /\ h[0] = u BY <1>4 DEF Steps
    <2>3. ASSUME NEW k \in 1..n PROVE h[k] = Matched(a, h[k - 1], s[k])
      <3>1. h[k - 1] \in S /\ s[k] \in B BY <1>1, <2>1, <2>2
      <3>2. h[k] = F[<<h[k - 1], s[k]>>] BY <1>4 DEF Steps
      <3>3. QED BY <1>2, <3>1, <3>2
    <2>4. QED BY <2>1, <2>2, <2>3
  <1>6. R(h)
    <2>1. \A i \in 0..n : i = 0 \/ i \in 1..n BY <1>1
    <2>2. QED BY <1>5, <2>1
  <1>7. PICK f : R(f) /\ FoldLeft(LAMBDA i, c : Matched(a, i, c), u, s) = f[n]
    <2>1. R(CHOOSE f : R(f))
      <3> HIDE DEF R
      <3>1. QED BY <1>6
    <2>2. QED BY <1>3, <2>1
  <1> DEFINE Q == {k \in 0..n : f[k] = h[k]}
  <1>8. 0 \in Q
    <2>1. 0 \in 0..n BY <1>1
    <2>2. f[0] = u BY <1>7, <2>1, Zenon
    <2>3. QED BY <1>5, <2>1, <2>2
  <1>9. ASSUME NEW k \in 1..n, k - 1 \in Q PROVE k \in Q
    <2>1. k \in 0..n /\ k # 0 BY <1>1
    <2>2. f[k] = Matched(a, f[k - 1], s[k]) BY <1>7, <2>1
    <2>3. f[k - 1] = h[k - 1] BY <1>9
    <2>4. QED BY <1>5, <2>1, <2>2, <2>3
  <1> HIDE DEF Q
  <1>10. n \in Q
    <2>1. n \in 0..n BY <1>1
    <2>2. QED BY <1>1, <1>8, <1>9, <2>1, IndexInduction, Zenon
  <1>11. FoldLeft(LAMBDA i, c : Matched(a, i, c), u, s) = h[n] BY <1>7, <1>10 DEF Q
  <1>12. QED BY <1>5, <1>11 DEF n, MatchesAll

-----------------------------------------------------------------------------
Path(g, f, b) == g \o f \o b
Regroups(a, b, c) == (a \o b) \o c = a \o (b \o c)

LEMMA Regroup ==
  ASSUME NEW A, NEW a \in Seq(A), NEW b \in Seq(A), NEW c \in Seq(A)
  PROVE  Regroups(a, b, c)
  BY DEF Regroups

(* What is on its way through the receive path, the bytes the filter keeps *)
(* back included, is embedded in what was typed.                           *)
Held(g, u) == Path(g, u.rx_fifo, u.input_buffer) \o Withheld(u.cpr_state)

LEMMA WithheldTyped ==
  ASSUME NEW state
  PROVE  Withheld(state) \in Seq(CharClass)
  <1>1. "esc" \in CharClass /\ "[" \in CharClass BY DEF CharClass
  <1>2. <<>> \in Seq(CharClass) /\ <<"esc">> \in Seq(CharClass) /\ <<"esc", "[">> \in Seq(CharClass)
    BY <1>1
  <1>3. QED BY <1>2 DEF Withheld

LEMMA PathTyped ==
  ASSUME NEW A, NEW g \in Seq(A), NEW f \in Seq(A), NEW b \in Seq(A)
  PROVE  Path(g, f, b) \in Seq(A)
  BY DEF Path

LEMMA HeldTyped ==
  ASSUME NEW g \in Seq(CharClass), NEW u \in Uarts
  PROVE  Held(g, u) \in Seq(CharClass)
  <1>1. Path(g, u.rx_fifo, u.input_buffer) \in Seq(CharClass) BY UartFields, PathTyped
  <1>2. QED BY <1>1, WithheldTyped DEF Held

(* A byte is released or kept back behind what was kept back before, or    *)
(* all of that is dropped.                                                 *)
Passed(state, b, s) == s = CprStep(state, b).out \o Withheld(CprStep(state, b).state)

LEMMA FilterPasses ==
  ASSUME NEW state \in CprFilterState, NEW b \in CharClass
  PROVE  Passed(state, b, Append(Withheld(state), b)) \/ Passed(state, b, <<>>)
  <1>1. /\ Withheld("Normal") = <<>> /\ Withheld("InNumber") = <<>>
        /\ Withheld("GotEsc") = <<"esc">> /\ Withheld("GotBracket") = <<"esc", "[">>
    BY DEF Withheld
  <1>2. ASSUME NEW out, NEW st, CprStep(state, b) = [state |-> st, out |-> out]
        PROVE  Passed(state, b, out \o Withheld(st))
    BY <1>2 DEF Passed
  <1>3. /\ <<>> \o <<>> = <<>> /\ <<>> \o <<"esc">> = Append(<<>>, "esc")
        /\ <<>> \o <<"esc", "[">> = Append(<<"esc">>, "[") /\ <<b>> \o <<>> = Append(<<>>, b)
        /\ <<"esc", b>> \o <<>> = Append(<<"esc">>, b)
        /\ <<"esc", "[", b>> \o <<>> = Append(<<"esc", "[">>, b)
    OBVIOUS
  <1>4. CASE state = "Normal"
    <2>1. \/ b = "esc" /\ CprStep(state, b) = [state |-> "GotEsc", out |-> <<>>]
          \/ CprStep(state, b) = [state |-> "Normal", out |-> <<b>>]
      BY <1>4 DEF CprStep
    <2>2. QED BY <1>1, <1>2, <1>3, <1>4, <2>1, Zenon
  <1>5. CASE state = "GotEsc"
    <2>1. \/ b = "[" /\ CprStep(state, b) = [state |-> "GotBracket", out |-> <<>>]
          \/ CprStep(state, b) = [state |-> "Normal", out |-> <<"esc", b>>]
      BY <1>5 DEF CprStep
    <2>2. QED BY <1>1, <1>2, <1>3, <1>5, <2>1, Zenon
  <1>6. CASE state = "GotBracket"
    <2>1. \/ CprStep(state, b) = [state |-> "InNumber", out |-> <<>>]
          \/ CprStep(state, b) = [state |-> "Normal", out |-> <<"esc", "[", b>>]
      BY <1>6 DEF CprStep
    <2>2. QED BY <1>1, <1>2, <1>3, <1>6, <2>1, Zenon
  <1>7. CASE state = "InNumber"
    <2>1. \/ CprStep(state, b) = [state |-> "InNumber", out |-> <<>>]
          \/ CprStep(state, b) = [state |-> "Normal", out |-> <<>>]
          \/ CprStep(state, b) = [state |-> "Normal", out |-> <<b>>]
      BY <1>7 DEF CprStep
    <2>2. QED BY <1>1, <1>2, <1>3, <1>7, <2>1, Zenon
  <1>8. QED BY <1>4, <1>5, <1>6, <1>7 DEF CprFilterState

LEMMA StageEmbeds ==
  ASSUME NEW g \in Seq(CharClass), NEW t \in Seq(CharClass), NEW x \in Uarts,
         NEW b \in CharClass, NEW w, w = StageByte(x, b), Embeds(Held(g, x), t)
  PROVE  Embeds(Held(g, w), Append(t, b))
  <1>1. /\ w \in Uarts /\ w.rx_fifo = x.rx_fifo /\ x.cpr_state \in CprFilterState
        /\ x.rx_fifo \in Seq(CharClass) /\ x.input_buffer \in Seq(CharClass)
        /\ w.input_buffer \in Seq(CharClass)
    BY StageFacts, UartFields, Zenon DEF SameRest
  <1>2. PICK out \in Seq(CharClass) : out = CprStep(x.cpr_state, b).out BY <1>1, CprFacts
  <1>3. w.input_buffer = x.input_buffer \o out BY <1>2, StageFacts, Zenon
  <1>4. w.cpr_state = CprStep(x.cpr_state, b).state BY StageFacts, Zenon
  <1>5. PICK p \in Seq(CharClass) : p = Path(g, x.rx_fifo, x.input_buffer)
    BY <1>1, PathTyped
  <1>6. PICK k \in Seq(CharClass) : k = Withheld(x.cpr_state) BY WithheldTyped
  <1>7. PICK l \in Seq(CharClass) : l = Withheld(w.cpr_state) BY WithheldTyped
  <1>8. Path(g, w.rx_fifo, w.input_buffer) = p \o out
    <2>1. PICK f \in Seq(CharClass) : f = g \o x.rx_fifo
      <3>1. g \o x.rx_fifo \in Seq(CharClass) BY <1>1
      <3>2. QED BY <3>1, Zenon
    <2>2. Regroups(f, x.input_buffer, out) BY <1>1, Regroup
    <2>3. QED BY <1>1, <1>3, <1>5, <2>1, <2>2, Zenon DEF Path, Regroups
  <1>9. Held(g, w) = p \o (out \o l)
    <2>1. Regroups(p, out, l) BY Regroup
    <2>2. QED BY <1>7, <1>8, <2>1, Zenon DEF Held, Regroups
  <1>10. out \o l = Append(k, b) \/ out \o l = <<>>
    <2>1. Passed(x.cpr_state, b, Append(k, b)) \/ Passed(x.cpr_state, b, <<>>)
      BY <1>1, <1>6, FilterPasses
    <2>2. QED BY <1>2, <1>4, <1>7, <2>1, Zenon DEF Passed
  <1>11. Held(g, x) = p \o k BY <1>5, <1>6 DEF Held
  <1>12. PICK q \in Seq(CharClass) : q = p \o k
    <2>1. p \o k \in Seq(CharClass) OBVIOUS
    <2>2. QED BY <2>1, Zenon
  <1>13. Embeds(q, t) BY <1>11, <1>12
  <1>14. CASE out \o l = Append(k, b)
    <2>1. p \o Append(k, b) = Append(p \o k, b) OBVIOUS
    <2>2. Held(g, w) = Append(q, b) BY <1>9, <1>12, <1>14, <2>1
    <2>3. QED BY <1>13, <2>2, EmbedsMore
  <1>15. CASE out \o l = <<>>
    <2>1. Held(g, w) = p BY <1>9, <1>15
    <2>2. Embeds(p, q)
      <3>1. <<>> \in Seq(CharClass) OBVIOUS
      <3>2. Embeds(p \o <<>>, (p \o k) \o <<>>) BY <3>1, EmbedsWithout, Zenon
      <3>3. p \o <<>> = p /\ q \o <<>> = q OBVIOUS
      <3>4. QED BY <1>12, <3>2, <3>3, Zenon
    <2>3. Embeds(p, t) BY <1>13, <2>2, EmbedsThrough
    <2>4. QED BY <2>1, <2>3, EmbedsMore
  <1>16. QED BY <1>10, <1>14, <1>15

LEMMA BurstEmbeds ==
  ASSUME NEW g \in Seq(CharClass), NEW t \in Seq(CharClass), NEW u \in Uarts,
         NEW s \in Seq(CharClass), NEW w, w = FoldLeft(StageByte, u, s), Embeds(Held(g, u), t)
  PROVE  Embeds(Held(g, w), t \o s)
  <1>1. \A x \in Uarts, b \in CharClass : StageByte(x, b) \in Uarts BY StageFacts, Zenon
  <1>2. PICK h : StagesAll(h, Uarts, u, s) BY <1>1, StageFold
  <1>3. PICK n \in Nat : n = Len(s) OBVIOUS
  <1>4. /\ h \in [0..n -> Uarts] /\ h[0] = u /\ w = h[n]
        /\ \A k \in 1..n : h[k] = StageByte(h[k - 1], s[k])
    BY <1>2, <1>3 DEF StagesAll
  <1> DEFINE Q == {k \in 0..n : Embeds(Held(g, h[k]), t \o SubSeq(s, 1, k))}
  <1>5. 0 \in Q
    <2>1. SubSeq(s, 1, 0) = <<>> /\ t \o <<>> = t OBVIOUS
    <2>2. Embeds(Held(g, h[0]), t \o SubSeq(s, 1, 0)) BY <1>4, <2>1, Zenon
    <2>3. 0 \in 0..n BY <1>3
    <2>4. QED BY <2>2, <2>3
  <1>6. ASSUME NEW k \in 1..n, k - 1 \in Q PROVE k \in Q
    <2>1. k - 1 \in 0..n /\ k \in 0..n /\ k \in 1..Len(s) BY <1>3
    <2>2. PICK x \in Uarts : x = h[k - 1] BY <1>4, <2>1
    <2>3. PICK r \in Seq(CharClass) : r = t \o SubSeq(s, 1, k - 1)
      <3>1. t \o SubSeq(s, 1, k - 1) \in Seq(CharClass) BY <2>1
      <3>2. QED BY <3>1, Zenon
    <2>4. Embeds(Held(g, x), r) BY <1>6, <2>2, <2>3
    <2>5. h[k] = StageByte(x, s[k]) /\ s[k] \in CharClass BY <1>4, <2>1, <2>2
    <2>6. Embeds(Held(g, h[k]), Append(r, s[k])) BY <2>4, <2>5, StageEmbeds
    <2>7. Append(r, s[k]) = t \o SubSeq(s, 1, k) BY <2>1, <2>3, MoveOne, Zenon
    <2>8. QED BY <2>1, <2>6, <2>7
  <1> HIDE DEF Q
  <1>7. n \in Q
    <2>1. n \in 0..n OBVIOUS
    <2>2. QED BY <1>5, <1>6, <2>1, IndexInduction, Zenon
  <1>8. SubSeq(s, 1, n) = s BY <1>3, SeqWhole
  <1>9. QED BY <1>4, <1>7, <1>8, Zenon DEF Q

(* Dropping bytes between two others. *)
LEMMA PathDrops ==
  ASSUME NEW A, NEW g \in Seq(A), NEW f \in Seq(A), NEW c \in Seq(A), NEW e \in Seq(A),
         NEW k \in Seq(A)
  PROVE  Embeds(Path(g, e, <<>>) \o k, Path(g, f, c \o e) \o k)
  <1>1. PICK m \in Seq(A) : m = f \o c
    <2>1. f \o c \in Seq(A) OBVIOUS
    <2>2. QED BY <2>1, Zenon
  <1>2. PICK q \in Seq(A) : q = e \o k
    <2>1. e \o k \in Seq(A) OBVIOUS
    <2>2. QED BY <2>1, Zenon
  <1>3. PICK p \in Seq(A) : p = g \o m
    <2>1. g \o m \in Seq(A) OBVIOUS
    <2>2. QED BY <2>1, Zenon
  <1>4. Embeds(g \o q, (g \o m) \o q) BY EmbedsWithout
  <1>5. Path(g, e, <<>>) \o k = g \o q
    <2>1. (g \o e) \o <<>> = g \o e OBVIOUS
    <2>2. Regroups(g, e, k) BY Regroup
    <2>3. QED BY <1>2, <2>1, <2>2, Zenon DEF Path, Regroups
  <1>6. Path(g, f, c \o e) \o k = (g \o m) \o q
    <2>1. PICK gf \in Seq(A) : gf = g \o f
      <3>1. g \o f \in Seq(A) OBVIOUS
      <3>2. QED BY <3>1, Zenon
    <2>2. Regroups(g, f, c) BY Regroup
    <2>3. Regroups(gf, c, e) BY Regroup
    <2>4. Regroups(p, e, k) BY Regroup
    <2>5. QED BY <1>1, <1>2, <1>3, <2>1, <2>2, <2>3, <2>4, Zenon DEF Path, Regroups
  <1>7. QED BY <1>4, <1>5, <1>6, Zenon

LEMMA PathClears ==
  ASSUME NEW A, NEW g \in Seq(A), NEW f \in Seq(A), NEW b \in Seq(A), NEW k \in Seq(A)
  PROVE  Embeds(Path(g, <<>>, b) \o k, Path(g, f, b) \o k)
  <1>1. PICK q \in Seq(A) : q = b \o k
    <2>1. b \o k \in Seq(A) OBVIOUS
    <2>2. QED BY <2>1, Zenon
  <1>2. PICK p \in Seq(A) : p = g \o f
    <2>1. g \o f \in Seq(A) OBVIOUS
    <2>2. QED BY <2>1, Zenon
  <1>3. Embeds(g \o q, (g \o f) \o q) BY EmbedsWithout
  <1>4. g \o <<>> = g OBVIOUS
  <1>5. Regroups(g, b, k) BY Regroup
  <1>6. Regroups(p, b, k) BY Regroup
  <1>7. QED BY <1>1, <1>2, <1>3, <1>4, <1>5, <1>6, Zenon DEF Path, Regroups

(* Metering loses nothing while the FIFO is on; with it off, each byte     *)
(* replaces the one before.                                                *)
LEMMA PumpEmbeds ==
  ASSUME NEW g \in Seq(CharClass), NEW t \in Seq(CharClass), NEW u \in Uarts, Fits(u),
         NEW w, w = pump_input(u), Embeds(Held(g, u), t)
  PROVE  Embeds(Held(g, w), t)
  <1>1. w \in Uarts /\ w.cpr_state = u.cpr_state BY PumpFacts, Zenon DEF SameModes
  <1>2. PICK rx \in Seq(CharClass) : rx = u.rx_fifo BY UartFields
  <1>3. PICK ib \in Seq(CharClass) : ib = u.input_buffer BY UartFields
  <1>4. PICK x \in Seq(CharClass) : x = w.rx_fifo BY <1>1, UartFields
  <1>5. PICK y \in Seq(CharClass) : y = w.input_buffer BY <1>1, UartFields
  <1>6. PICK k \in Seq(CharClass) : k = Withheld(u.cpr_state) BY WithheldTyped
  <1>7. Held(g, u) = Path(g, rx, ib) \o k /\ Held(g, w) = Path(g, x, y) \o k
    BY <1>1, <1>2, <1>3, <1>4, <1>5, <1>6, Zenon DEF Held
  <1>8. CASE u.fifo_enabled
    <2>1. x \o y = rx \o ib BY <1>2, <1>3, <1>4, <1>5, <1>8, PumpFacts, Zenon
    <2>2. Regroups(g, x, y) BY Regroup
    <2>3. Regroups(g, rx, ib) BY Regroup
    <2>4. Held(g, w) = Held(g, u) BY <1>7, <2>1, <2>2, <2>3, Zenon DEF Path, Regroups
    <2>5. QED BY <2>4
  <1>9. CASE ~u.fifo_enabled
    <2>1. y = <<>> /\ x = IF ib = <<>> THEN rx ELSE <<ib[Len(ib)]>>
      BY <1>2, <1>3, <1>4, <1>5, <1>9, PumpFacts, Zenon
    <2>2. CASE ib = <<>>
      <3>1. Held(g, w) = Held(g, u) BY <1>7, <2>1, <2>2
      <3>2. QED BY <3>1
    <2>3. CASE ib # <<>>
      <3>1. PICK c \in Seq(CharClass) : c = SubSeq(ib, 1, Len(ib) - 1)
        <4>1. SubSeq(ib, 1, Len(ib) - 1) \in Seq(CharClass) BY <2>3
        <4>2. QED BY <4>1, Zenon
      <3>2. x = <<ib[Len(ib)]>> BY <2>1, <2>3
      <3>3. ib = c \o x
        <4>1. Len(ib) \in 1..Len(ib) /\ 1 \in 1..Len(ib) BY <2>3
        <4>5. SubSeq(ib, 1, Len(ib)) = SubSeq(ib, 1, Len(ib) - 1) \o <<ib[Len(ib)]>>
          BY <4>1, SeqUpTo, Zenon
        <4>2. SubSeq(ib, 1, Len(ib)) = c \o x BY <3>1, <3>2, <4>5, Zenon
        <4>3. SubSeq(ib, 1, Len(ib)) = ib BY SeqWhole
        <4>4. QED BY <4>2, <4>3, Zenon
      <3>4. Embeds(Path(g, x, <<>>) \o k, Path(g, rx, c \o x) \o k) BY PathDrops
      <3>5. Embeds(Held(g, w), Held(g, u)) BY <1>7, <2>1, <3>3, <3>4, Zenon
      <3>6. Held(g, w) \in Seq(CharClass) /\ Held(g, u) \in Seq(CharClass) BY <1>1, HeldTyped
      <3>7. QED BY <3>5, <3>6, EmbedsThrough
    <2>4. QED BY <2>2, <2>3
  <1>10. QED BY <1>8, <1>9, UartFields
=============================================================================
