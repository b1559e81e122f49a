----------------------------- MODULE SpiProofs -----------------------------
(***************************************************************************)
(* Proofs about Spi: its types, that the master's loop never overruns its   *)
(* receiver or waits in vain (InTransit), that the slave is given each      *)
(* packet whole (PacketIsWhole), and that the master reads what the slave   *)
(* has to say (ReadIsRight), for every size of the FIFOs, the buffers and   *)
(* the transfers, from the invariants of SpiInv.                            *)
(***************************************************************************)
EXTENDS SpiInv, TLAPS, SequenceTheorems

USE DEF MasterFields, DriverFields, HardwareFields

\* The assumption on the constants, in the form the proofs use it.
LEMMA Sizes ==
  /\ Depth \in Nat /\ Depth >= 2 /\ InFlight \in Nat /\ 1 <= InFlight /\ InFlight <= Depth
  /\ RxSize \in Nat /\ CmdSize \in Nat /\ 1 <= RxSize /\ RespSize \in Nat
  /\ MaxTrans \in Nat /\ MaxFrames \in Nat /\ TxSizes \subseteq Nat /\ DmaSizes \subseteq Nat
BY SMT, SpiAssumption DEF Threshold

\* What is in the FIFO is part of the block, so there is room for one frame more.
LEMMA RoomForOne ==
  ASSUME NEW n \in Nat, NEW level \in Nat, NEW base \in Nat, NEW txi \in Nat,
         NEW size \in Nat, n + level = base + txi, txi <= size, base + size <= MaxFrames,
         level >= 1
  PROVE  n + 1 <= MaxFrames
BY Sizes, SMT

---------------------------------------------------------------------------
(* Sequences of frames, whatever the frames are.                           *)

\* A sequence of frames is a function on 1 .. Level(s).
LEMMA SequentialIs ==
  ASSUME NEW s, Sequential(s)
  PROVE  /\ s \in Seq(ToSet(s)) /\ Level(s) \in Nat /\ DOMAIN s = 1 .. Level(s)
         /\ s = <<>> <=> Level(s) = 0
<1>1. s \in Seq(ToSet(s)) BY DEF Sequential
<1> QED BY <1>1, LenProperties, EmptySeq, SMT DEF Level

\* Every sequence over some set is one.
LEMMA SequentialIn ==
  ASSUME NEW S, NEW s \in Seq(S)
  PROVE  Sequential(s)
BY SeqOfRange DEF Sequential, ToSet, Range

\* The empty FIFO.
LEMMA Empty == Sequential(<<>>) /\ Level(<<>>) = 0
<1>1. <<>> \in Seq({}) BY EmptySeq
<1> QED BY <1>1, SequentialIn, EmptySeq DEF Level

\* One frame is a sequence of one.
LEMMA Single == ASSUME NEW e PROVE Sequential(<<e>>) /\ Level(<<e>>) = 1 /\ <<e>>[1] = e
<1>1. <<e>> \in Seq({e}) BY SMT
<1>2. Level(<<e>>) = 1 /\ <<e>>[1] = e BY SMT DEF Level
<1>3. Sequential(<<e>>) BY <1>1, SequentialIn
<1> QED BY <1>2, <1>3

\* A frame put into a FIFO comes after what it holds.
LEMMA Appended ==
  ASSUME NEW s, NEW e, Sequential(s)
  PROVE  /\ Sequential(Append(s, e)) /\ Level(Append(s, e)) = Level(s) + 1
         /\ \A i \in 1 .. Level(s) : Append(s, e)[i] = s[i]
         /\ Append(s, e)[Level(s) + 1] = e
<1> DEFINE S == ToSet(s) \cup {e}
<1>1. s \in Seq(S) BY SeqMonotonic DEF Sequential
<1>2. e \in S OBVIOUS
<1> HIDE DEF S
<1>3. Append(s, e) \in Seq(S) BY <1>1, <1>2, AppendProperties
<1>4. Sequential(Append(s, e)) BY <1>3, SequentialIn
<1>5. /\ Len(Append(s, e)) = Len(s) + 1
      /\ \A i \in 1 .. Len(s) + 1 : Append(s, e)[i] = IF i = Len(s) + 1 THEN e ELSE s[i]
  BY <1>1, <1>2, AppendProperties
<1>6. Len(s) \in Nat BY SequentialIs DEF Level
<1> QED BY <1>4, <1>5, <1>6, SMT DEF Level

\* A frame taken out of a FIFO is its first, the others move up.
LEMMA Behead ==
  ASSUME NEW s, Sequential(s), s # <<>>
  PROVE  /\ Sequential(Tail(s)) /\ Level(Tail(s)) = Level(s) - 1 /\ Level(s) >= 1
         /\ \A i \in 1 .. Level(s) - 1 : Tail(s)[i] = s[i + 1]
         /\ Head(s) = s[1]
<1> DEFINE S == ToSet(s)
<1>1. s \in Seq(S) BY DEF Sequential
<1> HIDE DEF S
<1>2. Tail(s) \in Seq(S) /\ Len(Tail(s)) = Len(s) - 1
      /\ \A i \in 1 .. Len(Tail(s)) : Tail(s)[i] = s[i + 1]
  BY <1>1, HeadTailProperties
<1>3. Len(s) \in Nat \ {0} BY <1>1, EmptySeq
<1>4. Head(s) = s[1] BY <1>1, SMT
<1>5. Sequential(Tail(s)) BY <1>2, SequentialIn
<1> QED BY <1>2, <1>3, <1>4, <1>5, SMT DEF Level

Chained(u, s, t) ==
  /\ Sequential(u) /\ Level(u) = Level(s) + Level(t)
  /\ \A i \in 1 .. Level(s) : u[i] = s[i]
  /\ \A i \in 1 .. Level(t) : u[Level(s) + i] = t[i]

\* Two sequences, one after the other.
LEMMA Joined ==
  ASSUME NEW s, NEW t, Sequential(s), Sequential(t)
  PROVE  Chained(s \o t, s, t)
<1> DEFINE S == ToSet(s) \cup ToSet(t)
<1>1. s \in Seq(S) /\ t \in Seq(S) BY SeqMonotonic DEF Sequential
<1> HIDE DEF S
<1>2. /\ s \o t \in Seq(S) /\ Len(s \o t) = Len(s) + Len(t)
      /\ \A i \in 1 .. Len(s) + Len(t) :
           (s \o t)[i] = IF i <= Len(s) THEN s[i] ELSE t[i - Len(s)]
  BY <1>1, ConcatProperties
<1>3. Len(s) \in Nat /\ Len(t) \in Nat BY SequentialIs DEF Level
<1>4. Sequential(s \o t) BY <1>2, SequentialIn
<1> DEFINE u == s \o t
<1> HIDE DEF u
<1>5. Chained(u, s, t) BY <1>2, <1>3, <1>4, SMT DEF Level, Chained, u
<1> QED BY <1>5 DEF u

---------------------------------------------------------------------------
(* The master: what it has sent and received of the transfer it is in.     *)

\* A number below the modulus is its own remainder.
LEMMA Modulo == ASSUME NEW a \in Nat, NEW n \in Nat, a < n PROVE a % n = a
BY SMT

\* The 16-bit sum of the two sizes of a block is their sum, within the assumption.
LEMMA NothingWraps ==
  ASSUME NEW w \in Nat, NEW r \in Nat, w + r < Wrap
  PROVE  TransferSize(w, r) = w + r
<1>1. Wrap \in Nat BY SpiAssumption
<1> QED BY <1>1, Modulo DEF TransferSize

\* The next frame is appended to the FIFO, as long as there is one.
LEMMA NextIsSent ==
  ASSUME NEW x, DOMAIN x = MasterFields, {x.w, x.r, x.txi} \subseteq Nat, x.w + x.r < Wrap
  PROVE  \/ SendNext(x) = x /\ x.txi >= x.w + x.r
         \/ /\ x.txi < x.w + x.r
            /\ \E e : SendNext(x) = [x EXCEPT !.tx = Append(@, e), !.txi = @ + 1,
                                              !.transit = @ + 1]
<1>1. TransferSize(x.w, x.r) = x.w + x.r BY NothingWraps
<1>2. CASE x.txi < x.w
  <2>1. SendNext(x) = [x EXCEPT !.tx = Append(@, Frame(x.base + x.txi + 1)), !.txi = @ + 1,
                                !.transit = @ + 1]
    BY <1>2 DEF SendNext
  <2>2. x.txi < x.w + x.r BY <1>2, SMT
  <2> QED BY <2>1, <2>2
<1>3. CASE ~(x.txi < x.w) /\ x.txi < x.w + x.r
  <2>1. SendNext(x) = [x EXCEPT !.tx = Append(@, Zero), !.txi = @ + 1, !.transit = @ + 1]
    BY <1>1, <1>3 DEF SendNext
  <2> QED BY <2>1, <1>3
<1>4. CASE ~(x.txi < x.w) /\ ~(x.txi < x.w + x.r)
  <2>1. SendNext(x) = x BY <1>1, <1>4 DEF SendNext
  <2>2. x.txi >= x.w + x.r BY <1>4, SMT
  <2> QED BY <2>1, <2>2
<1> QED BY <1>2, <1>3, <1>4

\* What TransferBlock and the turns of its loop keep, of the record that is the
\* master's in the middle of a turn.
Loops(x, n) ==
  /\ DOMAIN x = MasterFields /\ x.pc = "block"
  /\ {x.w, x.r, x.txi, x.xfer, x.transit, x.base, x.left} \subseteq Nat /\ x.ovf = FALSE
  /\ Sequential(x.tx) /\ Sequential(x.rx)
  /\ n + Level(x.tx) = x.base + x.txi /\ x.txi <= x.w + x.r
  /\ x.w + x.r < Wrap /\ x.base + x.w + x.r <= MaxFrames
  /\ x.transit <= InFlight /\ x.transit = Level(x.tx) + Level(x.rx) /\ x.xfer + x.transit = x.txi

\* Sending the next frame keeps the counts of the loop.
LEMMA SendingLoops ==
  ASSUME NEW x, NEW n \in Nat, Loops(x, n), x.transit < InFlight
  PROVE  Loops(SendNext(x), n)
<1>1. CASE SendNext(x) = x BY <1>1
<1>2. CASE /\ x.txi < x.w + x.r
           /\ \E e : SendNext(x) = [x EXCEPT !.tx = Append(@, e), !.txi = @ + 1,
                                             !.transit = @ + 1]
  <2>0. x.txi < x.w + x.r BY <1>2
  <2>1. PICK e : SendNext(x) = [x EXCEPT !.tx = Append(@, e), !.txi = @ + 1, !.transit = @ + 1]
    BY <1>2
  <2> DEFINE y == SendNext(x)
  <2>2. /\ DOMAIN y = MasterFields /\ y.pc = x.pc /\ y.w = x.w /\ y.r = x.r
        /\ y.txi = x.txi + 1 /\ y.xfer = x.xfer /\ y.transit = x.transit + 1
        /\ y.base = x.base /\ y.left = x.left /\ y.ovf = x.ovf
    BY <2>1, SMT DEF Loops
  <2>3. y.tx = Append(x.tx, e) /\ y.rx = x.rx
    BY <2>1, SMT DEF Loops
  <2> HIDE DEF y
  <2>4. /\ Sequential(y.tx) /\ Level(y.tx) = Level(x.tx) + 1 /\ Level(x.tx) \in Nat
        /\ Sequential(y.rx) /\ Level(y.rx) = Level(x.rx) /\ Level(x.rx) \in Nat
    <3>1. Sequential(x.tx) /\ Sequential(x.rx) BY DEF Loops
    <3>2. Sequential(Append(x.tx, e)) /\ Level(Append(x.tx, e)) = Level(x.tx) + 1
      BY <3>1, Appended
    <3>3. Level(x.tx) \in Nat /\ Level(x.rx) \in Nat BY <3>1, SequentialIs
    <3> QED BY <2>3, <3>1, <3>2, <3>3
  <2>5. Loops(y, n) BY <2>0, <2>2, <2>4, Sizes, SMT DEF Loops
  <2> QED BY <2>5 DEF y
<1> QED BY <1>1, <1>2, NextIsSent DEF Loops

\* So does receiving one.
LEMMA ReceivingLoops ==
  ASSUME NEW x, NEW n \in Nat, Loops(x, n)
  PROVE  Loops(Receive(x), n)
<1>1. CASE x.rx = <<>> BY <1>1 DEF Receive
<1>2. CASE x.rx # <<>>
  <2> DEFINE y == Receive(x)
             rd == IF x.xfer >= x.w /\ Len(x.rd) < x.r THEN Append(x.rd, Head(x.rx)) ELSE x.rd
  <2>1. y = [x EXCEPT !.rx = Tail(@), !.xfer = @ + 1, !.transit = @ - 1, !.rd = rd]
    BY <1>2 DEF Receive, Loops
  <2> HIDE DEF rd, y
  <2>2. /\ DOMAIN y = MasterFields /\ y.pc = x.pc /\ y.w = x.w /\ y.r = x.r
        /\ y.txi = x.txi /\ y.xfer = x.xfer + 1 /\ y.transit = x.transit - 1
        /\ y.base = x.base /\ y.left = x.left /\ y.ovf = x.ovf
    BY <2>1, SMT DEF Loops
  <2>3. y.tx = x.tx /\ y.rx = Tail(x.rx)
    BY <2>1, SMT DEF Loops
  <2>4. /\ Sequential(y.tx) /\ Level(y.tx) = Level(x.tx) /\ Level(x.tx) \in Nat
        /\ Sequential(y.rx) /\ Level(y.rx) = Level(x.rx) - 1 /\ Level(x.rx) \in Nat
        /\ Level(x.rx) >= 1
    BY <1>2, <2>3, Behead, SequentialIs DEF Loops
  <2>5. y.transit <= InFlight /\ y.txi <= y.w + y.r BY <2>2, <2>4, Sizes, SMT DEF Loops
  <2>51. y.transit \in Nat /\ y.xfer \in Nat BY <2>2, <2>4, SMT DEF Loops
  <2>52. y.transit = Level(y.tx) + Level(y.rx)  BY <2>2, <2>4, SMT DEF Loops
  <2>53. y.xfer + y.transit = y.txi  BY <2>2, <2>4, SMT DEF Loops
  <2>54.  n + Level(y.tx) = y.base + y.txi  BY <2>2, <2>4, SMT DEF Loops
  <2>6. Loops(y, n) BY <2>2, <2>4, <2>5, <2>51, <2>52, <2>53, <2>54, SMT DEF Loops
  <2> QED BY <2>6 DEF y
<1> QED BY <1>1, <1>2

\* In the loop, its counts are all that the invariant asks.
LEMMA LoopingIsMasterSide ==
  ASSUME MasterTypes, bus.sel, Loops(m', bus.n), UNCHANGED bus
  PROVE  MasterSide'
<1>1. Level(m'.tx) \in Nat /\ Level(m'.rx) \in Nat BY SequentialIs DEF Loops
<1>2. MasterTypes'
  <2>1. Level(m'.tx) <= Depth /\ Level(m'.rx) <= Depth BY <1>1, Sizes, SMT DEF Loops
  <2>2. m'.ovf \in BOOLEAN BY DEF Loops
  <2> QED BY <2>1, <2>2, Zenon DEF MasterTypes, MasterNumbers, Loops
<1>3. Counted' BY <1>1, SMT DEF Counted, Behind, Loops
<1>4. OnTheirWay' BY <1>1, SMT DEF OnTheirWay, Loops
<1> QED BY <1>2, <1>3, <1>4 DEF MasterSide

\* The master is idle, with nothing to send.
LEMMA MasterInit == Init => MasterSide
<1> SUFFICES ASSUME Init PROVE MasterSide
  OBVIOUS
<1>1. MasterTypes BY Empty, Sizes, SMT DEF Init, MInit, MasterTypes, MasterNumbers
<1>2. Counted /\ OnTheirWay BY Empty, SMT DEF Init, MInit, Counted, OnTheirWay
<1> QED BY <1>1, <1>2 DEF MasterSide

\* Every step of either end keeps the counts of the master.
LEMMA MasterStep ==
  ASSUME MasterSide, [Next]_vars
  PROVE  MasterSide'
<1> USE DEF MasterSide
<1>0. /\ Level(m.tx) \in Nat /\ Level(m.rx) \in Nat /\ bus.n \in Nat
      /\ m.tx = <<>> <=> Level(m.tx) = 0
  <2>1. Sequential(m.tx) /\ Sequential(m.rx) /\ bus.n \in 0..MaxFrames
    BY DEF MasterTypes, MasterNumbers
  <2>2. bus.n \in Nat BY <2>1, Sizes, SMT
  <2> QED BY <2>1, <2>2, SequentialIs
<1>01. MasterNumbers /\ m.ovf \in BOOLEAN BY DEF MasterTypes
<1>02. Level(<<>>) = 0 /\ Sequential(<<>>) BY Empty
<1>04. /\ m.w \in Nat /\ m.r \in Nat /\ m.txi \in Nat /\ m.base \in Nat /\ m.left \in Nat
       /\ m.xfer \in Nat /\ m.transit \in Nat
       /\ Level(m.tx) <= Depth /\ Level(m.rx) <= Depth
  BY <1>01 DEF MasterNumbers
<1>05. bus.n <= MaxFrames
  <2>1. bus.n \in 0..MaxFrames BY <1>01 DEF MasterNumbers
  <2> QED BY <2>1, Sizes, SMT
\* A step that leaves the loop, or is not in it.
<1>03. ASSUME MasterNumbers', m'.ovf \in BOOLEAN, Counted', m'.pc # "block"
       PROVE  MasterSide'
  BY <1>03 DEF MasterTypes, OnTheirWay
<1>1. CASE Select
  <2> DEFINE x == MasterRecovered(m)
  <2>1. m' = [x EXCEPT !.pc = "ready", !.on = TRUE, !.left = 1, !.rd = <<>>]
    BY <1>1 DEF Select
  <2>2. x = m \/ x = [m EXCEPT !.tx = <<>>, !.rx = <<>>, !.ovf = FALSE]
    BY <1>01, SMT DEF MasterRecovered, MasterFlushed, MasterNumbers
  <2>3. /\ m.pc = "idle" /\ m.tx = <<>> /\ bus.t < MaxTrans
        /\ bus' = [sel |-> TRUE, n |-> 0, t |-> bus.t + 1]
    BY <1>1 DEF Select, Counted
  <2> HIDE DEF x
  <2>4. /\ DOMAIN x = MasterFields /\ x.tx = <<>> /\ x.ovf \in BOOLEAN
        /\ x.w = m.w /\ x.r = m.r /\ x.txi = m.txi /\ x.xfer = m.xfer
        /\ x.transit = m.transit /\ x.base = m.base
        /\ Sequential(x.rx) /\ Level(x.rx) <= Depth
    <3>1. CASE x = m BY <3>1, <2>3, <1>01 DEF MasterNumbers
    <3>2. CASE x = [m EXCEPT !.tx = <<>>, !.rx = <<>>, !.ovf = FALSE]
      <4>1. /\ DOMAIN x = MasterFields /\ x.tx = <<>> /\ x.rx = <<>> /\ x.ovf = FALSE
            /\ x.w = m.w /\ x.r = m.r /\ x.txi = m.txi /\ x.xfer = m.xfer
            /\ x.transit = m.transit /\ x.base = m.base
        BY <3>2, <1>01, SMT DEF MasterNumbers
      <4>2. Level(x.rx) <= Depth BY <4>1, <1>02, Sizes, SMT
      <4> QED BY <4>1, <4>2, <1>02
    <3> QED BY <2>2, <3>1, <3>2
  <2>5. /\ DOMAIN m' = MasterFields /\ m'.pc = "ready" /\ m'.tx = <<>> /\ m'.left = 1
        /\ m'.w = m.w /\ m'.r = m.r /\ m'.txi = m.txi /\ m'.xfer = m.xfer
        /\ m'.transit = m.transit /\ m'.base = m.base
    BY <2>1, <2>4, SMT
  <2>6. m'.rx = x.rx /\ m'.ovf = x.ovf BY <2>1, <2>4, SMT
  <2>7. MasterNumbers'
    <3>1. Sequential(m'.tx) /\ Level(m'.tx) <= Depth BY <2>5, <1>02, Sizes, SMT
    <3>2. Sequential(m'.rx) /\ Level(m'.rx) <= Depth BY <2>4, <2>6
    <3>3. bus'.sel \in BOOLEAN /\ bus'.n \in 0 .. MaxFrames /\ bus'.t \in 0 .. MaxTrans
      BY <2>3, <1>01, Sizes, SMT DEF MasterNumbers
    <3>4. {m'.w, m'.r, m'.txi, m'.xfer, m'.transit, m'.base, m'.left} \subseteq Nat
      BY <2>5, <1>01, SMT DEF MasterNumbers
    <3>5. DOMAIN bus' = {"sel", "n", "t"} BY <2>3
    <3> QED BY <2>5, <3>1, <3>2, <3>3, <3>4, <3>5, Zenon DEF MasterNumbers
  <2>8. Counted' BY <2>3, <2>5, SMT DEF Counted
  <2> QED BY <1>03, <2>4, <2>5, <2>6, <2>7, <2>8
<1>2. CASE Deselect
  <2> DEFINE x == MasterRecovered(m)
  <2>1. m' = [x EXCEPT !.pc = "idle"]
    BY <1>2 DEF Deselect
  <2>2. x = m \/ x = [m EXCEPT !.tx = <<>>, !.rx = <<>>, !.ovf = FALSE]
    BY <1>01, SMT DEF MasterRecovered, MasterFlushed, MasterNumbers
  <2>3. m.pc = "ready" /\ m.tx = <<>> /\ bus' = [bus EXCEPT !.sel = FALSE]
    BY <1>2 DEF Deselect, Counted
  <2> HIDE DEF x
  <2>4. /\ DOMAIN x = MasterFields /\ x.tx = <<>> /\ x.ovf \in BOOLEAN
        /\ x.w = m.w /\ x.r = m.r /\ x.txi = m.txi /\ x.xfer = m.xfer
        /\ x.transit = m.transit /\ x.base = m.base /\ x.left = m.left
        /\ Sequential(x.rx) /\ Level(x.rx) <= Depth
    <3>1. CASE x = m BY <3>1, <2>3, <1>01 DEF MasterNumbers
    <3>2. CASE x = [m EXCEPT !.tx = <<>>, !.rx = <<>>, !.ovf = FALSE]
      <4>1. /\ DOMAIN x = MasterFields /\ x.tx = <<>> /\ x.rx = <<>> /\ x.ovf = FALSE
            /\ x.w = m.w /\ x.r = m.r /\ x.txi = m.txi /\ x.xfer = m.xfer
            /\ x.transit = m.transit /\ x.base = m.base /\ x.left = m.left
        BY <3>2, <1>01, SMT DEF MasterNumbers
      <4>2. Level(x.rx) <= Depth BY <4>1, <1>02, Sizes, SMT
      <4> QED BY <4>1, <4>2, <1>02
    <3> QED BY <2>2, <3>1, <3>2
  <2>5. /\ DOMAIN m' = MasterFields /\ m'.pc = "idle" /\ m'.tx = <<>> /\ m'.left = m.left
        /\ m'.w = m.w /\ m'.r = m.r /\ m'.txi = m.txi /\ m'.xfer = m.xfer
        /\ m'.transit = m.transit /\ m'.base = m.base
    BY <2>1, <2>4, SMT
  <2>6. m'.rx = x.rx /\ m'.ovf = x.ovf BY <2>1, <2>4, SMT
  <2>7. MasterNumbers'
    <3>1. Sequential(m'.tx) /\ Level(m'.tx) <= Depth BY <2>5, <1>02, Sizes, SMT
    <3>2. Sequential(m'.rx) /\ Level(m'.rx) <= Depth BY <2>4, <2>6
    <3>3. bus'.sel \in BOOLEAN /\ bus'.n \in 0 .. MaxFrames /\ bus'.t \in 0 .. MaxTrans
      BY <2>3, <1>01, Sizes, SMT DEF MasterNumbers
    <3>4. {m'.w, m'.r, m'.txi, m'.xfer, m'.transit, m'.base, m'.left} \subseteq Nat
      BY <2>5, <1>01, SMT DEF MasterNumbers
    <3>5. DOMAIN bus' = {"sel", "n", "t"} BY <2>3, <1>01 DEF MasterNumbers
    <3> QED BY <2>5, <3>1, <3>2, <3>3, <3>4, <3>5, Zenon DEF MasterNumbers
  <2>8. Counted' BY <2>3, <2>5, <1>01, SMT DEF Counted, MasterNumbers
  <2> QED BY <1>03, <2>4, <2>5, <2>6, <2>7, <2>8
<1>3. CASE TransferBlock
  <2>1. PICK b \in Blocks :
          /\ m.pc = "ready" /\ bus.n + b.w + b.r <= MaxFrames /\ UNCHANGED bus
          /\ m' = LET size == TransferSize(b.w, b.r)
                      x == MasterRecovered(MasterFlushed(m))
                  IN SendNext([x EXCEPT !.pc = "block", !.w = b.w, !.r = b.r, !.txi = 0,
                                        !.xfer = 0, !.transit = 0, !.rd = <<>>,
                                        !.base = bus.n,
                                        !.left = IF size = 0 THEN 1 ELSE size, !.on = TRUE])
    BY <1>3 DEF TransferBlock
  <2>2. b.w \in Nat /\ b.r \in Nat /\ b.w + b.r < Wrap BY SpiAssumption
  <2>3. TransferSize(b.w, b.r) = b.w + b.r BY <2>2, NothingWraps
  <2> DEFINE f == MasterFlushed(m)
             x == MasterRecovered(f)
             left == IF b.w + b.r = 0 THEN 1 ELSE b.w + b.r
             y == [x EXCEPT !.pc = "block", !.w = b.w, !.r = b.r, !.txi = 0,
                            !.xfer = 0, !.transit = 0, !.rd = <<>>,
                            !.base = bus.n, !.left = left, !.on = TRUE]
  <2>4. m' = SendNext(y) BY <2>1, <2>3
  <2>5. DOMAIN x = MasterFields /\ x.tx = <<>> /\ x.rx = <<>> /\ x.ovf = FALSE
    <3>1. DOMAIN f = MasterFields /\ f.tx = <<>> /\ f.rx = <<>> /\ f.ovf \in BOOLEAN
      BY <1>01 DEF MasterFlushed, MasterNumbers
    <3> HIDE DEF f
    <3>2. CASE f.ovf = FALSE BY <3>1, <3>2 DEF MasterRecovered
    <3>3. CASE f.ovf = TRUE BY <3>1, <3>3 DEF MasterRecovered, MasterFlushed
    <3> QED BY <3>1, <3>2, <3>3
  <2>6. left \in Nat BY <2>2, SMT
  <2> HIDE DEF f, x, left
  <2>7. /\ DOMAIN y = MasterFields /\ y.pc = "block" /\ y.w = b.w /\ y.r = b.r /\ y.txi = 0
        /\ y.xfer = 0 /\ y.transit = 0 /\ y.base = bus.n /\ y.left = left
    BY <2>5, Zenon
  <2>71. y.tx = <<>> /\ y.rx = <<>> /\ y.ovf = FALSE
    BY <2>5, Zenon
  <2> HIDE DEF y
  <2>8. Loops(y, bus.n)
    <3>1. Sequential(y.tx) /\ Sequential(y.rx) /\ Level(y.tx) = 0 /\ Level(y.rx) = 0
      BY <2>71, <1>02
    <3>2. bus.n + 0 = y.base + y.txi /\ y.xfer + y.transit = y.txi
          /\ y.transit = Level(y.tx) + Level(y.rx)
      BY <2>7, <3>1, <1>0, SMT
    <3>3. y.txi <= y.w + y.r /\ y.transit <= InFlight BY <2>2, <2>7, Sizes, SMT
    <3>4. y.base + y.w + y.r <= MaxFrames BY <2>1, <2>7
    <3>5. {y.w, y.r, y.txi, y.xfer, y.transit, y.base, y.left} \subseteq Nat
      BY <2>2, <2>6, <2>7, <1>0
    <3>6. y.w + y.r < Wrap BY <2>2, <2>7
    <3> QED BY <2>7, <2>71, <3>1, <3>2, <3>3, <3>4, <3>5, <3>6 DEF Loops
  <2>9. y.transit < InFlight BY <2>7, Sizes, SMT
  <2>10. Loops(m', bus.n) BY <2>4, <2>8, <2>9, <1>0, SendingLoops
  <2> QED BY <2>1, <2>10, LoopingIsMasterSide DEF Counted
<1>4. CASE BlockTurn
  <2>1. m.pc = "block" /\ bus.sel /\ UNCHANGED bus BY <1>4 DEF BlockTurn, Counted
  <2>2. Loops(m, bus.n)
    BY <2>1, <1>0, SMT DEF Loops, MasterTypes, MasterNumbers, Counted, Behind, OnTheirWay
  <2>3. TransferSize(m.w, m.r) = m.w + m.r BY <2>2, NothingWraps DEF Loops
  <2>4. CASE m.xfer < m.w + m.r
    <3>1. Loops(Receive(m), bus.n) BY <2>2, <1>0, ReceivingLoops
    <3>2. m' = Receive(m) \/ (MayBeSent(Receive(m)) /\ m' = SendNext(Receive(m)))
      BY <2>1, <2>3, <2>4, <1>4 DEF BlockTurn
    <3>3. Loops(m', bus.n) BY <3>1, <3>2, <1>0, SendingLoops DEF MayBeSent
    <3> QED BY <2>1, <3>3, LoopingIsMasterSide
  <2>5. CASE ~(m.xfer < m.w + m.r)
    <3>1. m' = [m EXCEPT !.pc = "ready"] BY <2>1, <2>3, <2>5, <1>4 DEF BlockTurn
    <3>2. Level(m.tx) = 0
      <4>1. /\ m.txi \in Nat /\ m.transit = Level(m.tx) + Level(m.rx) /\ m.w \in Nat
            /\ m.xfer + m.transit = m.txi /\ m.txi <= m.w + m.r /\ m.r \in Nat
            /\ m.xfer \in Nat
        BY <2>2 DEF Loops
      <4> QED BY <4>1, <2>5, <1>0, <1>04, SMT
    <3>3. MasterNumbers'
      <4>1. /\ DOMAIN m' = MasterFields /\ m'.pc = "ready" /\ m'.left = m.left
            /\ m'.w = m.w /\ m'.r = m.r /\ m'.txi = m.txi /\ m'.xfer = m.xfer
            /\ m'.transit = m.transit /\ m'.base = m.base /\ m'.tx = m.tx /\ m'.rx = m.rx
        BY <3>1, <1>01, SMT DEF MasterNumbers
      <4> QED BY <2>1, <4>1, <1>01, ZenonT(30) DEF MasterNumbers
    <3>4. m'.ovf = m.ovf /\ m'.pc = "ready" BY <3>1, <1>01, SMT DEF MasterNumbers
    <3>5. Counted' BY <2>1, <3>1, <3>2, <1>0, <1>01, SMT DEF MasterNumbers, Counted
    <3> QED BY <1>03, <1>01, <3>3, <3>4, <3>5
  <2> QED BY <2>4, <2>5
<1>5. CASE TransferFrame
  <2> DEFINE tx == <<Frame(bus.n + 1)>>
  <2>1. /\ m.pc = "ready" /\ bus.n < MaxFrames /\ UNCHANGED bus
        /\ m' = [MasterFlushed(m) EXCEPT !.pc = "txdone", !.left = 1,
                   !.tx = tx, !.base = bus.n, !.w = 0, !.rd = <<>>]
    BY <1>5 DEF TransferFrame
  <2>2. Sequential(tx) /\ Level(tx) = 1 BY Single
  <2> HIDE DEF tx
  <2>3. /\ DOMAIN m' = MasterFields /\ m'.pc = "txdone" /\ m'.left = 1
        /\ m'.base = bus.n /\ m'.w = 0
        /\ m'.r = m.r /\ m'.txi = m.txi /\ m'.xfer = m.xfer /\ m'.transit = m.transit
    BY <2>1, <1>01, SMT DEF MasterFlushed, MasterNumbers
  <2>4. m'.tx = tx /\ m'.rx = <<>> /\ m'.ovf = m.ovf
    BY <2>1, <1>01, SMT DEF MasterFlushed, MasterNumbers
  <2>5. /\ Sequential(m'.tx) /\ Level(m'.tx) = 1 /\ Sequential(m'.rx) /\ Level(m'.rx) = 0
    BY <2>2, <2>4, <1>02
  <2>6. MasterNumbers'
    <3>1. Level(m'.tx) <= Depth /\ Level(m'.rx) <= Depth BY <2>5, Sizes, SMT
    <3> QED BY <2>1, <2>3, <2>5, <3>1, <1>0, <1>01 DEF MasterNumbers
  <2>7. Counted'
    <3>1. bus.n + 1 <= MaxFrames BY <2>1, <1>0, Sizes, SMT
    <3>2. bus'.n + m'.left <= MaxFrames /\ m'.left = Level(m'.tx) BY <3>1, <2>1, <2>3, <2>5
    <3>3. bus'.sel BY <2>1 DEF Counted
    <3> QED BY <2>3, <3>2, <3>3 DEF Counted
  <2> QED BY <1>03, <1>01, <2>3, <2>4, <2>6, <2>7
<1>6. CASE TxDone
  <2>1. m' = [m EXCEPT !.pc = "rxready"] /\ UNCHANGED bus /\ m.pc = "txdone" /\ m.left = 0
    BY <1>6 DEF TxDone
  <2>2. m'.ovf = m.ovf /\ m'.pc = "rxready" BY <2>1, <1>01, SMT DEF MasterNumbers
  <2>3. MasterNumbers' BY <2>1, <1>01, SMT DEF MasterNumbers
  <2>4. Counted' BY <2>1, <1>0, <1>01, SMT DEF MasterNumbers, Counted
  <2> QED BY <1>03, <1>01, <2>2, <2>3, <2>4
<1>7. CASE RxReady
  <2>1. /\ m' = [m EXCEPT !.pc = "ready", !.rd = <<Head(m.rx)>>, !.rx = Tail(@)]
        /\ UNCHANGED bus /\ m.pc = "rxready" /\ m.rx # <<>>
    BY <1>7 DEF RxReady
  <2>2. Sequential(Tail(m.rx)) /\ Level(Tail(m.rx)) = Level(m.rx) - 1
    BY <2>1, <1>01, Behead DEF MasterNumbers
  <2>3. /\ DOMAIN m' = MasterFields /\ m'.pc = "ready" /\ m'.tx = m.tx /\ m'.left = m.left
        /\ m'.w = m.w /\ m'.r = m.r /\ m'.txi = m.txi /\ m'.xfer = m.xfer
        /\ m'.transit = m.transit /\ m'.base = m.base
    BY <2>1, <1>01, SMT DEF MasterNumbers
  <2>4. m'.rx = Tail(m.rx) /\ m'.ovf = m.ovf BY <2>1, <1>01, SMT DEF MasterNumbers
  <2>5. Sequential(m'.rx) /\ Level(m'.rx) = Level(m.rx) - 1 BY <2>2, <2>4
  <2>6. MasterNumbers'
    <3>1. Level(m'.rx) <= Depth BY <2>5, <1>0, <1>04, Sizes, SMT
    <3> QED BY <2>1, <2>3, <2>5, <3>1, <1>01 DEF MasterNumbers
  <2>7. Counted' BY <2>1, <2>3, <1>0, <1>01, SMT DEF MasterNumbers, Counted
  <2> QED BY <1>03, <1>01, <2>3, <2>4, <2>6, <2>7
<1>8. CASE Disable
  <2>1. /\ m' = [m EXCEPT !.pc = "disabled", !.on = FALSE, !.rd = <<>>] /\ UNCHANGED bus
        /\ m.pc = "ready"
    BY <1>8 DEF Disable
  <2>2. m'.ovf = m.ovf /\ m'.pc = "disabled" BY <2>1, <1>01, SMT DEF MasterNumbers
  <2>3. MasterNumbers' BY <2>1, <1>01, SMT DEF MasterNumbers
  <2>4. Counted' BY <2>1, <1>0, <1>01, SMT DEF MasterNumbers, Counted
  <2> QED BY <1>03, <1>01, <2>2, <2>3, <2>4
<1>9. CASE SetTransferByteCount
  <2>1. PICK n \in DmaSizes :
          /\ m.pc = "disabled" /\ bus.n + n <= MaxFrames /\ UNCHANGED bus
          /\ m' = [m EXCEPT !.pc = "started", !.left = n, !.on = TRUE, !.txi = 0, !.w = n,
                            !.r = 0, !.base = bus.n]
    BY <1>9 DEF SetTransferByteCount
  <2>2. n \in Nat BY Sizes
  <2>3. /\ DOMAIN m' = MasterFields /\ m'.pc = "started" /\ m'.tx = m.tx /\ m'.left = n
        /\ m'.w = n /\ m'.r = 0 /\ m'.txi = 0 /\ m'.xfer = m.xfer
        /\ m'.transit = m.transit /\ m'.base = bus.n
    BY <2>1, <1>01, SMT DEF MasterNumbers
  <2>4. m'.rx = m.rx /\ m'.ovf = m.ovf BY <2>1, <1>01, SMT DEF MasterNumbers
  <2>5. MasterNumbers' BY <2>1, <2>2, <2>3, <2>4, <1>0, <1>01, SMT DEF MasterNumbers
  <2>6. Counted' BY <2>1, <2>2, <2>3, <1>0, <1>01, SMT DEF MasterNumbers, Counted, Behind
  <2> QED BY <1>03, <1>01, <2>3, <2>4, <2>5, <2>6
<1>10. CASE DmaMoves
  <2> DEFINE tx == Append(m.tx, Frame(m.base + m.txi + 1))
  <2>1. /\ m' = [m EXCEPT !.tx = tx, !.txi = @ + 1] /\ UNCHANGED bus
        /\ m.pc \in {"started", "dma"} /\ m.txi < m.w /\ Level(m.tx) < Depth
    BY <1>10 DEF DmaMoves, Level
  <2>2. Sequential(tx) /\ Level(tx) = Level(m.tx) + 1
    BY <1>01, Appended DEF MasterNumbers
  <2> HIDE DEF tx
  <2>3. /\ DOMAIN m' = MasterFields /\ m'.pc = m.pc /\ m'.left = m.left
        /\ m'.w = m.w /\ m'.r = m.r /\ m'.txi = m.txi + 1 /\ m'.xfer = m.xfer
        /\ m'.transit = m.transit /\ m'.base = m.base
    BY <2>1, <1>01, SMT DEF MasterNumbers
  <2>4. m'.tx = tx /\ m'.rx = m.rx /\ m'.ovf = m.ovf BY <2>1, <1>01, SMT DEF MasterNumbers
  <2>5. Sequential(m'.tx) /\ Level(m'.tx) = Level(m.tx) + 1 BY <2>2, <2>4
  <2>6. MasterNumbers'
    <3>1. Level(m'.tx) <= Depth BY <2>1, <2>5, <1>0, Sizes, SMT
    <3>2. m'.txi \in Nat BY <2>3, <1>04, SMT
    <3> QED BY <2>1, <2>3, <2>4, <2>5, <3>1, <3>2, <1>01 DEF MasterNumbers
  <2>7. Counted'
    <3>1. bus.n + Level(m.tx) = m.base + m.txi /\ m.base + m.w <= MaxFrames /\ bus.sel
          /\ m.left + bus.n = m.base + m.w
      BY <2>1 DEF Counted, Behind
    <3>2. Behind'
      <4>1. bus'.n = bus.n BY <2>1
      <4>2. m.base \in Nat /\ m.txi \in Nat /\ bus.n \in Nat /\ Level(m.tx) \in Nat
        BY <1>0, <1>04
      <4>21. bus.n + Level(m.tx) = m.base + m.txi BY <3>1
      <4>3. bus.n + (Level(m.tx) + 1) = m.base + (m.txi + 1) BY <4>2, <4>21, SMT
      <4> QED BY <2>3, <2>5, <4>1, <4>3 DEF Behind
    <3>3. m'.txi <= m'.w BY <2>1, <2>3, <1>01, SMT DEF MasterNumbers
    <3> QED BY <2>1, <2>3, <3>1, <3>2, <3>3 DEF Counted
  <2> QED BY <1>03, <1>01, <2>1, <2>3, <2>4, <2>6, <2>7
<1>11. CASE Enable
  <2>1. m' = [m EXCEPT !.pc = "dma", !.on = TRUE] /\ UNCHANGED bus /\ m.pc = "started"
    BY <1>11 DEF Enable
  <2>2. m'.ovf = m.ovf /\ m'.pc = "dma" BY <2>1, <1>01, SMT DEF MasterNumbers
  <2>3. MasterNumbers' BY <2>1, <1>01, SMT DEF MasterNumbers
  <2>4. Counted' BY <2>1, <1>0, <1>01, SMT DEF MasterNumbers, Counted, Behind
  <2> QED BY <1>03, <1>01, <2>2, <2>3, <2>4
<1>12. CASE DmaDone
  <2>1. m' = [m EXCEPT !.pc = "ready"] /\ UNCHANGED bus /\ m.pc = "dma" /\ m.left = 0
    BY <1>12 DEF DmaDone
  <2>2. m'.ovf = m.ovf /\ m'.pc = "ready" BY <2>1, <1>01, SMT DEF MasterNumbers
  <2>3. MasterNumbers' BY <2>1, <1>01, SMT DEF MasterNumbers
  <2>4. Level(m.tx) = 0 BY <2>1, <1>0, <1>01, SMT DEF MasterNumbers, Counted, Behind
  <2>5. Counted' BY <2>1, <2>4, <1>0, <1>01, SMT DEF MasterNumbers, Counted
  <2> QED BY <1>03, <1>01, <2>2, <2>3, <2>5
<1>13. CASE Shift
  <2>1. PICK in :
          m' = [m EXCEPT !.tx = Tail(@), !.left = Less(@, 1),
                         !.rx = IF Len(@) < Depth THEN Append(@, in) ELSE @,
                         !.ovf = @ \/ Len(m.rx) = Depth]
    BY <1>13 DEF Shift
  <2>2. bus.sel /\ m.tx # <<>> /\ bus' = [bus EXCEPT !.n = @ + 1] BY <1>13 DEF Shift
  <2> DEFINE rx == IF Level(m.rx) < Depth THEN Append(m.rx, in) ELSE m.rx
             left == Less(m.left, 1)
             ovf == m.ovf \/ Level(m.rx) = Depth
  <2>3. m' = [m EXCEPT !.tx = Tail(@), !.left = left, !.rx = rx, !.ovf = ovf]
    BY <2>1 DEF Level
  <2>4. /\ Sequential(Tail(m.tx)) /\ Level(Tail(m.tx)) = Level(m.tx) - 1 /\ Level(m.tx) >= 1
    BY <2>2, <1>01, Behead DEF MasterNumbers
  <2>5. /\ Sequential(rx) /\ Level(rx) \in Nat /\ Level(rx) <= Depth
        /\ Level(m.rx) < Depth => Level(rx) = Level(m.rx) + 1
    <3>1. Sequential(Append(m.rx, in)) /\ Level(Append(m.rx, in)) = Level(m.rx) + 1
      BY <1>01, Appended DEF MasterNumbers
    <3>2. CASE Level(m.rx) < Depth BY <3>1, <3>2, <1>0, Sizes, SMT
    <3>3. CASE ~(Level(m.rx) < Depth) BY <3>3, <1>0, <1>01 DEF MasterNumbers
    <3> QED BY <3>2, <3>3
  <2>6. left \in Nat /\ (m.left >= 1 => left = m.left - 1)
    BY <1>01, SMT DEF Less, MasterNumbers
  <2>7. ovf \in BOOLEAN /\ (~m.ovf /\ Level(m.rx) # Depth => ~ovf) BY <1>01
  <2> HIDE DEF rx, left, ovf
  <2>8. /\ DOMAIN m' = MasterFields /\ m'.pc = m.pc /\ m'.w = m.w /\ m'.r = m.r
        /\ m'.txi = m.txi /\ m'.xfer = m.xfer /\ m'.transit = m.transit /\ m'.base = m.base
        /\ m'.left = left
    BY <2>3, <1>01, SMT DEF MasterNumbers
  <2>9. m'.tx = Tail(m.tx) /\ m'.rx = rx /\ m'.ovf = ovf
    BY <2>3, <1>01, SMT DEF MasterNumbers
  <2>10. /\ Sequential(m'.tx) /\ Level(m'.tx) = Level(m.tx) - 1
         /\ Sequential(m'.rx) /\ Level(m'.rx) \in Nat /\ Level(m'.rx) <= Depth
         /\ Level(m.rx) < Depth => Level(m'.rx) = Level(m.rx) + 1
    BY <2>4, <2>5, <2>9
  <2>11. /\ DOMAIN bus' = {"sel", "n", "t"} /\ bus'.n = bus.n + 1 /\ bus'.t = bus.t
         /\ bus'.sel = bus.sel
    <3>1. DOMAIN bus = {"sel", "n", "t"} BY <1>01 DEF MasterNumbers
    <3> QED BY <2>2, <3>1, Zenon
  <2>12. bus'.n <= MaxFrames /\ m.pc \notin {"idle", "ready", "rxready", "disabled"}
    <3>1. m.pc \notin {"idle", "ready", "rxready", "disabled"} BY <2>2 DEF Counted
    <3>2. ASSUME m.pc = "txdone" PROVE bus.n + 1 <= MaxFrames
      <4>1. m.left = Level(m.tx) /\ bus.n + m.left <= MaxFrames BY <3>2 DEF Counted
      <4> QED BY <4>1, <2>4, <1>0, <1>04, Sizes, SMT
    <3>3. ASSUME m.pc \in {"started", "dma"} PROVE bus.n + 1 <= MaxFrames
      <4>1. /\ bus.n + Level(m.tx) = m.base + m.txi /\ m.txi <= m.w
            /\ m.base + m.w <= MaxFrames
        BY <3>3 DEF Counted, Behind
      <4> QED BY <4>1, <2>4, <1>0, <1>04, RoomForOne, Zenon
    <3>4. ASSUME m.pc = "block" PROVE bus.n + 1 <= MaxFrames
      <4>1. /\ bus.n + Level(m.tx) = m.base + m.txi /\ m.txi <= m.w + m.r
            /\ m.base + m.w + m.r <= MaxFrames
        BY <3>4 DEF Counted, Behind
      <4>2. m.w + m.r \in Nat /\ m.base + (m.w + m.r) <= MaxFrames
        BY <4>1, <1>04, Sizes, SMT
      <4> QED BY <4>1, <4>2, <2>4, <1>0, <1>04, RoomForOne, Zenon
    <3>5. bus.n + 1 <= MaxFrames BY <3>1, <3>2, <3>3, <3>4, <1>01 DEF MasterNumbers
    <3> QED BY <3>1, <3>5, <2>11
  <2>13. MasterNumbers'
    <3>1. bus'.n \in 0 .. MaxFrames BY <2>11, <2>12, <1>0, Sizes, SMT
    <3>2. Level(m'.tx) <= Depth BY <2>10, <1>0, <1>04, Sizes, SMT
    <3> QED BY <2>6, <2>8, <2>10, <2>11, <3>1, <3>2, <1>01 DEF MasterNumbers
  <2>14. Counted'
    <3>1. CASE m.pc = "txdone"
      BY <3>1, <2>2, <2>4, <2>6, <2>8, <2>10, <2>11, <1>0, <1>01, SMT DEF MasterNumbers, Counted
    <3>2. CASE m.pc \in {"started", "dma"}
      <4>1. /\ bus.n + Level(m.tx) = m.base + m.txi /\ m.txi <= m.w
            /\ m.left + bus.n = m.base + m.w /\ m.base + m.w <= MaxFrames
        BY <3>2 DEF Counted, Behind
      <4>2. Behind' BY <4>1, <2>4, <2>8, <2>10, <2>11, <1>0, <1>01, SMT DEF MasterNumbers, Behind
      <4>3. m.left >= 1 BY <4>1, <2>4, <1>0, <1>04, SMT
      <4>4. m'.left + bus'.n = m'.base + m'.w
        BY <4>1, <4>3, <2>6, <2>8, <2>11, <1>0, <1>01, SMT DEF MasterNumbers
      <4> QED BY <3>2, <4>1, <4>2, <4>4, <2>2, <2>8, <2>11 DEF Counted
    <3>3. CASE m.pc = "block"
      BY <3>3, <2>2, <2>4, <2>6, <2>8, <2>10, <2>11, <1>0, <1>01, SMT
         DEF MasterNumbers, Counted, Behind
    <3> QED BY <2>12, <3>1, <3>2, <3>3, <1>01 DEF MasterNumbers
  <2>15. OnTheirWay'
    <3>1. CASE m.pc = "block"
      <4>1. /\ m.transit <= InFlight /\ m.transit = Level(m.tx) + Level(m.rx)
            /\ m.xfer + m.transit = m.txi /\ ~m.ovf
        BY <3>1 DEF OnTheirWay
      <4>2. Level(m.rx) < Depth BY <4>1, <2>4, <1>0, <1>04, Sizes, SMT
      <4>3. ~m'.ovf BY <4>1, <4>2, <2>7, <2>9, <1>0, Sizes, SMT
      <4>4. m'.transit = Level(m'.tx) + Level(m'.rx)
        BY <4>1, <4>2, <2>8, <2>10, <1>0, SMT
      <4> QED BY <4>1, <4>3, <4>4, <2>8 DEF OnTheirWay
    <3>2. CASE m.pc # "block" BY <3>2, <2>8 DEF OnTheirWay
    <3> QED BY <3>1, <3>2
  <2> QED BY <2>7, <2>9, <2>13, <2>14, <2>15 DEF MasterTypes
<1>14. CASE UNCHANGED <<m, bus>>
  BY <1>14 DEF MasterTypes, MasterNumbers, Counted, Behind, OnTheirWay
<1>15. Slave \/ Isr \/ UNCHANGED vars => UNCHANGED <<m, bus>>
  BY DEF Slave, SlaveBlock, SlaveCmd, SlaveFrameRx, SlaveFrameTx, Settles, Isr, IsrStarts,
         IsrSkips, IsrServes, IsrClears, vars
<1> QED
  BY <1>1, <1>2, <1>3, <1>4, <1>5, <1>6, <1>7, <1>8, <1>9, <1>10, <1>11, <1>12, <1>13,
<1>14, <1>15 DEF Next, Master, Dma

\* The counts of the master are an invariant.
LEMMA MasterSideHolds == Spec => []MasterSide
BY MasterInit, MasterStep, PTL DEF Spec

\* However long the loop of MSS_SPI_transfer_block is interrupted, its receiver never
\* overruns, and every frame it waits for is on its way.
THEOREM InTransitHolds == Spec => []InTransit
<1>1. MasterSide => InTransit
  <2> SUFFICES ASSUME MasterSide, m.pc = "block" PROVE InTransit
    BY DEF InTransit
  <2>1. Loops(m, bus.n)
    <3>1. bus.n \in Nat BY Sizes, SMT DEF MasterSide, MasterTypes, MasterNumbers
    <3> QED BY <3>1, SMT
        DEF Loops, MasterSide, MasterTypes, MasterNumbers, Counted, Behind, OnTheirWay
  <2>2. TransferSize(m.w, m.r) = m.w + m.r BY <2>1, NothingWraps DEF Loops
  <2>3. Level(m.tx) \in Nat /\ Level(m.rx) \in Nat BY <2>1, SequentialIs DEF Loops
  <2>4. m.txi > m.xfer \/ (Level(m.tx) < Depth /\ m.transit < InFlight)
    <3>1. /\ {m.txi, m.xfer, m.transit} \subseteq Nat /\ m.xfer + m.transit = m.txi
          /\ m.transit = Level(m.tx) + Level(m.rx)
      BY <2>1 DEF Loops
    <3> QED BY <3>1, <2>3, Sizes, SMT
  <2>5. m.txi > m.xfer \/ MayBeSent(m) BY <2>4 DEF MayBeSent, Level
  <2> QED BY <2>1, <2>5 DEF InTransit, Loops, Level
<1> QED BY <1>1, MasterSideHolds, PTL

---------------------------------------------------------------------------
(* The slave: what its calls and handlers do to the driver and the hardware. *)

\* A buffer written out from its first element to its last.
LEMMA Made ==
  ASSUME NEW s, NEW n \in Nat, s = [i \in 1..n |-> s[i]]
  PROVE  Sequential(s) /\ Level(s) = n
<1>1. s \in [1..n -> ToSet(s)] BY DEF ToSet
<1>2. s \in Seq(ToSet(s)) BY <1>1, SeqDef
<1>3. Len(s) = n BY <1>1, <1>2, LenProperties, SMT
<1> QED BY <1>2, <1>3 DEF Sequential, Level

SameModes(x, y) ==
  /\ y.d.mode = x.d.mode /\ y.d.blockHandler = x.d.blockHandler
  /\ y.d.cmdHandler = x.d.cmdHandler /\ y.d.frameHandler = x.d.frameHandler
  /\ y.h.lim = x.h.lim /\ y.h.cnt \in {x.h.cnt, 0}
SameTaken(x, y) == y.d.rxIdx = x.d.rxIdx /\ y.d.rx = x.d.rx /\ y.h.rx = x.h.rx
SameIrqs(x, y) == y.h.ris = x.h.ris /\ y.h.en = x.h.en

\* fill_slave_tx_fifo never writes more than there is room for.
LEMMA FillDoes ==
  ASSUME NEW x, SlaveTypes(x)
  PROVE  LET y == Fill(x)
         IN /\ SlaveTypes(y) /\ SameModes(x, y) /\ SameTaken(x, y) /\ SameIrqs(x, y)
            /\ y.d.txSize = x.d.txSize
            /\ x.d.txSize = 0 /\ x.d.respSize = 0 /\ ~x.d.cmdDone =>
                 Level(y.h.tx) = Level(x.h.tx)
<1> DEFINE room == Depth - Len(x.h.tx)
           a == Least(room, Less(x.d.txSize, x.d.txIdx))
           b == IF x.d.txIdx + a >= x.d.txSize
                  THEN Least(room - a, x.d.respSize - x.d.respIdx) ELSE 0
           z == IF /\ x.d.cmdDone
                   /\ x.d.txIdx + a >= x.d.txSize
                   /\ x.d.respIdx + b >= x.d.respSize THEN room - a - b ELSE 0
           sa == [i \in 1..a |-> <<"tx", x.d.txIdx + i>>]
           sb == [i \in 1..b |-> <<"resp", x.d.resp, x.d.respIdx + i>>]
           sz == [i \in 1..z |-> Zero]
           t == x.h.tx \o sa \o sb \o sz
           y == Fill(x)
<1>1. y = [d |-> [x.d EXCEPT !.txIdx = @ + a, !.respIdx = @ + b],
           h |-> [x.h EXCEPT !.tx = t]]
  BY DEF Fill
<1>2. room \in Nat /\ room + Level(x.h.tx) = Depth /\ Level(x.h.tx) \in Nat
  <2>1. Level(x.h.tx) \in Nat /\ Level(x.h.tx) <= Depth
    BY SequentialIs DEF SlaveTypes, SlaveNumbers
  <2> QED BY <2>1, Sizes, SMT DEF Level
<1>3. {x.d.txSize, x.d.txIdx, x.d.respSize, x.d.respIdx} \subseteq Nat
      /\ x.d.respIdx <= x.d.respSize
  BY DEF SlaveTypes, SlaveNumbers
<1> HIDE DEF room
<1>4. a \in Nat /\ a <= room BY <1>2, <1>3, SMT DEF Least, Less
<1> HIDE DEF a
<1>5. b \in Nat /\ a + b <= room /\ x.d.respIdx + b <= x.d.respSize
  BY <1>2, <1>3, <1>4, SMT DEF Least
<1> HIDE DEF b
<1>6. z \in Nat /\ a + b + z <= room
  BY <1>2, <1>4, <1>5, SMT
<1> HIDE DEF z
<1>7. Sequential(sa) /\ Level(sa) = a BY <1>4, Made
<1>8. Sequential(sb) /\ Level(sb) = b BY <1>5, Made
<1>9. Sequential(sz) /\ Level(sz) = z BY <1>6, Made
<1> HIDE DEF sa, sb, sz
<1>10. Sequential(t) /\ Level(t) = ((Level(x.h.tx) + a) + b) + z
  <2>1. Sequential(x.h.tx) BY DEF SlaveTypes, SlaveNumbers
  <2>2. Sequential(x.h.tx \o sa) /\ Level(x.h.tx \o sa) = Level(x.h.tx) + a
    BY <2>1, <1>7, Joined DEF Chained
  <2>3. /\ Sequential(x.h.tx \o sa \o sb)
        /\ Level(x.h.tx \o sa \o sb) = Level(x.h.tx) + a + b
    BY <2>2, <1>8, Joined DEF Chained
  <2> QED BY <2>3, <1>9, Joined DEF Chained
<1>11. Level(t) <= Depth BY <1>2, <1>4, <1>5, <1>6, <1>10, SMT
<1> HIDE DEF t
<1> HIDE DEF y
<1>12. /\ DOMAIN y = {"d", "h"}
       /\ y.d = [x.d EXCEPT !.txIdx = @ + a, !.respIdx = @ + b]
       /\ y.h = [x.h EXCEPT !.tx = t]
  BY <1>1
<1>13. DOMAIN x.d = DriverFields /\ DOMAIN x.h = HardwareFields
  BY DEF SlaveTypes, SlaveNumbers
<1>14. /\ DOMAIN y.d = DriverFields /\ y.d.txSize = x.d.txSize /\ y.d.txIdx = x.d.txIdx + a
       /\ y.d.respSize = x.d.respSize /\ y.d.respIdx = x.d.respIdx + b
       /\ y.d.mode = x.d.mode /\ y.d.rx = x.d.rx /\ y.d.rxIdx = x.d.rxIdx
       /\ y.d.cmdDone = x.d.cmdDone
       /\ y.d.blockHandler = x.d.blockHandler /\ y.d.cmdHandler = x.d.cmdHandler
       /\ y.d.frameHandler = x.d.frameHandler
  BY <1>12, <1>13, Zenon
<1>15. /\ DOMAIN y.h = HardwareFields /\ y.h.tx = t /\ y.h.rx = x.h.rx /\ y.h.ris = x.h.ris
       /\ y.h.en = x.h.en /\ y.h.cnt = x.h.cnt /\ y.h.lim = x.h.lim
  BY <1>12, <1>13, Zenon
<1>16. SlaveNumbers(y)
  <2>1. y.d.txIdx \in Nat /\ y.d.respIdx \in Nat /\ y.d.respIdx <= y.d.respSize
    BY <1>3, <1>4, <1>5, <1>14, SMT
  <2> QED BY <2>1, <1>10, <1>11, <1>12, <1>14, <1>15 DEF SlaveTypes, SlaveNumbers
<1>17. SlaveFlags(y) BY <1>14, Zenon DEF SlaveTypes, SlaveFlags
<1>18. SameModes(x, y) /\ SameTaken(x, y) /\ SameIrqs(x, y)
  BY <1>14, <1>15, Zenon DEF SameModes, SameTaken, SameIrqs
<1>19. ASSUME x.d.txSize = 0, x.d.respSize = 0, ~x.d.cmdDone
       PROVE  Level(y.h.tx) = Level(x.h.tx)
  <2>1. a = 0 BY <1>2, <1>3, <1>19, SMT DEF a, Least, Less
  <2>2. b = 0 BY <1>3, <1>5, <1>19, SMT
  <2>3. z = 0 BY <1>19 DEF z
  <2> QED BY <2>1, <2>2, <2>3, <1>2, <1>10, <1>15, SMT
<1> QED BY <1>14, <1>16, <1>17, <1>18, <1>19 DEF SlaveTypes, y

\* read_slave_rx_fifo in block mode: the FIFO goes into the buffer, behind what is there.
LEMMA StoredDoes ==
  ASSUME NEW x, SlaveTypes(x)
  PROVE  LET y == Stored(x)
         IN /\ SlaveTypes(y) /\ SameModes(x, y) /\ SameIrqs(x, y)
            /\ y.h.tx = x.h.tx /\ y.h.rx = <<>>
            /\ y.d.rxIdx = x.d.rxIdx + Level(x.h.rx)
            /\ \A i \in 1..RxSize :
                 y.d.rx[i] = IF i > x.d.rxIdx /\ i <= x.d.rxIdx + Level(x.h.rx)
                               THEN x.h.rx[i - x.d.rxIdx] ELSE x.d.rx[i]
<1> DEFINE k == Len(x.h.rx)
           rx == [i \in 1..RxSize |->
                   IF i > x.d.rxIdx /\ i <= x.d.rxIdx + k
                     THEN x.h.rx[i - x.d.rxIdx] ELSE x.d.rx[i]]
           y == Stored(x)
<1>0. DOMAIN x.d = DriverFields /\ DOMAIN x.h = HardwareFields
  BY DEF SlaveTypes, SlaveNumbers
<1>1. y = [d |-> [x.d EXCEPT !.rxIdx = @ + k, !.rx = rx], h |-> [x.h EXCEPT !.rx = <<>>]]
  BY <1>0, Zenon DEF Stored
<1>2. k = Level(x.h.rx) /\ k \in Nat /\ x.d.rxIdx \in Nat
  BY SequentialIs DEF SlaveTypes, SlaveNumbers, Level
<1>3. Sequential(rx) /\ Level(rx) = RxSize BY Sizes, Made
<1>4. \A i \in 1..RxSize : rx[i] = IF i > x.d.rxIdx /\ i <= x.d.rxIdx + k
                                    THEN x.h.rx[i - x.d.rxIdx] ELSE x.d.rx[i]
  OBVIOUS
<1> HIDE DEF k, rx, y
<1>5. /\ DOMAIN y = {"d", "h"} /\ y.d = [x.d EXCEPT !.rxIdx = @ + k, !.rx = rx]
      /\ y.h = [x.h EXCEPT !.rx = <<>>]
  BY <1>1
<1>6. /\ DOMAIN y.d = DriverFields /\ y.d.txSize = x.d.txSize /\ y.d.txIdx = x.d.txIdx
      /\ y.d.respSize = x.d.respSize /\ y.d.respIdx = x.d.respIdx
      /\ y.d.mode = x.d.mode /\ y.d.rx = rx /\ y.d.rxIdx = x.d.rxIdx + k
      /\ y.d.cmdDone = x.d.cmdDone
      /\ y.d.blockHandler = x.d.blockHandler /\ y.d.cmdHandler = x.d.cmdHandler
      /\ y.d.frameHandler = x.d.frameHandler
  BY <1>0, <1>5, Zenon
<1>7. /\ DOMAIN y.h = HardwareFields /\ y.h.tx = x.h.tx /\ y.h.rx = <<>> /\ y.h.ris = x.h.ris
      /\ y.h.en = x.h.en /\ y.h.cnt = x.h.cnt /\ y.h.lim = x.h.lim
  BY <1>0, <1>5, Zenon
<1>8. SlaveNumbers(y)
  <2>1. y.d.rxIdx \in Nat BY <1>2, <1>6, SMT
  <2>2. Sequential(y.h.rx) /\ Level(y.h.rx) <= Depth BY <1>7, Empty, Sizes, SMT
  <2> QED BY <2>1, <2>2, <1>3, <1>5, <1>6, <1>7 DEF SlaveTypes, SlaveNumbers
<1>9. SlaveFlags(y) BY <1>6, Zenon DEF SlaveTypes, SlaveFlags
<1>10. SameModes(x, y) /\ SameIrqs(x, y) BY <1>6, <1>7, Zenon DEF SameModes, SameIrqs
<1>11. \A i \in 1..RxSize :
         y.d.rx[i] = IF i > x.d.rxIdx /\ i <= x.d.rxIdx + Level(x.h.rx)
                       THEN x.h.rx[i - x.d.rxIdx] ELSE x.d.rx[i]
  BY <1>2, <1>4, <1>6, Zenon
<1> QED BY <1>2, <1>6, <1>7, <1>8, <1>9, <1>10, <1>11 DEF SlaveTypes, y

\* A change of the hardware that leaves its records as they are.
LEMMA HardwareOnly ==
  ASSUME NEW x, NEW y, SlaveTypes(x), DOMAIN y = {"d", "h"}, y.d = x.d,
         DOMAIN y.h = HardwareFields,
         Sequential(y.h.tx), Level(y.h.tx) <= Depth, Sequential(y.h.rx), Level(y.h.rx) <= Depth,
         y.h.ris \subseteq ToSet(Sources), y.h.en \subseteq ToSet(Sources),
         y.h.cnt \in Nat, y.h.lim \in Nat
  PROVE  SlaveTypes(y)
<1>1. SlaveNumbers(y) BY DEF SlaveTypes, SlaveNumbers
<1>2. SlaveFlags(y) BY Zenon DEF SlaveTypes, SlaveFlags
<1> QED BY <1>1, <1>2 DEF SlaveTypes

\* Whatever the mode, the receive FIFO is read until it is empty.
LEMMA ReadDoes ==
  ASSUME NEW x, SlaveTypes(x)
  PROVE  LET y == ReadSlaveRxFifo(x)
         IN /\ SlaveTypes(y) /\ SameModes(x, y) /\ SameIrqs(x, y)
            /\ y.h.tx = x.h.tx /\ y.h.rx = <<>>
            /\ x.d.mode = "BLOCK" => y = Stored(x)
<1> DEFINE y == ReadSlaveRxFifo(x)
<1>1. CASE x.d.mode = "BLOCK"
  <2>1. y = Stored(x) BY <1>1 DEF ReadSlaveRxFifo
  <2> QED BY <2>1, StoredDoes
<1>2. CASE x.d.mode # "BLOCK"
  <2>1. y = [x EXCEPT !.h.rx = <<>>] BY <1>2 DEF ReadSlaveRxFifo
  <2> HIDE DEF y
  <2>2. DOMAIN x = {"d", "h"} /\ DOMAIN x.h = HardwareFields
    BY DEF SlaveTypes, SlaveNumbers
  <2>3. DOMAIN y = {"d", "h"} /\ y.d = x.d /\ y.h = [x.h EXCEPT !.rx = <<>>]
    BY <2>1, <2>2, Zenon
  <2>4. /\ DOMAIN y.h = HardwareFields /\ y.h.tx = x.h.tx /\ y.h.rx = <<>>
        /\ y.h.ris = x.h.ris /\ y.h.en = x.h.en /\ y.h.cnt = x.h.cnt /\ y.h.lim = x.h.lim
    BY <2>2, <2>3, Zenon
  <2>5. Sequential(y.h.rx) /\ Level(y.h.rx) <= Depth BY <2>4, Empty, Sizes, SMT
  <2>6. SlaveTypes(y)
    BY <2>3, <2>4, <2>5, HardwareOnly DEF SlaveTypes, SlaveNumbers
  <2>7. SameModes(x, y) /\ SameIrqs(x, y) BY <2>3, <2>4, Zenon DEF SameModes, SameIrqs
  <2> QED BY <1>2, <2>4, <2>6, <2>7 DEF y
<1> QED BY <1>1, <1>2

\* Clearing one interrupt changes nothing else.
LEMMA ClearDoes ==
  ASSUME NEW x, NEW source, SlaveTypes(x)
  PROVE  LET y == Clear(x, source)
         IN /\ SlaveTypes(y) /\ SameModes(x, y) /\ SameTaken(x, y)
            /\ y.h.tx = x.h.tx /\ y.h.en = x.h.en /\ y.h.ris = x.h.ris \ {source}
            /\ y.d = x.d
<1> DEFINE y == Clear(x, source)
<1>1. y = [x EXCEPT !.h.ris = @ \ {source}] BY DEF Clear
<1> HIDE DEF y
<1>2. DOMAIN x = {"d", "h"} /\ DOMAIN x.h = HardwareFields
  BY DEF SlaveTypes, SlaveNumbers
<1>3. DOMAIN y = {"d", "h"} /\ y.d = x.d /\ y.h = [x.h EXCEPT !.ris = @ \ {source}]
  BY <1>1, <1>2, Zenon
<1>4. /\ DOMAIN y.h = HardwareFields /\ y.h.tx = x.h.tx /\ y.h.rx = x.h.rx
      /\ y.h.ris = x.h.ris \ {source} /\ y.h.en = x.h.en /\ y.h.cnt = x.h.cnt
      /\ y.h.lim = x.h.lim
  BY <1>2, <1>3, Zenon
<1>5. y.h.ris \subseteq ToSet(Sources)
  BY <1>4 DEF SlaveTypes, SlaveNumbers
<1>6. SlaveTypes(y)
  BY <1>3, <1>4, <1>5, HardwareOnly DEF SlaveTypes, SlaveNumbers
<1>7. SameModes(x, y) /\ SameTaken(x, y) BY <1>3, <1>4, Zenon DEF SameModes, SameTaken
<1> QED BY <1>3, <1>4, <1>6, <1>7 DEF y

\* Loading the frame of the transmit buffer appends it to the FIFO.
LEMMA LoadKeeps ==
  ASSUME NEW x, SlaveTypes(x)
  PROVE  LET y == LoadFrame(x)
         IN /\ DOMAIN y = {"d", "h"} /\ y.d = x.d /\ DOMAIN y.h = HardwareFields
            /\ y.h.tx = Append(x.h.tx, x.d.txFrame) /\ y.h.rx = x.h.rx
            /\ y.h.ris = x.h.ris /\ y.h.en = x.h.en /\ y.h.cnt = x.h.cnt
            /\ y.h.lim = x.h.lim
<1> DEFINE y == LoadFrame(x)
<1>1. y = [x EXCEPT !.h.tx = Append(x.h.tx, x.d.txFrame)] BY DEF LoadFrame
<1> HIDE DEF y
<1>2. DOMAIN x = {"d", "h"} /\ DOMAIN x.h = HardwareFields
  BY DEF SlaveTypes, SlaveNumbers
<1>3. /\ DOMAIN y = {"d", "h"} /\ y.d = x.d
      /\ y.h = [x.h EXCEPT !.tx = Append(x.h.tx, x.d.txFrame)]
  BY <1>1, <1>2, Zenon
<1>4. /\ DOMAIN y.h = HardwareFields /\ y.h.tx = Append(x.h.tx, x.d.txFrame)
      /\ y.h.rx = x.h.rx /\ y.h.ris = x.h.ris /\ y.h.en = x.h.en /\ y.h.cnt = x.h.cnt
      /\ y.h.lim = x.h.lim
  BY <1>2, <1>3, Zenon
<1> QED BY <1>3, <1>4 DEF y

\* While there is room, that keeps the types.
LEMMA LoadDoes ==
  ASSUME NEW x, SlaveTypes(x), Level(x.h.tx) < Depth
  PROVE  LET y == LoadFrame(x)
         IN /\ SlaveTypes(y) /\ SameModes(x, y) /\ SameTaken(x, y) /\ SameIrqs(x, y)
            /\ Level(y.h.tx) = Level(x.h.tx) + 1
<1> DEFINE t == Append(x.h.tx, x.d.txFrame)
           y == LoadFrame(x)
<1>1. Sequential(t) /\ Level(t) = Level(x.h.tx) + 1 /\ Level(x.h.tx) \in Nat
  BY Appended, SequentialIs DEF SlaveTypes, SlaveNumbers
<1> HIDE DEF y, t
<1>2. /\ DOMAIN y = {"d", "h"} /\ y.d = x.d /\ DOMAIN y.h = HardwareFields
      /\ y.h.tx = t /\ y.h.rx = x.h.rx /\ y.h.ris = x.h.ris /\ y.h.en = x.h.en
      /\ y.h.cnt = x.h.cnt /\ y.h.lim = x.h.lim
  BY LoadKeeps DEF y, t
<1>3. Level(t) <= Depth BY <1>1, Sizes, SMT
<1>4. SlaveTypes(y)
  BY <1>1, <1>2, <1>3, HardwareOnly DEF SlaveTypes, SlaveNumbers
<1>5. SameModes(x, y) /\ SameTaken(x, y) /\ SameIrqs(x, y)
  BY <1>2, Zenon DEF SameModes, SameTaken, SameIrqs
<1> QED BY <1>1, <1>2, <1>4, <1>5 DEF y

\* What two steps of a handler leave of the modes, they leave together.
LEMMA SameModesIsTransitive ==
  ASSUME NEW x, NEW y, NEW z, SameModes(x, y), SameModes(y, z)
  PROVE  SameModes(x, z)
<1>1. z.h.cnt \in {x.h.cnt, 0} BY Zenon DEF SameModes
<1> QED BY <1>1, Zenon DEF SameModes

\* A change of the driver's record that leaves the hardware as it is.
LEMMA DriverOnly ==
  ASSUME NEW x, NEW y, SlaveTypes(x), DOMAIN y = {"d", "h"}, y.h = x.h,
         DOMAIN y.d = DriverFields, y.d.mode = x.d.mode, y.d.rx = x.d.rx,
         y.d.txSize = x.d.txSize, y.d.txIdx \in Nat, y.d.rxIdx \in Nat,
         y.d.respSize \in Nat, y.d.respIdx \in Nat, y.d.respIdx <= y.d.respSize,
         y.d.cmdHandler = x.d.cmdHandler, y.d.blockHandler = x.d.blockHandler,
         y.d.frameHandler = x.d.frameHandler, y.d.cmdDone \in BOOLEAN
  PROVE  SlaveTypes(y) /\ SameModes(x, y) /\ SameIrqs(x, y)
<1>1. SlaveNumbers(y) BY DEF SlaveTypes, SlaveNumbers
<1>2. SlaveFlags(y) BY Zenon DEF SlaveTypes, SlaveFlags
<1>3. SameModes(x, y) /\ SameIrqs(x, y) BY Zenon DEF SameModes, SameIrqs
<1> QED BY <1>1, <1>2, <1>3 DEF SlaveTypes

\* MSS_SPI_set_cmd_response replaces the response and fills the FIFO.
LEMMA CmdResponseDoes ==
  ASSUME NEW x, SlaveTypes(x)
  PROVE  LET y == SetCmdResponse(x)
         IN SlaveTypes(y) /\ SameModes(x, y) /\ SameTaken(x, y) /\ SameIrqs(x, y)
<1> DEFINE y == [x EXCEPT !.d.resp = x.d.rx[1], !.d.respSize = RespSize, !.d.respIdx = 0,
                          !.d.cmdDone = TRUE]
<1>1. SetCmdResponse(x) = Fill(y) BY DEF SetCmdResponse
<1>2. DOMAIN x = {"d", "h"} /\ DOMAIN x.d = DriverFields /\ DOMAIN x.h = HardwareFields
  BY DEF SlaveTypes, SlaveNumbers
<1>3. /\ DOMAIN y = {"d", "h"} /\ y.h = x.h
      /\ y.d = [x.d EXCEPT !.resp = x.d.rx[1], !.respSize = RespSize, !.respIdx = 0,
                           !.cmdDone = TRUE]
  BY <1>2, Zenon
<1> HIDE DEF y
<1>4. /\ DOMAIN y.d = DriverFields /\ y.d.txSize = x.d.txSize /\ y.d.txIdx = x.d.txIdx
      /\ y.d.respSize = RespSize /\ y.d.respIdx = 0
      /\ y.d.mode = x.d.mode /\ y.d.rx = x.d.rx /\ y.d.rxIdx = x.d.rxIdx
      /\ y.d.cmdDone = TRUE
      /\ y.d.blockHandler = x.d.blockHandler /\ y.d.cmdHandler = x.d.cmdHandler
      /\ y.d.frameHandler = x.d.frameHandler
  BY <1>2, <1>3, Zenon
<1>5. y.d.respSize \in Nat /\ y.d.respIdx \in Nat /\ y.d.respIdx <= y.d.respSize
  BY <1>4, Sizes, SMT
<1>6. y.d.txIdx \in Nat /\ y.d.rxIdx \in Nat /\ y.d.cmdDone \in BOOLEAN
  BY <1>4 DEF SlaveTypes, SlaveNumbers
<1>7. SlaveTypes(y) /\ SameModes(x, y) /\ SameIrqs(x, y)
  BY <1>3, <1>4, <1>5, <1>6, DriverOnly
<1>8. SameTaken(x, y) BY <1>3, <1>4, Zenon DEF SameTaken
<1>9. /\ SlaveTypes(Fill(y)) /\ SameModes(y, Fill(y)) /\ SameTaken(y, Fill(y))
      /\ SameIrqs(y, Fill(y))
  BY <1>7, FillDoes
<1>10. SameTaken(x, Fill(y)) BY <1>8, <1>9 DEF SameTaken
<1>11. SameIrqs(x, Fill(y)) BY <1>7, <1>9 DEF SameIrqs
<1> QED BY <1>1, <1>7, <1>9, <1>10, <1>11, SameModesIsTransitive

\* Emptying the transmit FIFO.
LEMMA EmptiedDoes ==
  ASSUME NEW x, SlaveTypes(x)
  PROVE  LET y == [x EXCEPT !.h.tx = <<>>]
         IN /\ SlaveTypes(y) /\ SameModes(x, y) /\ SameTaken(x, y) /\ SameIrqs(x, y)
            /\ y.h.tx = <<>>
<1> DEFINE y == [x EXCEPT !.h.tx = <<>>]
<1>1. DOMAIN x = {"d", "h"} /\ DOMAIN x.h = HardwareFields
  BY DEF SlaveTypes, SlaveNumbers
<1>2. DOMAIN y = {"d", "h"} /\ y.d = x.d /\ y.h = [x.h EXCEPT !.tx = <<>>]
  BY <1>1, Zenon
<1> HIDE DEF y
<1>3. /\ DOMAIN y.h = HardwareFields /\ y.h.tx = <<>> /\ y.h.rx = x.h.rx
      /\ y.h.ris = x.h.ris /\ y.h.en = x.h.en /\ y.h.cnt = x.h.cnt /\ y.h.lim = x.h.lim
  BY <1>1, <1>2, Zenon
<1>4. Sequential(y.h.tx) /\ Level(y.h.tx) <= Depth BY <1>3, Empty, Sizes, SMT
<1>5. SlaveTypes(y)
  BY <1>2, <1>3, <1>4, HardwareOnly DEF SlaveTypes, SlaveNumbers
<1>6. SameModes(x, y) /\ SameTaken(x, y) /\ SameIrqs(x, y)
  BY <1>2, <1>3, Zenon DEF SameModes, SameTaken, SameIrqs
<1> QED BY <1>3, <1>5, <1>6 DEF y

\* Starting over at the first byte of the transmit buffer.
LEMMA RestartDoes ==
  ASSUME NEW x, SlaveTypes(x)
  PROVE  LET y == [x EXCEPT !.d.txIdx = 0]
         IN SlaveTypes(y) /\ SameModes(x, y) /\ SameTaken(x, y) /\ SameIrqs(x, y)
            /\ y.h = x.h
<1> DEFINE y == [x EXCEPT !.d.txIdx = 0]
<1>2. DOMAIN x = {"d", "h"} /\ DOMAIN x.d = DriverFields /\ DOMAIN x.h = HardwareFields
  BY DEF SlaveTypes, SlaveNumbers
<1>3. /\ DOMAIN y = {"d", "h"} /\ y.h = x.h /\ y.d = [x.d EXCEPT !.txIdx = 0]
  BY <1>2, Zenon
<1> HIDE DEF y
<1>4. /\ DOMAIN y.d = DriverFields /\ y.d.txSize = x.d.txSize /\ y.d.txIdx = 0
      /\ y.d.respSize = x.d.respSize /\ y.d.respIdx = x.d.respIdx
      /\ y.d.mode = x.d.mode /\ y.d.rx = x.d.rx /\ y.d.rxIdx = x.d.rxIdx
      /\ y.d.cmdDone = x.d.cmdDone
      /\ y.d.blockHandler = x.d.blockHandler /\ y.d.cmdHandler = x.d.cmdHandler
      /\ y.d.frameHandler = x.d.frameHandler
  BY <1>2, <1>3, Zenon
<1>5. /\ y.d.respSize \in Nat /\ y.d.respIdx \in Nat /\ y.d.respIdx <= y.d.respSize
      /\ y.d.txIdx \in Nat /\ y.d.rxIdx \in Nat
  BY <1>4, SMT DEF SlaveTypes, SlaveNumbers
<1>6. y.d.cmdDone \in BOOLEAN BY <1>4, Zenon DEF SlaveTypes, SlaveFlags
<1>7. SlaveTypes(y) /\ SameModes(x, y) /\ SameIrqs(x, y)
  BY <1>3, <1>4, <1>5, <1>6, DriverOnly
<1>8. SameTaken(x, y) BY <1>3, <1>4, Zenon DEF SameTaken
<1> QED BY <1>3, <1>7, <1>8 DEF y

\* Starting over at the first byte of the receive buffer.
LEMMA ResetDoes ==
  ASSUME NEW x, SlaveTypes(x)
  PROVE  LET y == [x EXCEPT !.d.rxIdx = 0]
         IN SlaveTypes(y) /\ SameModes(x, y) /\ SameIrqs(x, y)
            /\ y.h = x.h /\ y.d.rxIdx = 0 /\ y.d.rx = x.d.rx
<1> DEFINE y == [x EXCEPT !.d.rxIdx = 0]
<1>2. DOMAIN x = {"d", "h"} /\ DOMAIN x.d = DriverFields /\ DOMAIN x.h = HardwareFields
  BY DEF SlaveTypes, SlaveNumbers
<1>3. /\ DOMAIN y = {"d", "h"} /\ y.h = x.h /\ y.d = [x.d EXCEPT !.rxIdx = 0]
  BY <1>2, Zenon
<1> HIDE DEF y
<1>4. /\ DOMAIN y.d = DriverFields /\ y.d.txSize = x.d.txSize /\ y.d.txIdx = x.d.txIdx
      /\ y.d.respSize = x.d.respSize /\ y.d.respIdx = x.d.respIdx
      /\ y.d.mode = x.d.mode /\ y.d.rx = x.d.rx /\ y.d.rxIdx = 0
      /\ y.d.cmdDone = x.d.cmdDone
      /\ y.d.blockHandler = x.d.blockHandler /\ y.d.cmdHandler = x.d.cmdHandler
      /\ y.d.frameHandler = x.d.frameHandler
  BY <1>2, <1>3, Zenon
<1>5. /\ y.d.respSize \in Nat /\ y.d.respIdx \in Nat /\ y.d.respIdx <= y.d.respSize
      /\ y.d.txIdx \in Nat /\ y.d.rxIdx \in Nat
  BY <1>4, SMT DEF SlaveTypes, SlaveNumbers
<1>6. y.d.cmdDone \in BOOLEAN BY <1>4, Zenon DEF SlaveTypes, SlaveFlags
<1>7. SlaveTypes(y) /\ SameModes(x, y) /\ SameIrqs(x, y)
  BY <1>3, <1>4, <1>5, <1>6, DriverOnly
<1> QED BY <1>3, <1>4, <1>7 DEF y

\* Emptying both FIFOs.
LEMMA FlushedDoes ==
  ASSUME NEW x, SlaveTypes(x)
  PROVE  LET y == Flushed(x)
         IN /\ SlaveTypes(y) /\ SameModes(x, y) /\ y.d = x.d /\ y.h.rx = <<>>
            /\ y.h.tx = <<>> /\ SameIrqs(x, y)
<1> DEFINE y == Flushed(x)
<1>1. DOMAIN x = {"d", "h"} /\ DOMAIN x.h = HardwareFields
  BY DEF SlaveTypes, SlaveNumbers
<1>2. DOMAIN y = {"d", "h"} /\ y.d = x.d /\ y.h = [x.h EXCEPT !.tx = <<>>, !.rx = <<>>]
  BY <1>1, Zenon DEF Flushed
<1> HIDE DEF y
<1>3. /\ DOMAIN y.h = HardwareFields /\ y.h.tx = <<>> /\ y.h.rx = <<>>
      /\ y.h.ris = x.h.ris /\ y.h.en = x.h.en /\ y.h.cnt = x.h.cnt /\ y.h.lim = x.h.lim
  BY <1>1, <1>2, Zenon
<1>4. /\ Sequential(y.h.tx) /\ Level(y.h.tx) <= Depth
      /\ Sequential(y.h.rx) /\ Level(y.h.rx) <= Depth
  BY <1>3, Empty, Sizes, SMT
<1>5. SlaveTypes(y)
  BY <1>2, <1>3, <1>4, HardwareOnly DEF SlaveTypes, SlaveNumbers
<1>6. SameModes(x, y) /\ SameIrqs(x, y) BY <1>2, <1>3, Zenon DEF SameModes, SameIrqs
<1> QED BY <1>2, <1>3, <1>5, <1>6 DEF y

\* The reset of the slave at the end of a packet.
LEMMA RewoundDoes ==
  ASSUME NEW x, SlaveTypes(x)
  PROVE  LET y == Rewound(x)
         IN /\ SlaveTypes(y) /\ SameModes(x, y)
            /\ y.d.rx = x.d.rx /\ y.d.rxIdx = x.d.rxIdx /\ y.h.rx = <<>>
            /\ y.h.en \in {x.h.en, x.h.en \union {"CMD"}}
            /\ y.h.ris \in {x.h.ris, x.h.ris \ {"CMD"}}
<1>0. DOMAIN x = {"d", "h"} /\ DOMAIN x.d = DriverFields /\ DOMAIN x.h = HardwareFields
  BY DEF SlaveTypes, SlaveNumbers
<1> DEFINE u == [x EXCEPT !.d.cmdDone = FALSE, !.d.respSize = 0, !.d.respIdx = 0,
                          !.h.ris = @ \ {"CMD"}, !.h.en = @ \union {"CMD"}]
           v == IF d.cmdHandler THEN u ELSE x
           w == [v EXCEPT !.d.txIdx = 0]
           f == Flushed(w)
           y == Fill(f)
<1>1. Rewound(x) = y BY Zenon DEF Rewound
<1>2. /\ SlaveTypes(u) /\ SameModes(x, u) /\ u.d.rx = x.d.rx /\ u.d.rxIdx = x.d.rxIdx
      /\ u.h.rx = x.h.rx /\ u.h.en = x.h.en \union {"CMD"} /\ u.h.ris = x.h.ris \ {"CMD"}
  <2>1. /\ DOMAIN u = {"d", "h"}
        /\ u.d = [x.d EXCEPT !.cmdDone = FALSE, !.respSize = 0, !.respIdx = 0]
        /\ u.h = [x.h EXCEPT !.ris = @ \ {"CMD"}, !.en = @ \union {"CMD"}]
    BY <1>0, Zenon
  <2> HIDE DEF u
  <2>2. /\ DOMAIN u.d = DriverFields /\ u.d.txSize = x.d.txSize /\ u.d.txIdx = x.d.txIdx
        /\ u.d.respSize = 0 /\ u.d.respIdx = 0
        /\ u.d.mode = x.d.mode /\ u.d.rx = x.d.rx /\ u.d.rxIdx = x.d.rxIdx
        /\ u.d.cmdDone = FALSE
        /\ u.d.blockHandler = x.d.blockHandler /\ u.d.cmdHandler = x.d.cmdHandler
        /\ u.d.frameHandler = x.d.frameHandler
    BY <1>0, <2>1, Zenon
  <2>3. /\ DOMAIN u.h = HardwareFields /\ u.h.tx = x.h.tx /\ u.h.rx = x.h.rx
        /\ u.h.ris = x.h.ris \ {"CMD"} /\ u.h.en = x.h.en \union {"CMD"}
        /\ u.h.cnt = x.h.cnt /\ u.h.lim = x.h.lim
    BY <1>0, <2>1, Zenon
  <2>4. u.h.ris \subseteq ToSet(Sources) /\ u.h.en \subseteq ToSet(Sources)
    <3>1. "CMD" \in ToSet(Sources) BY SMT DEF Sources, ToSet
    <3> QED BY <2>3, <3>1 DEF SlaveTypes, SlaveNumbers
  <2>5. SlaveNumbers(u)
    <3>1. u.d.respSize \in Nat /\ u.d.respIdx \in Nat /\ u.d.respIdx <= u.d.respSize
      BY <2>2, SMT
    <3> QED BY <2>1, <2>2, <2>3, <2>4, <3>1 DEF SlaveTypes, SlaveNumbers
  <2>6. SlaveFlags(u) BY <2>2, Zenon DEF SlaveTypes, SlaveFlags
  <2>7. SameModes(x, u) BY <2>2, <2>3, Zenon DEF SameModes
  <2> QED BY <2>2, <2>3, <2>5, <2>6, <2>7 DEF SlaveTypes
<1> HIDE DEF u
<1>3. /\ SlaveTypes(v) /\ SameModes(x, v) /\ v.d.rx = x.d.rx /\ v.d.rxIdx = x.d.rxIdx
      /\ v.h.en \in {x.h.en, x.h.en \union {"CMD"}}
      /\ v.h.ris \in {x.h.ris, x.h.ris \ {"CMD"}}
  <2>1. CASE d.cmdHandler
    <3>1. v = u BY <2>1
    <3> QED BY <3>1, <1>2
  <2>2. CASE ~d.cmdHandler
    <3>1. v = x BY <2>2
    <3>2. SameModes(x, x) BY Zenon DEF SameModes
    <3> QED BY <3>1, <3>2
  <2> QED BY <2>1, <2>2
<1> HIDE DEF v
<1>4. SlaveTypes(w) /\ SameModes(v, w) /\ SameTaken(v, w) /\ SameIrqs(v, w)
  BY <1>3, RestartDoes
<1> HIDE DEF w
<1>5. /\ SlaveTypes(f) /\ SameModes(w, f) /\ f.d = w.d /\ f.h.rx = <<>> /\ SameIrqs(w, f)
  BY <1>4, FlushedDoes
<1> HIDE DEF f
<1>6. SlaveTypes(y) /\ SameModes(f, y) /\ SameTaken(f, y) /\ SameIrqs(f, y)
  BY <1>5, FillDoes
<1> HIDE DEF y
<1>7. SameModes(x, y)
  BY <1>3, <1>4, <1>5, <1>6, SameModesIsTransitive
<1>8. y.d.rx = x.d.rx /\ y.d.rxIdx = x.d.rxIdx /\ y.h.rx = <<>>
  BY <1>3, <1>4, <1>5, <1>6 DEF SameTaken
<1>9. y.h.en = v.h.en /\ y.h.ris = v.h.ris
  BY <1>4, <1>5, <1>6 DEF SameIrqs
<1> QED BY <1>1, <1>3, <1>6, <1>7, <1>8, <1>9

---------------------------------------------------------------------------
(* The handlers, and the calls that set the slave up.                      *)

\* The record the handlers work on is the state of the driver and the hardware.
LEMMA HereIs == SlaveSide => SlaveTypes(Here) /\ Here.d = d /\ Here.h = h
BY DEF SlaveSide, Here

\* The handler's places, and what it clears there.
LEMMA PlaceIs ==
  ASSUME NEW i \in 0..2 * NSources
  PROVE  /\ NSources = 6 /\ i \in 0..12
         /\ (i > NSources /\ Sources[i - NSources] = "TXDONE") <=> i = 8
         /\ (i > NSources /\ Sources[i - NSources] = "CMD") <=> i = 9
         /\ (i > NSources /\ Sources[i - NSources] = "SSEND") <=> i = 12
<1>1. NSources = 6 BY SMT DEF NSources, Sources
<1>2. /\ Sources[1] = "RXDONE" /\ Sources[2] = "TXDONE" /\ Sources[3] = "CMD"
      /\ Sources[4] = "RXOVFLOW" /\ Sources[5] = "TXURUN" /\ Sources[6] = "SSEND"
  BY SMT DEF Sources
<1>3. i \in {7, 8, 9, 10, 11, 12} \/ i \in 0..6 BY <1>1, SMT
<1>4. /\ 7 - 6 = 1 /\ 8 - 6 = 2 /\ 9 - 6 = 3 /\ 10 - 6 = 4 /\ 11 - 6 = 5 /\ 12 - 6 = 6
  BY SMT
<1>5. CASE i \in 0..6
  <2>1. ~(i > NSources) /\ i # 8 /\ i # 9 /\ i # 12 BY <1>1, <1>5, SMT
  <2> QED BY <1>1, <2>1, SMT
<1>6. CASE i \in {7, 8, 9, 10, 11, 12}
  <2>1. i > NSources BY <1>1, <1>6, SMT
  <2>2. i - NSources = i - 6 BY <1>1
  <2>3. /\ Sources[i - 6] = "TXDONE" <=> i = 8
        /\ Sources[i - 6] = "CMD" <=> i = 9
        /\ Sources[i - 6] = "SSEND" <=> i = 12
    BY <1>2, <1>4, <1>6
  <2>4. i \in 0..12 BY <1>6, SMT
  <2> QED BY <1>1, <2>1, <2>2, <2>3, <2>4
<1> QED BY <1>3, <1>5, <1>6

\* When it is nowhere, or still looks for a source, it clears nothing.
LEMMA ClearsNothing == ASSUME NEW i \in 0..6 PROVE ~(i > NSources)
<1>1. i \in 0..2 * NSources /\ i # 8
  <2>1. NSources = 6 BY SMT DEF NSources, Sources
  <2> QED BY <2>1, SMT DEF NSources
<1> QED BY SMT DEF NSources, Sources

\* In which states the handler is on its way, and what it keeps of the modes.
LEMMA Handled ==
  ASSUME SlaveSide, isr # 0, NEW y, SlaveTypes(y), SameModes(Here, y), Become(y),
         UNCHANGED bus, isr' \in 0..2 * NSources, LogTypes',
         y.h.en \union {"CMD"} = h.en \union {"CMD"},
         d.mode = "FRAME" => y.h.en = h.en /\ Level(y.h.tx) + Owed' <= 2
  PROVE  SlaveSide'
<1>1. SlaveTypes(Here')
  <2>1. Here'.d = y.d /\ Here'.h = y.h /\ DOMAIN Here' = {"d", "h"} BY DEF Here, Become
  <2> HIDE DEF Here
  <2>2. SlaveNumbers(Here') BY <2>1 DEF SlaveTypes, SlaveNumbers
  <2>3. SlaveFlags(Here') BY <2>1, Zenon DEF SlaveTypes, SlaveFlags
  <2> QED BY <2>2, <2>3 DEF SlaveTypes
<1>2. Modes'
  <2>1. d' = y.d /\ h' = y.h /\ bus' = bus BY DEF Become
  <2>2. /\ d'.mode = d.mode /\ d'.blockHandler = d.blockHandler
        /\ d'.frameHandler = d.frameHandler /\ h'.lim = h.lim /\ h'.cnt \in {h.cnt, 0}
    BY <2>1, HereIs DEF SameModes
  <2>3. Modes BY DEF SlaveSide
  <2>4. bus.t # 0 /\ d.mode # "NONE" BY <2>3 DEF Modes
  <2>5. h'.lim = 1 => h'.cnt = 0 BY <2>2, <2>3, Zenon DEF Modes
  <2>6. d.mode = "BLOCK" => {"SSEND", "RXDONE", "TXURUN", "RXOVFLOW"} \subseteq h'.en
    BY <2>1, <2>3, Zenon DEF Modes
  <2>7. d.mode = "FRAME" => Level(h'.tx) + Owed' <= 2
    BY <2>1
  <2>8. d.mode = "FRAME" => h'.en = h.en BY <2>1
  <2> QED BY <2>1, <2>2, <2>3, <2>4, <2>5, <2>6, <2>7, <2>8, Zenon DEF Modes
<1> QED BY <1>1, <1>2 DEF SlaveSide

\* The handler tests its six sources in their order.
LEMMA ServesWhich ==
  ASSUME IsrServes
  PROVE  \/ isr = 1 /\ "RXDONE" \in Pending /\ RxDone
         \/ isr = 2 /\ "TXDONE" \in Pending /\ TxDoneIrq
         \/ isr = 3 /\ "CMD" \in Pending /\ Cmd
         \/ isr = 4 /\ "RXOVFLOW" \in Pending /\ RxOverflow
         \/ isr = 5 /\ "TXURUN" \in Pending /\ TxUnderrun
         \/ isr = 6 /\ "SSEND" \in Pending /\ SsEnd
<1>0. isr \in 1..NSources /\ Sources[isr] \in Pending BY DEF IsrServes
<1>1. isr \in {1, 2, 3, 4, 5, 6}
  <2>1. NSources = 6 BY SMT DEF NSources, Sources
  <2> QED BY <1>0, <2>1, SMT
<1>2. /\ Sources[1] = "RXDONE" /\ Sources[2] = "TXDONE" /\ Sources[3] = "CMD"
      /\ Sources[4] = "RXOVFLOW" /\ Sources[5] = "TXURUN" /\ Sources[6] = "SSEND"
  BY SMT DEF Sources
<1>4. CASE isr = 1
  <2>1. isr # 2 /\ isr # 3 /\ isr # 4 /\ isr # 5 /\ isr # 6 BY <1>4, SMT
  <2>2. RxDone BY <1>4, <2>1, Zenon DEF IsrServes
  <2> QED BY <1>0, <1>2, <1>4, <2>2
<1>5. CASE isr = 2
  <2>1. isr # 1 /\ isr # 3 /\ isr # 4 /\ isr # 5 /\ isr # 6 BY <1>5, SMT
  <2>2. TxDoneIrq BY <1>5, <2>1, Zenon DEF IsrServes
  <2> QED BY <1>0, <1>2, <1>5, <2>2
<1>6. CASE isr = 3
  <2>1. isr # 1 /\ isr # 2 /\ isr # 4 /\ isr # 5 /\ isr # 6 BY <1>6, SMT
  <2>2. Cmd BY <1>6, <2>1, Zenon DEF IsrServes
  <2> QED BY <1>0, <1>2, <1>6, <2>2
<1>7. CASE isr = 4
  <2>1. isr # 1 /\ isr # 2 /\ isr # 3 /\ isr # 5 /\ isr # 6 BY <1>7, SMT
  <2>2. RxOverflow BY <1>7, <2>1, Zenon DEF IsrServes
  <2> QED BY <1>0, <1>2, <1>7, <2>2
<1>8. CASE isr = 5
  <2>1. isr # 1 /\ isr # 2 /\ isr # 3 /\ isr # 4 /\ isr # 6 BY <1>8, SMT
  <2>2. TxUnderrun BY <1>8, <2>1, Zenon DEF IsrServes
  <2> QED BY <1>0, <1>2, <1>8, <2>2
<1>9. CASE isr = 6
  <2>1. isr # 1 /\ isr # 2 /\ isr # 3 /\ isr # 4 /\ isr # 5 BY <1>9, SMT
  <2>2. SsEnd BY <1>9, <2>1, Zenon DEF IsrServes
  <2> QED BY <1>0, <1>2, <1>9, <2>2
<1> QED BY <1>1, <1>4, <1>5, <1>6, <1>7, <1>8, <1>9

\* The recovery from an overrun leaves the FIFOs and the interrupts empty.
LEMMA Recovering ==
  ASSUME NEW x, SlaveTypes(x)
  PROVE  LET y == Recovered(x)
         IN /\ SlaveTypes(y) /\ SameModes(x, y) /\ y.d = x.d
            /\ y.h.rx = <<>> /\ y.h.tx = <<>> /\ y.h.ris = {} /\ y.h.en = x.h.en
<1>0. DOMAIN x = {"d", "h"} /\ DOMAIN x.h = HardwareFields
  BY DEF SlaveTypes, SlaveNumbers
<1> DEFINE y == Recovered(x)
<1>1. /\ DOMAIN y = {"d", "h"} /\ y.d = x.d
      /\ y.h = [x.h EXCEPT !.tx = <<>>, !.rx = <<>>, !.ris = {}, !.auto = FALSE, !.cnt = 0]
  BY <1>0, Zenon DEF Recovered
<1> HIDE DEF y
<1>2. /\ DOMAIN y.h = HardwareFields /\ y.h.tx = <<>> /\ y.h.rx = <<>>
      /\ y.h.ris = {} /\ y.h.en = x.h.en /\ y.h.cnt = 0 /\ y.h.lim = x.h.lim
  BY <1>0, <1>1, Zenon
<1>3. /\ Sequential(y.h.tx) /\ Level(y.h.tx) <= Depth
      /\ Sequential(y.h.rx) /\ Level(y.h.rx) <= Depth
  BY <1>2, Empty, Sizes, SMT
<1>4. y.h.cnt \in Nat /\ y.h.ris \subseteq ToSet(Sources) BY <1>2
<1>5. SlaveTypes(y)
  BY <1>1, <1>2, <1>3, <1>4, HardwareOnly DEF SlaveTypes, SlaveNumbers
<1>6. SameModes(x, y) BY <1>1, <1>2, Zenon DEF SameModes
<1> QED BY <1>1, <1>2, <1>5, <1>6 DEF y

\* Every branch of the handler keeps the types and the modes.
LEMMA ServesKeeps ==
  ASSUME SlaveSide, IsrServes
  PROVE  SlaveSide'
<1>0. isr \in 0..2 * NSources /\ LogTypes /\ Modes BY DEF SlaveSide
<1>1. /\ SlaveTypes(Here) /\ Here.d = d /\ Here.h = h BY HereIs
<1>2. /\ UNCHANGED bus /\ isr # 0 /\ isr' \in 0..2 * NSources
      /\ "TXDONE" \notin h'.ris \/ isr = 2 => Owed' = 0
      /\ Owed' = 0 \/ Owed' = 1
      /\ Owed = IF "TXDONE" \in h.ris THEN 1 ELSE 0
  <2>1. isr \in 1..NSources /\ isr' = NSources + isr /\ UNCHANGED bus BY DEF IsrServes
  <2>2. NSources = 6 BY <1>0, PlaceIs
  <2>3. isr # 0 /\ isr # 8 BY <2>1, <2>2, SMT
  <2>4. isr # 0 /\ ~Clearing("TXDONE") BY <2>3, <1>0, PlaceIs DEF Clearing
  <2>5. isr' \in 0..2 * NSources BY <2>1, <2>2, SMT
  <2>6. isr = 2 => Clearing("TXDONE")' 
    <3>1. isr = 2 => isr' = 8 BY <2>1, <2>2, SMT
    <3> QED BY <3>1, <2>5, PlaceIs DEF Clearing
  <2> QED BY <2>1, <2>4, <2>5, <2>6 DEF Owed
<1>3. "RXDONE" \in Pending \/ "TXDONE" \in Pending \/ "CMD" \in Pending
      \/ "RXOVFLOW" \in Pending \/ "TXURUN" \in Pending \/ "SSEND" \in Pending
  BY <1>0, ServesWhich
<1>4. h.ris # {} BY <1>3 DEF Pending
<1>5. d.mode = "FRAME" => /\ Level(h.tx) + (IF "TXDONE" \in h.ris THEN 1 ELSE 0) <= 2
                          /\ "CMD" \notin h.en /\ "SSEND" \notin h.en
  BY <1>0, <1>2 DEF Modes
<1>6. d.mode = "FRAME" \/ d.mode = "BLOCK"
  <2>1. d.mode # "NONE" BY <1>0, <1>4 DEF Modes
  <2> QED BY <1>1, <2>1 DEF SlaveTypes, SlaveNumbers
<1>7. Level(h.tx) \in Nat /\ Level(<<>>) = 0
  <2>1. Sequential(h.tx) BY <1>1 DEF SlaveTypes, SlaveNumbers
  <2> QED BY <2>1, SequentialIs, Empty
<1> HIDE DEF Here
<1>8. ASSUME log' = log \/ \E g, e : log' = [log EXCEPT !.got = g, !.missed = e]
                            \/ log' = [log EXCEPT !.got = g]
      PROVE  LogTypes'
  BY <1>0, <1>8, Zenon DEF LogTypes
<1>9. CASE RxDone
  <2> DEFINE x == ReadSlaveRxFifo(Here)
  <2>1. Become(x) /\ LogTypes' BY <1>8, <1>9 DEF RxDone
  <2>2. SlaveTypes(x) /\ SameModes(Here, x) /\ SameIrqs(Here, x) /\ x.h.tx = h.tx
    BY <1>1, ReadDoes
  <2> HIDE DEF x
  <2>5. x.h.en = h.en /\ x.h.ris = h.ris /\ x.h.tx = h.tx
    BY <1>1, <2>2 DEF SameIrqs
  <2>6. d.mode = "FRAME" => Level(x.h.tx) + Owed' <= 2
    <3>1. h'.ris = h.ris BY <2>1, <2>5 DEF Become
    <3>2. Owed' = 0 \/ "TXDONE" \in h.ris BY <3>1, <1>2
    <3> QED BY <1>2, <1>5, <1>7, <2>5, <3>2, SMT
  <2> QED BY <1>2, <2>1, <2>2, <2>5, <2>6, Handled
<1>10. CASE TxDoneIrq /\ "TXDONE" \in Pending /\ isr = 2
  <2> DEFINE x == IF d.mode = "FRAME" THEN LoadFrame(Here) ELSE Fill(Here)
  <2>1. Become(x) /\ LogTypes' BY <1>8, <1>10 DEF TxDoneIrq
  <2>2. /\ SlaveTypes(x) /\ SameModes(Here, x) /\ SameIrqs(Here, x)
        /\ d.mode = "FRAME" => Level(x.h.tx) <= 2
    <3>1. CASE d.mode = "FRAME"
      <4>1. Level(h.tx) + 1 <= 2 BY <1>5, <1>10, <3>1 DEF Pending
      <4>2. Level(Here.h.tx) < Depth BY <4>1, <1>1, <1>7, Sizes, SMT
      <4>3. /\ SlaveTypes(LoadFrame(Here)) /\ SameModes(Here, LoadFrame(Here))
            /\ SameIrqs(Here, LoadFrame(Here))
            /\ Level(LoadFrame(Here).h.tx) = Level(Here.h.tx) + 1
        BY <1>1, <4>2, LoadDoes
      <4> QED BY <3>1, <4>1, <4>3, <1>1
    <3>2. CASE d.mode # "FRAME"
      <4>1. x = Fill(Here) BY <3>2
      <4> QED BY <3>2, <4>1, <1>1, FillDoes
    <3> QED BY <3>1, <3>2
  <2> HIDE DEF x
  <2>5. x.h.en = h.en BY <1>1, <2>2 DEF SameIrqs
  <2>6. d.mode = "FRAME" => Level(x.h.tx) + Owed' <= 2
    <3>1. Level(x.h.tx) \in Nat
      <4>1. Sequential(x.h.tx) BY <2>2 DEF SlaveTypes, SlaveNumbers
      <4> QED BY <4>1, SequentialIs
    <3>2. Owed' = 0 BY <1>2, <1>10
    <3> QED BY <3>1, <3>2, <2>2, SMT
  <2> QED BY <1>2, <2>1, <2>2, <2>5, <2>6, Handled
<1>11. CASE Cmd /\ "CMD" \in Pending
  <2>0. d.mode = "BLOCK" BY <1>5, <1>6, <1>11 DEF Pending
  <2> DEFINE x == ReadSlaveRxFifo(Here)
             c == SetCmdResponse(x)
             y == IF d.cmdHandler THEN Fill(c) ELSE x
             z == [y EXCEPT !.d.cmdDone = TRUE, !.h.en = @ \ {"CMD"}]
  <2>1. Become(z) /\ LogTypes' BY <1>8, <1>11 DEF Cmd
  <2>2. SlaveTypes(x) /\ SameModes(Here, x) /\ SameIrqs(Here, x)
    BY <1>1, ReadDoes
  <2> HIDE DEF x
  <2>3. SlaveTypes(c) /\ SameModes(x, c) /\ SameIrqs(x, c) BY <2>2, CmdResponseDoes
  <2> HIDE DEF c
  <2>4. SlaveTypes(Fill(c)) /\ SameModes(c, Fill(c)) /\ SameIrqs(c, Fill(c))
    BY <2>3, FillDoes
  <2>5. SlaveTypes(y) /\ SameModes(Here, y) /\ SameIrqs(Here, y)
    <3>1. SameModes(Here, Fill(c))
      BY <2>2, <2>3, <2>4, SameModesIsTransitive
    <3>2. SameIrqs(Here, Fill(c)) BY <2>2, <2>3, <2>4 DEF SameIrqs
    <3>3. CASE d.cmdHandler
      <4>1. y = Fill(c) BY <3>3
      <4> QED BY <4>1, <3>1, <3>2, <2>4
    <3>4. CASE ~d.cmdHandler
      <4>1. y = x BY <3>4
      <4> QED BY <4>1, <2>2
    <3> QED BY <3>3, <3>4
  <2> HIDE DEF y
  <2>6. SlaveTypes(z) /\ SameModes(y, z) /\ z.h.en = y.h.en \ {"CMD"}
    <3>0. DOMAIN y = {"d", "h"} /\ DOMAIN y.d = DriverFields /\ DOMAIN y.h = HardwareFields
      BY <2>5 DEF SlaveTypes, SlaveNumbers
    <3>1. /\ DOMAIN z = {"d", "h"} /\ z.d = [y.d EXCEPT !.cmdDone = TRUE]
          /\ z.h = [y.h EXCEPT !.en = @ \ {"CMD"}]
      BY <3>0, Zenon
    <3> HIDE DEF z
    <3>2. /\ DOMAIN z.d = DriverFields /\ z.d.txSize = y.d.txSize /\ z.d.txIdx = y.d.txIdx
          /\ z.d.respSize = y.d.respSize /\ z.d.respIdx = y.d.respIdx
          /\ z.d.mode = y.d.mode /\ z.d.rx = y.d.rx /\ z.d.rxIdx = y.d.rxIdx
          /\ z.d.cmdDone = TRUE
          /\ z.d.blockHandler = y.d.blockHandler /\ z.d.cmdHandler = y.d.cmdHandler
          /\ z.d.frameHandler = y.d.frameHandler
      BY <3>0, <3>1, Zenon
    <3>3. /\ DOMAIN z.h = HardwareFields /\ z.h.tx = y.h.tx /\ z.h.rx = y.h.rx
          /\ z.h.ris = y.h.ris /\ z.h.en = y.h.en \ {"CMD"}
          /\ z.h.cnt = y.h.cnt /\ z.h.lim = y.h.lim
      BY <3>0, <3>1, Zenon
    <3>4. SlaveNumbers(z)
      <4>1. z.h.en \subseteq ToSet(Sources)
        BY <3>3, <2>5 DEF SlaveTypes, SlaveNumbers
      <4> QED BY <4>1, <3>1, <3>2, <3>3, <2>5 DEF SlaveTypes, SlaveNumbers
    <3>5. SlaveFlags(z) BY <3>2, <2>5, Zenon DEF SlaveTypes, SlaveFlags
    <3>6. SameModes(y, z) BY <3>2, <3>3, Zenon DEF SameModes
    <3> QED BY <3>3, <3>4, <3>5, <3>6 DEF SlaveTypes
  <2> HIDE DEF z
  <2>8. SameModes(Here, z) BY <2>5, <2>6, SameModesIsTransitive
  <2>9. z.h.en \union {"CMD"} = h.en \union {"CMD"}
    <3>1. z.h.en = h.en \ {"CMD"} BY <1>1, <2>5, <2>6 DEF SameIrqs
    <3> QED BY <3>1
  <2>11. d.mode # "FRAME" BY <2>0
  <2> QED BY <1>2, <2>1, <2>6, <2>8, <2>9, <2>11, Handled
<1>12. CASE RxOverflow
  <2> DEFINE y == Recovered(Here)
  <2>1. Become(y) /\ LogTypes' BY <1>8, <1>12 DEF RxOverflow
  <2>2. /\ SlaveTypes(y) /\ SameModes(Here, y) /\ y.h.tx = <<>> /\ y.h.ris = {}
        /\ y.h.en = h.en
    BY <1>1, Recovering
  <2> HIDE DEF y
  <2>3. Level(y.h.tx) + Owed' <= 2
    <3>1. Level(y.h.tx) = 0 BY <2>2, <1>7
    <3> QED BY <1>2, <3>1, SMT
  <2> QED BY <1>2, <2>1, <2>2, <2>3, Handled
<1>13. CASE TxUnderrun
  <2> DEFINE x == [Here EXCEPT !.h.tx = <<>>]
             u == [x EXCEPT !.d.txIdx = 0]
             y == IF d.mode = "FRAME" THEN LoadFrame(x) ELSE Fill(u)
  <2>1. Become(y)
    <3>1. CASE d.mode = "FRAME" BY <1>13, <3>1, Zenon DEF TxUnderrun
    <3>2. CASE d.mode = "BLOCK" /\ d.mode # "FRAME" BY <1>13, <3>2, Zenon DEF TxUnderrun
    <3> QED BY <3>1, <3>2, <1>6
  <2>2. LogTypes' BY <1>8, <1>13 DEF TxUnderrun
  <2>3. /\ SlaveTypes(x) /\ SameModes(Here, x) /\ SameIrqs(Here, x) /\ x.h.tx = <<>>
    BY <1>1, EmptiedDoes
  <2> HIDE DEF x
  <2>4. SlaveTypes(u) /\ SameModes(x, u) /\ SameIrqs(x, u) BY <2>3, RestartDoes
  <2> HIDE DEF u
  <2>5. /\ SlaveTypes(y) /\ SameModes(Here, y) /\ SameIrqs(Here, y)
        /\ d.mode = "FRAME" => Level(y.h.tx) = 1
    <3>1. CASE d.mode = "FRAME"
      <4>1. Level(x.h.tx) = 0 BY <2>3, <1>7
      <4>2. Level(x.h.tx) < Depth BY <4>1, Sizes, SMT
      <4>3. /\ SlaveTypes(LoadFrame(x)) /\ SameModes(x, LoadFrame(x))
            /\ SameIrqs(x, LoadFrame(x)) /\ Level(LoadFrame(x).h.tx) = Level(x.h.tx) + 1
        BY <2>3, <4>2, LoadDoes
      <4>4. y = LoadFrame(x) BY <3>1
      <4> HIDE DEF y
      <4>5. Level(y.h.tx) = 1 BY <4>1, <4>3, <4>4, SMT
      <4>6. SameModes(Here, y) BY <2>3, <4>3, <4>4, SameModesIsTransitive
      <4>7. SameIrqs(Here, y) BY <2>3, <4>3, <4>4 DEF SameIrqs
      <4> QED BY <4>3, <4>4, <4>5, <4>6, <4>7
    <3>2. CASE d.mode # "FRAME"
      <4>1. y = Fill(u) BY <3>2
      <4> HIDE DEF y
      <4>2. SlaveTypes(y) /\ SameModes(u, y) /\ SameIrqs(u, y) BY <2>4, <4>1, FillDoes
      <4>3. SameModes(Here, y) BY <2>3, <2>4, <4>2, SameModesIsTransitive
      <4>4. SameIrqs(Here, y) BY <2>3, <2>4, <4>2 DEF SameIrqs
      <4> QED BY <3>2, <4>2, <4>3, <4>4
    <3> QED BY <3>1, <3>2
  <2> HIDE DEF y
  <2>8. y.h.en = h.en BY <1>1, <2>5 DEF SameIrqs
  <2>9. d.mode = "FRAME" => Level(y.h.tx) + Owed' <= 2
    BY <1>2, <2>5, SMT
  <2> QED BY <1>2, <2>1, <2>2, <2>5, <2>8, <2>9, Handled
<1>14. CASE SsEnd /\ "SSEND" \in Pending
  <2>0. d.mode = "BLOCK" BY <1>5, <1>6, <1>14 DEF Pending
  <2> DEFINE x == ReadSlaveRxFifo(Here)
             y == Rewound(x)
             z == [y EXCEPT !.d.rxIdx = 0]
  <2>1. Become(z) /\ LogTypes' BY <1>8, <1>14 DEF SsEnd
  <2>2. SlaveTypes(x) /\ SameModes(Here, x) /\ SameIrqs(Here, x)
    BY <1>1, ReadDoes
  <2> HIDE DEF x
  <2>3. SlaveTypes(y) /\ SameModes(x, y) /\ y.h.en \in {x.h.en, x.h.en \union {"CMD"}}
    BY <2>2, RewoundDoes
  <2> HIDE DEF y
  <2>4. SlaveTypes(z) /\ SameModes(y, z) /\ SameIrqs(y, z)
    BY <2>3, ResetDoes
  <2> HIDE DEF z
  <2>6. SameModes(Here, z) BY <2>2, <2>3, <2>4, SameModesIsTransitive
  <2>7. z.h.en \union {"CMD"} = h.en \union {"CMD"}
    <3>1. z.h.en \in {h.en, h.en \union {"CMD"}}
      BY <1>1, <2>2, <2>3, <2>4 DEF SameIrqs
    <3> QED BY <3>1
  <2>8. d.mode # "FRAME" BY <2>0
  <2> QED BY <1>2, <2>1, <2>4, <2>6, <2>7, <2>8, Handled
<1> QED
  BY <1>0, <1>9, <1>10, <1>11, <1>12, <1>13, <1>14, ServesWhich

\* So does clearing a source.
LEMMA ClearsKeeps ==
  ASSUME SlaveSide, IsrClears
  PROVE  SlaveSide'
<1>1. SlaveTypes(Here) /\ Here.d = d /\ Here.h = h BY HereIs
<1>2. isr \in 0..2 * NSources /\ LogTypes /\ Modes BY DEF SlaveSide
<1>3. NSources = 6 BY <1>2, PlaceIs
<1>4. isr \in 7..12 /\ isr' = After(isr - 6) /\ UNCHANGED bus
  BY <1>2, <1>3, SMT DEF IsrClears
<1>5. isr # 0 /\ isr' \in 0..6 BY <1>3, <1>4, SMT DEF After
<1>6. isr' \in 0..2 * NSources BY <1>3, <1>5, SMT
<1> DEFINE y == Clear(Here, Sources[isr - 6])
<1>7. Become(y) /\ LogTypes'
  <2>1. Cleared(isr - 6) BY <1>3 DEF IsrClears
  <2>2. Become(y) BY <2>1 DEF Cleared
  <2> DEFINE e == IF Sources[isr - 6] = "RXDONE" THEN h.rx # <<>> ELSE log.missed
             f == log.fault \/ (Sources[isr - 6] = "TXDONE" /\ Starved)
  <2>3. log' = [log EXCEPT !.missed = e, !.fault = f] BY <2>1 DEF Cleared
  <2>4. f \in BOOLEAN BY Zenon
  <2> HIDE DEF e, f
  <2> QED BY <1>2, <2>2, <2>3, <2>4, Zenon DEF LogTypes
<1> HIDE DEF Here
<1>8. /\ SlaveTypes(y) /\ SameModes(Here, y) /\ y.h.tx = h.tx /\ y.h.en = h.en
      /\ y.h.ris = h.ris \ {Sources[isr - 6]}
  BY <1>1, ClearDoes
<1> HIDE DEF y
<1>9. d.mode = "FRAME" => Level(y.h.tx) + Owed' <= 2
  <2>1. h'.ris = h.ris \ {Sources[isr - 6]} BY <1>7, <1>8 DEF Become
  <2>2. ASSUME "TXDONE" \in h'.ris PROVE "TXDONE" \in h.ris /\ ~Clearing("TXDONE")
    BY <1>3, <2>1, <2>2 DEF Clearing
  <2>3. Owed' = 0 \/ (Owed' = 1 /\ Owed = 1) BY <2>2 DEF Owed
  <2>4. Owed \in {0, 1} BY DEF Owed
  <2>5. Level(h.tx) \in Nat
    <3>1. Sequential(h.tx) BY <1>1 DEF SlaveTypes, SlaveNumbers
    <3> QED BY <3>1, SequentialIs
  <2>6. d.mode = "FRAME" => Level(h.tx) + Owed <= 2 BY <1>2 DEF Modes
  <2>7. Owed' <= Owed /\ Owed' \in {0, 1} BY <2>3, <2>4, SMT
  <2> QED BY <1>8, <2>4, <2>5, <2>6, <2>7, SMT
<1> QED BY <1>4, <1>5, <1>6, <1>7, <1>8, <1>9, Handled

\* MSS_SPI_set_slave_block_buffers does, and leaves block mode with an empty buffer.
LEMMA BuffersKeep ==
  ASSUME SlaveSide, NEW size \in TxSizes, SetSlaveBlockBuffers(size), ~bus.sel,
         d.mode \in {"NONE", "BLOCK"}, UNCHANGED <<isr, bus, log>>
  PROVE  /\ SlaveSide' /\ d'.mode = "BLOCK" /\ d'.rxIdx = 0
         /\ h'.rx = <<>> /\ h'.ris \subseteq h.ris
<1>1. SlaveTypes(Here) /\ Here.d = d /\ Here.h = h BY HereIs
<1>2. size \in Nat BY Sizes
<1> DEFINE cmd == d.cmdHandler
           n == IF cmd THEN Least(Depth, size) ELSE Depth
           loaded == [i \in 1..n |-> IF i <= size THEN <<"tx", i>> ELSE Zero]
           idx == IF cmd /\ size < Depth THEN size + 1 ELSE Depth
           y == [d |-> [d EXCEPT !.mode = "BLOCK", !.cmdDone = ~cmd, !.frameHandler = FALSE,
                                 !.blockHandler = TRUE, !.rxIdx = 0,
                                 !.txSize = size, !.txIdx = idx],
                 h |-> [h EXCEPT !.tx = loaded, !.rx = <<>>, !.cnt = 0, !.lim = Threshold,
                                 !.auto = size = 0,
                                 !.ris = @ \ {"TXDONE", "SSEND", "TXURUN", "RXOVFLOW", "RXDONE"},
                                 !.en = (IF cmd THEN @ ELSE @ \ {"CMD"})
                                        \union (IF size > 0 THEN {"TXDONE"} ELSE {})
                                        \union {"SSEND", "RXDONE", "TXURUN", "RXOVFLOW"}]]
           en == (IF cmd THEN h.en ELSE h.en \ {"CMD"})
                 \union (IF size > 0 THEN {"TXDONE"} ELSE {})
                 \union {"SSEND", "RXDONE", "TXURUN", "RXOVFLOW"}
<1>3. Become(y) BY Zenon DEF SetSlaveBlockBuffers
<1>4. n \in Nat /\ n <= Depth BY <1>2, Sizes, SMT DEF Least
<1>5. idx \in Nat BY <1>2, Sizes, SMT
<1> HIDE DEF n, idx
<1>6. Sequential(loaded) /\ Level(loaded) = n BY <1>4, Made
<1> HIDE DEF loaded
<1>7. DOMAIN d = DriverFields /\ DOMAIN h = HardwareFields
  BY <1>1 DEF SlaveTypes, SlaveNumbers
<1>8. /\ d' = [d EXCEPT !.mode = "BLOCK", !.cmdDone = ~cmd, !.frameHandler = FALSE,
                        !.blockHandler = TRUE, !.rxIdx = 0,
                        !.txSize = size, !.txIdx = idx]
      /\ h' = [h EXCEPT !.tx = loaded, !.rx = <<>>, !.cnt = 0, !.lim = Threshold,
                        !.auto = size = 0,
                        !.ris = @ \ {"TXDONE", "SSEND", "TXURUN", "RXOVFLOW", "RXDONE"},
                        !.en = en]
  BY <1>3, <1>7, Zenon DEF Become
<1>9. /\ DOMAIN d' = DriverFields /\ d'.mode = "BLOCK" /\ d'.cmdDone = ~cmd
      /\ d'.frameHandler = FALSE /\ d'.blockHandler = TRUE /\ d'.rxIdx = 0
      /\ d'.txSize = size /\ d'.txIdx = idx /\ d'.rx = d.rx /\ d'.respSize = d.respSize
      /\ d'.respIdx = d.respIdx /\ d'.cmdHandler = d.cmdHandler
  BY <1>7, <1>8, Zenon
<1>10. /\ DOMAIN h' = HardwareFields /\ h'.tx = loaded /\ h'.rx = <<>> /\ h'.cnt = 0
       /\ h'.lim = Threshold /\ h'.en = en
       /\ h'.ris = h.ris \ {"TXDONE", "SSEND", "TXURUN", "RXOVFLOW", "RXDONE"}
  BY <1>7, <1>8, Zenon
<1>11. /\ en \subseteq ToSet(Sources)
       /\ {"SSEND", "RXDONE", "TXURUN", "RXOVFLOW"} \subseteq en
  <2>1. {"SSEND", "RXDONE", "TXURUN", "RXOVFLOW", "TXDONE"} \subseteq ToSet(Sources)
    BY SMT DEF Sources, ToSet
  <2>2. h.en \subseteq ToSet(Sources) BY <1>1 DEF SlaveTypes, SlaveNumbers
  <2> QED BY <2>1, <2>2
<1> HIDE DEF en, y, cmd
<1>12. SlaveTypes(Here')
  <2>0. Here'.d = d' /\ Here'.h = h' /\ DOMAIN Here' = {"d", "h"} BY DEF Here
  <2>1. cmd \in BOOLEAN BY <1>1, Zenon DEF SlaveTypes, SlaveFlags, cmd
  <2> HIDE DEF Here
  <2>2. SlaveFlags(Here')
    <3>1. d'.cmdHandler \in BOOLEAN BY <1>9, <2>1 DEF cmd
    <3>2. d'.cmdDone \in BOOLEAN BY <1>9
    <3> QED BY <2>0, <3>1, <3>2, <1>9, Zenon DEF SlaveFlags
  <2>3. /\ Sequential(h'.tx) /\ Level(h'.tx) <= Depth
        /\ Sequential(h'.rx) /\ Level(h'.rx) <= Depth
    BY <1>4, <1>6, <1>10, Empty, Sizes, SMT
  <2>4. h'.ris \subseteq ToSet(Sources) /\ h'.en \subseteq ToSet(Sources)
    BY <1>1, <1>10, <1>11 DEF SlaveTypes, SlaveNumbers
  <2>5. h'.cnt \in Nat /\ h'.lim \in Nat
    <3>1. Threshold \in Nat BY Sizes, SMT DEF Threshold
    <3> QED BY <3>1, <1>10
  <2>6. /\ Sequential(d'.rx) /\ Level(d'.rx) = RxSize /\ d'.respSize \in Nat /\ d'.respIdx \in Nat
        /\ d'.respIdx <= d'.respSize /\ d'.txSize \in Nat /\ d'.txIdx \in Nat
        /\ d'.rxIdx \in Nat
    BY <1>1, <1>2, <1>5, <1>9 DEF SlaveTypes, SlaveNumbers
  <2>7. SlaveNumbers(Here')
    BY <2>0, <2>3, <2>4, <2>5, <2>6, <1>9, <1>10 DEF SlaveNumbers
  <2> QED BY <2>2, <2>7 DEF SlaveTypes
<1>13. Modes'
  <2>1. Modes BY DEF SlaveSide
  <2>2. bus' = bus OBVIOUS
  <2>3. bus.t = 0 => ~bus.sel /\ bus.n = 0 /\ h.ris = {} /\ isr' = 0 BY <2>1 DEF Modes
  <2>4. bus.t = 0 => h'.ris = {} BY <2>3, <1>10
  <2>5. d'.mode = "BLOCK" /\ d'.blockHandler BY <1>9
  <2> QED BY <2>2, <2>3, <2>4, <2>5, <1>9, <1>10, <1>11, Zenon DEF Modes
<1>14. SlaveSide' BY <1>12, <1>13 DEF SlaveSide, LogTypes
<1>15. h'.ris \subseteq h.ris BY <1>10
<1> QED BY <1>9, <1>10, <1>14, <1>15

\* What a handler makes of its record becomes the state.
LEMMA SlaveTypesOf ==
  ASSUME NEW y, SlaveTypes(y), Become(y)
  PROVE  SlaveTypes(Here')
<1>1. Here'.d = y.d /\ Here'.h = y.h /\ DOMAIN Here' = {"d", "h"} BY DEF Here, Become
<1> HIDE DEF Here
<1>2. SlaveNumbers(Here') BY <1>1 DEF SlaveTypes, SlaveNumbers
<1>3. SlaveFlags(Here') BY <1>1, Zenon DEF SlaveTypes, SlaveFlags
<1> QED BY <1>2, <1>3 DEF SlaveTypes

\* MSS_SPI_set_cmd_handler keeps them, and the mode.
LEMMA CmdHandlerKeeps ==
  ASSUME SlaveSide, NEW on \in BOOLEAN, SetCmdHandler(on), ~bus.sel,
         d.mode \in {"NONE", "BLOCK"}, UNCHANGED <<isr, bus, log>>
  PROVE  /\ SlaveSide' /\ d'.mode = d.mode /\ d'.rxIdx = d.rxIdx
         /\ h'.ris \subseteq h.ris /\ (h'.rx = h.rx \/ h'.rx = <<>>)
<1>1. SlaveTypes(Here) /\ Here.d = d /\ Here.h = h BY HereIs
<1> DEFINE x == [Here EXCEPT !.d.respSize = 0, !.d.respIdx = 0, !.d.cmdDone = ~on,
                             !.d.cmdHandler = on]
           u == [x EXCEPT !.d.txIdx = 0]
           f == Flushed(u)
           z == Fill(f)
           w == [z EXCEPT !.h.ris = @ \ {"CMD"}, !.h.en = @ \union {"CMD"}]
           v == [x EXCEPT !.h.en = @ \ {"CMD"}]
<1>2. Become(IF on THEN w ELSE v)
  <2>1. CASE on BY <2>1, Zenon DEF SetCmdHandler
  <2>2. CASE ~on BY <2>2, Zenon DEF SetCmdHandler
  <2> QED BY <2>1, <2>2
<1>3. Modes BY DEF SlaveSide
<1>4. DOMAIN Here = {"d", "h"} /\ DOMAIN d = DriverFields /\ DOMAIN h = HardwareFields
  BY <1>1 DEF SlaveTypes, SlaveNumbers
<1> HIDE DEF Here
<1>5. /\ DOMAIN x = {"d", "h"} /\ x.h = h
      /\ x.d = [d EXCEPT !.respSize = 0, !.respIdx = 0, !.cmdDone = ~on, !.cmdHandler = on]
  BY <1>1, <1>4, Zenon
<1> HIDE DEF x
<1>6. /\ DOMAIN x.d = DriverFields /\ x.d.txSize = d.txSize /\ x.d.txIdx = d.txIdx
      /\ x.d.respSize = 0 /\ x.d.respIdx = 0
      /\ x.d.mode = d.mode /\ x.d.rx = d.rx /\ x.d.rxIdx = d.rxIdx
      /\ x.d.cmdDone = ~on /\ x.d.cmdHandler = on
      /\ x.d.blockHandler = d.blockHandler /\ x.d.frameHandler = d.frameHandler
  BY <1>4, <1>5, Zenon
<1>7. SlaveTypes(x)
  <2>1. SlaveNumbers(x)
    <3>1. x.d.respSize \in Nat /\ x.d.respIdx \in Nat /\ x.d.respIdx <= x.d.respSize
      BY <1>6, SMT
    <3> QED BY <3>1, <1>1, <1>5, <1>6 DEF SlaveTypes, SlaveNumbers
  <2>2. SlaveFlags(x)
    <3>1. x.d.cmdDone \in BOOLEAN /\ x.d.cmdHandler \in BOOLEAN BY <1>6
    <3> QED BY <3>1, <1>1, <1>6, Zenon DEF SlaveTypes, SlaveFlags
  <2> QED BY <2>1, <2>2 DEF SlaveTypes
<1>8. CASE on
  <2>1. /\ SlaveTypes(u) /\ SameModes(x, u) /\ SameTaken(x, u) /\ SameIrqs(x, u)
        /\ u.h = x.h
    BY <1>7, RestartDoes
  <2>2. u.d.txSize = d.txSize /\ u.d.respSize = 0 /\ ~u.d.cmdDone
    <3>1. u.d = [x.d EXCEPT !.txIdx = 0] BY <1>5, Zenon
    <3> HIDE DEF u
    <3>2. u.d.txSize = d.txSize /\ u.d.respSize = 0 BY <3>1, <1>6, Zenon
    <3>3. u.d.cmdDone = x.d.cmdDone BY <3>1, <1>6, Zenon
    <3> QED BY <3>2, <3>3, <1>6, <1>8
  <2> HIDE DEF u
  <2>3. /\ SlaveTypes(f) /\ SameModes(u, f) /\ f.d = u.d /\ f.h.rx = <<>> /\ f.h.tx = <<>>
        /\ SameIrqs(u, f)
    BY <2>1, FlushedDoes
  <2> HIDE DEF f
  <2>4. /\ SlaveTypes(z) /\ SameModes(f, z) /\ SameTaken(f, z) /\ SameIrqs(f, z)
        /\ z.d.txSize = f.d.txSize
        /\ f.d.txSize = 0 /\ f.d.respSize = 0 /\ ~f.d.cmdDone => Level(z.h.tx) = Level(f.h.tx)
    BY <2>3, FillDoes
  <2> HIDE DEF z
  <2>5. DOMAIN z = {"d", "h"} /\ DOMAIN z.h = HardwareFields
    BY <2>4 DEF SlaveTypes, SlaveNumbers
  <2>6. /\ DOMAIN w = {"d", "h"} /\ w.d = z.d
        /\ w.h = [z.h EXCEPT !.ris = @ \ {"CMD"}, !.en = @ \union {"CMD"}]
    BY <2>5, Zenon
  <2> HIDE DEF w
  <2>7. /\ DOMAIN w.h = HardwareFields /\ w.h.tx = z.h.tx /\ w.h.rx = z.h.rx
        /\ w.h.ris = z.h.ris \ {"CMD"} /\ w.h.en = z.h.en \union {"CMD"}
        /\ w.h.cnt = z.h.cnt /\ w.h.lim = z.h.lim
    BY <2>5, <2>6, Zenon
  <2>8. SlaveTypes(w)
    <3>1. w.h.ris \subseteq ToSet(Sources) /\ w.h.en \subseteq ToSet(Sources)
      <4>1. "CMD" \in ToSet(Sources) BY SMT DEF Sources, ToSet
      <4> QED BY <4>1, <2>4, <2>7 DEF SlaveTypes, SlaveNumbers
    <3> QED BY <3>1, <2>4, <2>6, <2>7, HardwareOnly DEF SlaveTypes, SlaveNumbers
  <2>9. d' = w.d /\ h' = w.h BY <1>2, <1>8 DEF Become
  <2>10. SlaveTypes(Here') BY <1>2, <1>8, <2>8, SlaveTypesOf
  <2>11. /\ h'.rx = <<>> /\ h'.en = h.en \union {"CMD"} /\ h'.ris = h.ris \ {"CMD"}
    BY <2>1, <2>3, <2>4, <2>7, <2>9, <1>5 DEF SameIrqs, SameTaken
  <2>12. SameModes(x, z) BY <2>1, <2>3, <2>4, SameModesIsTransitive
  <2>13. /\ d'.mode = d.mode /\ d'.blockHandler = d.blockHandler
         /\ d'.frameHandler = d.frameHandler /\ h'.lim = h.lim /\ h'.cnt \in {h.cnt, 0}
    BY <2>6, <2>7, <2>9, <2>12, <1>5, <1>6, Zenon DEF SameModes
  <2>14. d.mode = "NONE" => h'.tx = <<>> /\ d'.txSize = 0
    <3>1. SUFFICES ASSUME d.mode = "NONE" PROVE h'.tx = <<>> /\ d'.txSize = 0
      OBVIOUS
    <3>2. d.txSize = 0 BY <1>3, <3>1 DEF Modes
    <3>3. f.d.txSize = 0 /\ f.d.respSize = 0 /\ ~f.d.cmdDone BY <2>2, <2>3, <3>2
    <3>4. Level(z.h.tx) = 0 BY <2>3, <2>4, <3>3, Empty
    <3>5. z.h.tx = <<>>
      <4>1. Sequential(z.h.tx) BY <2>4 DEF SlaveTypes, SlaveNumbers
      <4> QED BY <4>1, <3>4, SequentialIs
    <3> QED BY <3>3, <3>5, <2>4, <2>6, <2>7, <2>9
  <2>15. Modes'
    <3>1. bus' = bus OBVIOUS
    <3>2. h'.lim = 1 => h'.cnt = 0 BY <2>13, <1>3, Zenon DEF Modes
    <3>3. bus.t = 0 => ~bus.sel /\ bus.n = 0 /\ h'.ris = {} /\ isr' = 0
      BY <2>11, <1>3 DEF Modes
    <3>4. d.mode = "NONE" => bus.t = 0 /\ h'.en \subseteq {"CMD"} /\ h.lim = 1
      BY <2>11, <1>3 DEF Modes
    <3>5. d.mode = "NONE" => ~d.frameHandler BY <1>3 DEF Modes
    <3>6. d.mode = "BLOCK" => {"SSEND", "RXDONE", "TXURUN", "RXOVFLOW"} \subseteq h'.en
      BY <2>11, <1>3 DEF Modes
    <3>7. d.mode = "BLOCK" => d.blockHandler BY <1>3 DEF Modes
    <3>8. d.mode # "FRAME" OBVIOUS
    <3> QED BY <3>1, <3>2, <3>3, <3>4, <3>5, <3>6, <3>7, <3>8, <2>11, <2>13, <2>14, Zenon
            DEF Modes
  <2>16. d'.rxIdx = d.rxIdx
    BY <2>1, <2>3, <2>4, <2>6, <2>9, <1>6 DEF SameTaken
  <2>17. h'.ris \subseteq h.ris BY <2>11
  <2>18. SlaveSide' BY <2>10, <2>15 DEF SlaveSide, LogTypes
  <2> QED BY <2>11, <2>13, <2>16, <2>17, <2>18
<1>9. CASE ~on
  <2>6. /\ DOMAIN v = {"d", "h"} /\ v.d = x.d /\ v.h = [h EXCEPT !.en = @ \ {"CMD"}]
    BY <1>5, Zenon
  <2> HIDE DEF v
  <2>7. /\ DOMAIN v.h = HardwareFields /\ v.h.tx = h.tx /\ v.h.rx = h.rx
        /\ v.h.ris = h.ris /\ v.h.en = h.en \ {"CMD"}
        /\ v.h.cnt = h.cnt /\ v.h.lim = h.lim
    BY <1>4, <2>6, Zenon
  <2>8. SlaveTypes(v)
    <3>1. v.h.en \subseteq ToSet(Sources)
      BY <1>1, <2>7 DEF SlaveTypes, SlaveNumbers
    <3> QED BY <3>1, <1>5, <1>7, <2>6, <2>7, HardwareOnly DEF SlaveTypes, SlaveNumbers
  <2>9. d' = v.d /\ h' = v.h BY <1>2, <1>9 DEF Become
  <2>10. SlaveTypes(Here') BY <1>2, <1>9, <2>8, SlaveTypesOf
  <2>15. Modes'
    <3>1. bus' = bus OBVIOUS
    <3>2. /\ h'.lim = h.lim /\ h'.cnt = h.cnt /\ h'.ris = h.ris /\ h'.rx = h.rx
          /\ h'.tx = h.tx /\ h'.en = h.en \ {"CMD"} /\ d'.mode = d.mode
          /\ d'.blockHandler = d.blockHandler /\ d'.frameHandler = d.frameHandler
          /\ d'.txSize = d.txSize
      BY <2>6, <2>7, <2>9, <1>6
    <3>4. d.mode = "NONE" => h'.en \subseteq {"CMD"}
      BY <3>2, <1>3 DEF Modes
    <3>6. d.mode = "BLOCK" => {"SSEND", "RXDONE", "TXURUN", "RXOVFLOW"} \subseteq h'.en
      BY <3>2, <1>3 DEF Modes
    <3>8. d.mode # "FRAME" OBVIOUS
    <3> QED BY <1>3, <3>1, <3>2, <3>4, <3>6, <3>8, Zenon DEF Modes
  <2>16. /\ d'.rxIdx = d.rxIdx /\ d'.mode = d.mode /\ h'.ris = h.ris /\ h'.rx = h.rx
    BY <2>6, <2>7, <2>9, <1>6
  <2>17. SlaveSide' BY <2>10, <2>15 DEF SlaveSide, LogTypes
  <2> QED BY <2>16, <2>17
<1> QED BY <1>8, <1>9

\* MSS_SPI_set_frame_rx_handler does.
LEMMA FrameRxKeeps ==
  ASSUME SlaveSide, SetFrameRxHandler, ~bus.sel,
         d.mode \in {"NONE", "FRAME"}, UNCHANGED <<isr, bus, log>>
  PROVE  SlaveSide'
<1>1. SlaveTypes(Here) /\ Here.d = d /\ Here.h = h BY HereIs
<1>3. Modes BY DEF SlaveSide
<1>4. DOMAIN d = DriverFields /\ DOMAIN h = HardwareFields
  BY <1>1 DEF SlaveTypes, SlaveNumbers
<1> DEFINE en == (h.en \ {"CMD", "SSEND"}) \union {"TXURUN", "RXOVFLOW", "RXDONE"}
<1>5. /\ d' = [d EXCEPT !.blockHandler = FALSE, !.cmdHandler = FALSE, !.frameHandler = TRUE,
                        !.mode = "FRAME"]
      /\ h' = [h EXCEPT !.auto = @ \/ h.tx = <<>>, !.lim = 1,
                        !.ris = @ \ {"TXURUN", "RXOVFLOW", "RXDONE"}, !.en = en]
  BY <1>4, Zenon DEF SetFrameRxHandler
<1>6. /\ DOMAIN d' = DriverFields /\ d'.mode = "FRAME" /\ d'.cmdDone = d.cmdDone
      /\ d'.frameHandler = TRUE /\ d'.blockHandler = FALSE /\ d'.rxIdx = d.rxIdx
      /\ d'.txSize = d.txSize /\ d'.txIdx = d.txIdx /\ d'.rx = d.rx
      /\ d'.respSize = d.respSize /\ d'.respIdx = d.respIdx /\ d'.cmdHandler = FALSE
  BY <1>4, <1>5, Zenon
<1>7. /\ DOMAIN h' = HardwareFields /\ h'.tx = h.tx /\ h'.rx = h.rx /\ h'.cnt = h.cnt
      /\ h'.lim = 1 /\ h'.en = en /\ h'.ris = h.ris \ {"TXURUN", "RXOVFLOW", "RXDONE"}
  BY <1>4, <1>5, Zenon
<1>8. SlaveTypes(Here')
  <2>0. Here'.d = d' /\ Here'.h = h' /\ DOMAIN Here' = {"d", "h"} BY DEF Here
  <2> HIDE DEF Here
  <2>1. SlaveFlags(Here')
    BY <2>0, <1>1, <1>6, Zenon DEF SlaveTypes, SlaveFlags
  <2>2. h'.en \subseteq ToSet(Sources) /\ h'.ris \subseteq ToSet(Sources)
    <3>1. {"TXURUN", "RXOVFLOW", "RXDONE"} \subseteq ToSet(Sources)
      BY SMT DEF Sources, ToSet
    <3>2. h.en \subseteq ToSet(Sources) /\ h.ris \subseteq ToSet(Sources)
      BY <1>1 DEF SlaveTypes, SlaveNumbers
    <3> QED BY <3>1, <3>2, <1>7
  <2>3. SlaveNumbers(Here')
    BY <2>0, <2>2, <1>1, <1>6, <1>7 DEF SlaveTypes, SlaveNumbers
  <2> QED BY <2>1, <2>3 DEF SlaveTypes
<1>9. Modes'
  <2>1. bus' = bus OBVIOUS
  <2>2. bus.t = 0 => ~bus.sel /\ bus.n = 0 /\ h'.ris = {} /\ h'.rx = <<>> /\ isr' = 0
    BY <1>3, <1>7 DEF Modes
  <2>3. h'.cnt = 0 BY <1>3, <1>7 DEF Modes
  <2>4. "CMD" \notin h'.en /\ "SSEND" \notin h'.en /\ "RXDONE" \in h'.en BY <1>7
  <2>5. Level(h'.tx) + Owed' <= 2
    <3>1. CASE d.mode = "NONE"
      <4>1. Level(h'.tx) = 0 /\ h'.ris = {} BY <3>1, <1>3, <1>7, Empty DEF Modes
      <4> QED BY <4>1, SMT DEF Owed
    <3>2. CASE d.mode = "FRAME"
      <4>1. Level(h.tx) + Owed <= 2 BY <3>2, <1>3 DEF Modes
      <4>2. Owed' = Owed \/ Owed' = 0 BY <1>7 DEF Owed, Clearing
      <4>3. Owed \in {0, 1} BY DEF Owed
      <4>4. Level(h.tx) \in Nat
        <5>1. Sequential(h.tx) BY <1>1 DEF SlaveTypes, SlaveNumbers
        <5> QED BY <5>1, SequentialIs
      <4> QED BY <1>7, <4>1, <4>2, <4>3, <4>4, SMT
    <3> QED BY <3>1, <3>2
  <2> QED BY <2>1, <2>2, <2>3, <2>4, <2>5, <1>6, <1>7, Zenon DEF Modes
<1> QED BY <1>8, <1>9 DEF SlaveSide, LogTypes

\* MSS_SPI_set_slave_tx_frame does.
LEMMA TxFrameKeeps ==
  ASSUME SlaveSide, NEW v, SetSlaveTxFrame(v), ~bus.sel,
         d.mode \in {"NONE", "FRAME"}, UNCHANGED <<isr, bus, log>>
  PROVE  SlaveSide'
<1>1. SlaveTypes(Here) /\ Here.d = d /\ Here.h = h BY HereIs
<1>3. Modes BY DEF SlaveSide
<1>4. DOMAIN d = DriverFields /\ DOMAIN h = HardwareFields
  BY <1>1 DEF SlaveTypes, SlaveNumbers
<1> DEFINE en == (h.en \ {"CMD", "SSEND"}) \union {"TXDONE", "TXURUN", "RXOVFLOW"}
<1>5. /\ d' = [d EXCEPT !.mode = "FRAME", !.blockHandler = FALSE, !.cmdHandler = FALSE,
                        !.txSize = 0, !.txIdx = 0, !.txFrame = v]
      /\ h' = [h EXCEPT !.auto = FALSE, !.lim = 1, !.tx = <<v>>,
                        !.ris = @ \ {"TXURUN", "RXOVFLOW", "TXDONE"}, !.en = en]
  BY <1>4, Zenon DEF SetSlaveTxFrame
<1>6. /\ DOMAIN d' = DriverFields /\ d'.mode = "FRAME" /\ d'.cmdDone = d.cmdDone
      /\ d'.frameHandler = d.frameHandler /\ d'.blockHandler = FALSE /\ d'.rxIdx = d.rxIdx
      /\ d'.txSize = 0 /\ d'.txIdx = 0 /\ d'.rx = d.rx
      /\ d'.respSize = d.respSize /\ d'.respIdx = d.respIdx /\ d'.cmdHandler = FALSE
  BY <1>4, <1>5, Zenon
<1>7. /\ DOMAIN h' = HardwareFields /\ h'.tx = <<v>> /\ h'.rx = h.rx /\ h'.cnt = h.cnt
      /\ h'.lim = 1 /\ h'.en = en /\ h'.ris = h.ris \ {"TXURUN", "RXOVFLOW", "TXDONE"}
  BY <1>4, <1>5, Zenon
<1>71. Sequential(h'.tx) /\ Level(h'.tx) = 1 BY <1>7, Single
<1>8. SlaveTypes(Here')
  <2>0. Here'.d = d' /\ Here'.h = h' /\ DOMAIN Here' = {"d", "h"} BY DEF Here
  <2> HIDE DEF Here
  <2>1. SlaveFlags(Here')
    BY <2>0, <1>1, <1>6, Zenon DEF SlaveTypes, SlaveFlags
  <2>2. h'.en \subseteq ToSet(Sources) /\ h'.ris \subseteq ToSet(Sources)
    <3>1. {"TXDONE", "TXURUN", "RXOVFLOW"} \subseteq ToSet(Sources)
      BY SMT DEF Sources, ToSet
    <3>2. h.en \subseteq ToSet(Sources) /\ h.ris \subseteq ToSet(Sources)
      BY <1>1 DEF SlaveTypes, SlaveNumbers
    <3> QED BY <3>1, <3>2, <1>7
  <2>3. Level(h'.tx) <= Depth BY <1>71, Sizes, SMT
  <2>4. d'.txSize \in Nat /\ d'.txIdx \in Nat /\ h'.lim \in Nat BY <1>6, <1>7
  <2>5. SlaveNumbers(Here')
    BY <2>0, <2>2, <2>3, <2>4, <1>1, <1>6, <1>7, <1>71 DEF SlaveTypes, SlaveNumbers
  <2> QED BY <2>1, <2>5 DEF SlaveTypes
<1>9. Modes'
  <2>1. bus' = bus OBVIOUS
  <2>2. bus.t = 0 => ~bus.sel /\ bus.n = 0 /\ h'.ris = {} /\ h'.rx = <<>> /\ isr' = 0
    BY <1>3, <1>7 DEF Modes
  <2>3. h'.cnt = 0 BY <1>3, <1>7 DEF Modes
  <2>4. "CMD" \notin h'.en /\ "SSEND" \notin h'.en BY <1>7
  <2>5. Level(h'.tx) + Owed' <= 2
    <3>1. "TXDONE" \notin h'.ris BY <1>7
    <3> QED BY <3>1, <1>71, SMT DEF Owed
  <2>6. d'.frameHandler => "RXDONE" \in h'.en
    <3>1. d.mode = "FRAME" /\ d.frameHandler => "RXDONE" \in h.en BY <1>3 DEF Modes
    <3>2. d.mode = "NONE" => ~d.frameHandler BY <1>3 DEF Modes
    <3>3. d.frameHandler => "RXDONE" \in h.en BY <3>1, <3>2
    <3>4. "RXDONE" \in h.en => "RXDONE" \in h'.en BY <1>7
    <3> QED BY <3>3, <3>4, <1>6
  <2> QED BY <2>1, <2>2, <2>3, <2>4, <2>5, <2>6, <1>6, <1>7, Zenon DEF Modes
<1> QED BY <1>8, <1>9 DEF SlaveSide, LogTypes

\* A frame on the wire keeps the slave's types, whatever its FIFOs hold.
LEMMA ShiftKeeps ==
  ASSUME SlaveSide, Shift, DOMAIN bus = {"sel", "n", "t"}
  PROVE  SlaveSide'
<1>1. SlaveTypes(Here) /\ Here.d = d /\ Here.h = h BY HereIs
<1>2. Modes /\ LogTypes BY DEF SlaveSide
<1>3. DOMAIN d = DriverFields /\ DOMAIN h = HardwareFields
  BY <1>1 DEF SlaveTypes, SlaveNumbers
<1>4. /\ bus.sel /\ bus' = [bus EXCEPT !.n = @ + 1] /\ d' = d /\ isr' = isr
  BY DEF Shift
<1>5. bus.t # 0 /\ d.mode # "NONE" BY <1>2, <1>4 DEF Modes
<1>6. bus'.sel = bus.sel /\ bus'.t = bus.t BY <1>4, Zenon
<1> DEFINE tx == IF h.tx = <<>> THEN h.tx ELSE Tail(h.tx)
           rx == IF Overrun THEN h.rx ELSE Append(h.rx, Head(m.tx))
           cnt == IF h.cnt + 1 = h.lim THEN 0 ELSE h.cnt + 1
           ris == h.ris \union Raised
                        \union (IF Underrun THEN {"TXURUN"} ELSE {})
                        \union (IF Overrun THEN {"RXOVFLOW"} ELSE {})
<1>7. h' = [h EXCEPT !.tx = tx, !.rx = rx, !.cnt = cnt, !.ris = ris]
  BY <1>3, Zenon DEF Shift
<1>8. Sequential(h.tx) /\ Sequential(h.rx) /\ Level(h.tx) <= Depth /\ Level(h.rx) <= Depth
  BY <1>1 DEF SlaveTypes, SlaveNumbers
<1>9. /\ Level(h.tx) \in Nat /\ Level(h.rx) \in Nat
      /\ h.tx = <<>> <=> Level(h.tx) = 0
  BY <1>8, SequentialIs
<1>10. /\ Sequential(tx) /\ Level(tx) \in Nat
       /\ Level(tx) = (IF Level(h.tx) = 0 THEN 0 ELSE Level(h.tx) - 1)
  <2>1. CASE h.tx = <<>> BY <2>1, <1>8, <1>9
  <2>2. CASE h.tx # <<>>
    <3>1. Sequential(Tail(h.tx)) /\ Level(Tail(h.tx)) = Level(h.tx) - 1 /\ Level(h.tx) >= 1
      BY <2>2, <1>8, Behead
    <3>2. tx = Tail(h.tx) BY <2>2
    <3> HIDE DEF tx
    <3> QED BY <3>1, <3>2, <1>9, SMT
  <2> QED BY <2>1, <2>2
<1>11. /\ Sequential(rx) /\ Level(rx) <= Depth
  <2>1. CASE Overrun BY <2>1, <1>8
  <2>2. CASE ~Overrun
    <3>1. rx = Append(h.rx, Head(m.tx)) BY <2>2
    <3> HIDE DEF rx
    <3>2. Sequential(rx) /\ Level(rx) = Level(h.rx) + 1 BY <3>1, <1>8, Appended
    <3>3. Level(h.rx) # Depth BY <2>2 DEF Overrun, Level
    <3> QED BY <3>2, <3>3, <1>8, <1>9, Sizes, SMT
  <2> QED BY <2>1, <2>2
<1>12. ris \subseteq ToSet(Sources) /\ h.ris \subseteq ris
  <2>1. {"RXDONE", "TXDONE", "CMD", "TXURUN", "RXOVFLOW"} \subseteq ToSet(Sources)
    BY SMT DEF Sources, ToSet
  <2>2. h.ris \subseteq ToSet(Sources) BY <1>1 DEF SlaveTypes, SlaveNumbers
  <2>3. Raised \subseteq {"RXDONE", "TXDONE", "CMD"} BY DEF Raised
  <2>4. (IF Underrun THEN {"TXURUN"} ELSE {}) \subseteq {"TXURUN"} OBVIOUS
  <2>5. (IF Overrun THEN {"RXOVFLOW"} ELSE {}) \subseteq {"RXOVFLOW"} OBVIOUS
  <2> QED BY <2>1, <2>2, <2>3, <2>4, <2>5
<1>13. cnt \in Nat
  <2>1. h.cnt \in Nat BY <1>1 DEF SlaveTypes, SlaveNumbers
  <2> QED BY <2>1, SMT
<1>14. h.lim = 1 => cnt = 0 /\ {"RXDONE", "TXDONE"} \subseteq ris
  <2>1. SUFFICES ASSUME h.lim = 1 PROVE cnt = 0 /\ {"RXDONE", "TXDONE"} \subseteq ris
    OBVIOUS
  <2>2. h.cnt + 1 = h.lim
    <3>1. h.cnt = 0 BY <1>2, <2>1 DEF Modes
    <3> QED BY <2>1, <3>1, SMT
  <2>3. {"RXDONE", "TXDONE"} \subseteq Raised BY <2>2 DEF Raised
  <2> QED BY <2>2, <2>3
<1> HIDE DEF tx, rx, ris, cnt
<1>15. /\ DOMAIN h' = HardwareFields /\ h'.tx = tx /\ h'.rx = rx /\ h'.cnt = cnt
       /\ h'.lim = h.lim /\ h'.en = h.en /\ h'.ris = ris
  BY <1>3, <1>7, Zenon
<1>16. SlaveTypes(Here')
  <2>0. Here'.d = d' /\ Here'.h = h' /\ DOMAIN Here' = {"d", "h"} BY DEF Here
  <2> HIDE DEF Here
  <2>1. SlaveFlags(Here')
    BY <2>0, <1>1, <1>4, Zenon DEF SlaveTypes, SlaveFlags
  <2>2. Level(tx) <= Depth BY <1>8, <1>9, <1>10, Sizes, SMT
  <2>3. SlaveNumbers(Here')
    BY <2>0, <2>2, <1>1, <1>4, <1>10, <1>11, <1>12, <1>13, <1>15 DEF SlaveTypes, SlaveNumbers
  <2> QED BY <2>1, <2>3 DEF SlaveTypes
<1>17. Modes'
  <2>1. d.mode = "FRAME" => Level(h'.tx) + Owed' <= 2
    <3>1. SUFFICES ASSUME d.mode = "FRAME" PROVE Level(h'.tx) + Owed' <= 2
      OBVIOUS
    <3>2. h.lim = 1 /\ Level(h.tx) + Owed <= 2 BY <3>1, <1>2 DEF Modes
    <3>3. Owed' \in {0, 1} BY DEF Owed
    <3>4. Owed \in {0, 1} BY DEF Owed
    <3>5. Level(h.tx) <= 2 BY <3>2, <3>4, <1>9, SMT
    <3>6. Level(tx) <= 1 BY <3>5, <1>9, <1>10, SMT
    <3> QED BY <3>3, <3>6, <1>10, <1>15, SMT
  <2>2. h'.lim = 1 => h'.cnt = 0 BY <1>14, <1>15
  <2>3. bus'.t # 0 BY <1>5, <1>6
  <2> QED BY <2>1, <2>2, <2>3, <1>2, <1>4, <1>5, <1>15, Zenon DEF Modes
<1>18. LogTypes'
  <2>1. log' = [log EXCEPT !.sent = Append(@, Head(m.tx)),
                           !.fault = @ \/ Overrun \/ (Underrun /\ ~Quiet)]
    BY DEF Shift
  <2> QED BY <2>1, <1>2, Zenon DEF LogTypes
<1> QED BY <1>4, <1>16, <1>17, <1>18 DEF SlaveSide

\* The start of a transaction does.
LEMMA SelectKeeps ==
  ASSUME SlaveSide, Select, bus.t \in Nat
  PROVE  SlaveSide'
<1>1. /\ bus' = [sel |-> TRUE, n |-> 0, t |-> bus.t + 1] /\ d.mode # "NONE"
      /\ UNCHANGED <<d, h, isr>>
  BY DEF Select
<1>2. bus'.t # 0
  <2>1. bus'.t = bus.t + 1 BY <1>1
  <2> QED BY <2>1, SMT
<1>3. Modes' BY <1>1, <1>2, Zenon DEF SlaveSide, Modes, Owed, Clearing
<1>4. LogTypes'
  <2>1. log' = [sent |-> IF d.mode = "FRAME" THEN h.rx ELSE <<>>, got |-> <<>>,
                missed |-> log.missed, fault |-> log.fault /\ d.mode = "FRAME",
                with |-> [size |-> d.txSize, cmd |-> d.cmdHandler, frame |-> d.txFrame]]
    BY DEF Select
  <2>2. DOMAIN log' = {"sent", "got", "missed", "fault", "with"} BY <2>1
  <2>3. log'.fault \in BOOLEAN
    <3>1. log'.fault = (log.fault /\ d.mode = "FRAME") BY <2>1, Zenon
    <3> QED BY <3>1
  <2> QED BY <2>2, <2>3 DEF LogTypes
<1>5. SlaveTypes(Here') BY <1>1 DEF SlaveSide, Here
<1> QED BY <1>1, <1>3, <1>4, <1>5 DEF SlaveSide

\* The end of a transaction does.
LEMMA DeselectKeeps ==
  ASSUME SlaveSide, Deselect, bus.sel, DOMAIN bus = {"sel", "n", "t"}
  PROVE  SlaveSide'
<1>0. SlaveTypes(Here) /\ Here.d = d /\ Here.h = h BY HereIs
<1>1. /\ bus' = [bus EXCEPT !.sel = FALSE] /\ h' = [h EXCEPT !.ris = @ \union {"SSEND"}]
      /\ UNCHANGED <<d, isr, log>>
  BY DEF Deselect
<1>2. DOMAIN h = HardwareFields BY <1>0 DEF SlaveTypes, SlaveNumbers
<1>3. /\ DOMAIN h' = HardwareFields /\ h'.tx = h.tx /\ h'.rx = h.rx /\ h'.cnt = h.cnt
      /\ h'.lim = h.lim /\ h'.en = h.en /\ h'.ris = h.ris \union {"SSEND"}
  BY <1>1, <1>2, Zenon
<1>4. bus'.t = bus.t /\ bus'.n = bus.n BY <1>1, Zenon
<1>5. Modes'
  <2>1. Modes BY DEF SlaveSide
  <2>2. bus.t # 0 /\ d.mode # "NONE" BY <2>1 DEF Modes
  <2>3. Owed' = Owed BY <1>1, <1>3 DEF Owed, Clearing
  <2>4. d.mode = "FRAME" => Level(h'.tx) + Owed' <= 2 BY <2>1, <2>3, <1>3 DEF Modes
  <2> QED BY <2>1, <2>2, <2>4, <1>1, <1>3, <1>4, Zenon DEF Modes
<1>6. SlaveTypes(Here')
  <2>0. Here'.d = d /\ Here'.h = h' /\ DOMAIN Here' = {"d", "h"} BY <1>1 DEF Here
  <2>1. h'.ris \subseteq ToSet(Sources)
    <3>1. "SSEND" \in ToSet(Sources) BY SMT DEF Sources, ToSet
    <3> QED BY <3>1, <1>0, <1>3 DEF SlaveTypes, SlaveNumbers
  <2> HIDE DEF Here
  <2> QED BY <2>0, <2>1, <1>0, <1>3, HardwareOnly DEF SlaveTypes, SlaveNumbers
<1> QED BY <1>1, <1>5, <1>6 DEF SlaveSide, LogTypes

\* The slave is not set up, its FIFOs are empty.
LEMMA SlaveInit == Init => SlaveSide
<1> SUFFICES ASSUME Init PROVE SlaveSide
  OBVIOUS
<1>1. /\ d = DInit /\ h = HInit /\ isr = 0 /\ bus = [sel |-> FALSE, n |-> 0, t |-> 0]
      /\ log = [sent |-> <<>>, got |-> <<>>, missed |-> FALSE, fault |-> FALSE,
                with |-> [size |-> 0, cmd |-> FALSE, frame |-> Zero]]
  BY DEF Init
<1>2. SlaveTypes(Here)
  <2>0. Here.d = DInit /\ Here.h = HInit /\ DOMAIN Here = {"d", "h"} BY <1>1 DEF Here
  <2> HIDE DEF Here
  <2>1. Sequential(<<>>) /\ Level(<<>>) <= Depth BY Empty, Sizes, SMT
  <2>2. /\ DOMAIN Here.d = DriverFields /\ Here.d.mode = "NONE"
        /\ Here.d.rx = [i \in 1..RxSize |-> None]
        /\ Here.d.txSize = 0 /\ Here.d.txIdx = 0 /\ Here.d.rxIdx = 0 /\ Here.d.respSize = 0
        /\ Here.d.respIdx = 0
    BY <2>0 DEF DInit
  <2>3. /\ DOMAIN Here.h = HardwareFields /\ Here.h.tx = <<>> /\ Here.h.rx = <<>>
        /\ Here.h.ris = {} /\ Here.h.en = {} /\ Here.h.cnt = 0 /\ Here.h.lim = 1
    BY <2>0 DEF HInit
  <2>4. SlaveNumbers(Here)
    <3>1. Here.d.respIdx <= Here.d.respSize BY <2>2, SMT
    <3>2. Sequential(Here.d.rx) /\ Level(Here.d.rx) = RxSize
      <4> DEFINE rx == [i \in 1..RxSize |-> None]
      <4>1. Sequential(rx) /\ Level(rx) = RxSize BY Sizes, Made
      <4> QED BY <2>2, <4>1
    <3> QED BY <2>0, <2>1, <2>2, <2>3, <3>1, <3>2 DEF SlaveNumbers
  <2>5. SlaveFlags(Here)
    <3>1. /\ DInit.cmdHandler = FALSE /\ DInit.blockHandler = FALSE
          /\ DInit.frameHandler = FALSE /\ DInit.cmdDone = TRUE
      BY DEF DInit
    <3> QED BY <2>0, <3>1, Zenon DEF SlaveFlags
  <2> QED BY <2>4, <2>5 DEF SlaveTypes
<1>3. LogTypes BY <1>1 DEF LogTypes
<1>4. Modes
  <2>1. /\ h.cnt = 0 /\ h.lim = 1 /\ h.ris = {} /\ h.rx = <<>> /\ h.tx = <<>> /\ h.en = {}
    BY <1>1 DEF HInit
  <2>2. bus.t = 0 /\ ~bus.sel /\ bus.n = 0 BY <1>1
  <2>3. d.mode = "NONE" /\ d.txSize = 0 /\ ~d.frameHandler BY <1>1 DEF DInit
  <2> QED BY <1>1, <2>1, <2>2, <2>3 DEF Modes
<1>5. isr \in 0..2 * NSources
  <2>1. NSources = 6 BY SMT DEF NSources, Sources
  <2> QED BY <1>1, <2>1, SMT
<1> QED BY <1>2, <1>3, <1>4, <1>5 DEF SlaveSide

\* Every step keeps the slave's side.
LEMMA SlaveStep ==
  ASSUME MasterSide, SlaveSide, [Next]_vars
  PROVE  SlaveSide'
<1>1. /\ DOMAIN bus = {"sel", "n", "t"} /\ bus.t \in Nat /\ (m.pc = "ready" => bus.sel)
  <2>1. DOMAIN bus = {"sel", "n", "t"} /\ bus.t \in 0..MaxTrans
    BY DEF MasterSide, MasterTypes, MasterNumbers
  <2>2. bus.t \in Nat BY <2>1, Sizes, SMT
  <2> QED BY <2>1, <2>2 DEF MasterSide, Counted
<1>2. CASE UNCHANGED <<d, h, isr, log, bus>>
  BY <1>2, Zenon DEF SlaveSide, Here, LogTypes, Modes, Owed, Clearing
<1>9. ASSUME IsrStarts \/ IsrSkips
      PROVE  /\ UNCHANGED <<d, h, log, bus>> /\ isr' \in 0..2 * NSources
             /\ ~Clearing("TXDONE") /\ ~Clearing("TXDONE")' /\ bus.t # 0
  <2>1. isr \in 0..2 * NSources /\ Modes BY DEF SlaveSide
  <2>2. NSources = 6 BY <2>1, PlaceIs
  <2>3. /\ isr' \in 0..6 /\ isr \in 0..6 /\ UNCHANGED <<d, h, log, bus>>
    <3>1. CASE IsrStarts
      <4>1. isr = 0 /\ isr' = 1 /\ UNCHANGED <<d, h, log, bus>> BY <3>1 DEF IsrStarts
      <4> QED BY <4>1, SMT
    <3>2. CASE IsrSkips
      <4>1. /\ isr \in 1..6 /\ isr' = (IF isr = 6 THEN 0 ELSE isr + 1)
            /\ UNCHANGED <<d, h, log, bus>>
        BY <2>2, <3>2 DEF IsrSkips, After
      <4> QED BY <4>1, SMT
    <3> QED BY <1>9, <3>1, <3>2
  <2>4. /\ isr' \in 0..2 * NSources /\ isr # 8 /\ isr' # 8
    BY <2>2, <2>3, SMT
  <2>5. ~Clearing("TXDONE") BY <2>1, <2>4, PlaceIs DEF Clearing
  <2>6. ~Clearing("TXDONE")' BY <2>4, PlaceIs DEF Clearing
  <2>7. bus.t # 0
    <3>1. CASE IsrStarts
      <4>1. h.ris # {} BY <3>1 DEF IsrStarts, Pending
      <4> QED BY <2>1, <4>1 DEF Modes
    <3>2. CASE IsrSkips
      <4>1. isr # 0
        <5>1. isr \in 1..6 BY <2>2, <3>2 DEF IsrSkips
        <5> QED BY <5>1, SMT
      <4> QED BY <2>1, <4>1 DEF Modes
    <3> QED BY <1>9, <3>1, <3>2
  <2> QED BY <2>3, <2>4, <2>5, <2>6, <2>7
<1>3. CASE IsrStarts \/ IsrSkips
  <2>1. /\ UNCHANGED <<d, h, log, bus>> /\ isr' \in 0..2 * NSources
        /\ ~Clearing("TXDONE") /\ ~Clearing("TXDONE")' /\ bus.t # 0
    BY <1>3, <1>9
  <2>2. Owed' = Owed BY <2>1 DEF Owed
  <2>3. SlaveTypes(Here)' /\ LogTypes' BY <2>1, Zenon DEF SlaveSide, Here, LogTypes
  <2>4. Modes' BY <2>1, <2>2, Zenon DEF SlaveSide, Modes
  <2> QED BY <2>1, <2>3, <2>4 DEF SlaveSide
<1>4. CASE SlaveBlock
  <2>1. PICK n \in TxSizes : Settles("BLOCK") /\ SetSlaveBlockBuffers(n)
    BY <1>4 DEF SlaveBlock
  <2> QED BY <2>1, BuffersKeep DEF Settles
<1>5. CASE SlaveCmd
  <2>1. PICK on \in BOOLEAN : Settles("BLOCK") /\ SetCmdHandler(on)
    BY <1>5 DEF SlaveCmd
  <2> QED BY <2>1, CmdHandlerKeeps DEF Settles
<1>6. CASE SlaveFrameRx BY <1>6, FrameRxKeeps DEF SlaveFrameRx, Settles
<1>7. CASE SlaveFrameTx
  <2>1. PICK i \in 1..2 : Settles("FRAME") /\ SetSlaveTxFrame(<<"f", i>>)
    BY <1>7 DEF SlaveFrameTx
  <2> QED BY <2>1, TxFrameKeeps DEF Settles
<1>8. CASE IsrServes \/ IsrClears BY <1>8, ServesKeeps, ClearsKeeps
<1>10. CASE Shift BY <1>1, <1>10, ShiftKeeps
<1>11. CASE Select BY <1>1, <1>11, SelectKeeps
<1>12. CASE Deselect
  <2>1. m.pc = "ready" BY <1>12 DEF Deselect
  <2> QED BY <2>1, <1>1, <1>12, DeselectKeeps
<1>13. TransferBlock \/ BlockTurn \/ TransferFrame \/ TxDone \/ RxReady \/ Dma \/ UNCHANGED vars
       => UNCHANGED <<d, h, isr, log, bus>>
  BY DEF TransferBlock, BlockTurn, TransferFrame, TxDone, RxReady, Dma, Disable,
         SetTransferByteCount, DmaMoves, Enable, DmaDone, vars
<1> QED
  BY <1>2, <1>3, <1>4, <1>5, <1>6, <1>7, <1>8, <1>9, <1>10, <1>11, <1>12, <1>13
     DEF Next, Slave, Isr, Master

\* The two sides together are an invariant, whatever the master does.
LEMMA WireInvHolds == Spec => []WireInv
<1>1. Init => WireInv BY MasterInit, SlaveInit DEF WireInv
<1>2. WireInv /\ [Next]_vars => WireInv' BY MasterStep, SlaveStep DEF WireInv
<1> QED BY <1>1, <1>2, PTL DEF Spec

\* The state is of the right shape: no FIFO is written beyond its depth, nor the response
\* read beyond its end, in whatever order the two ends take their steps.
THEOREM TypeCorrect == Spec => []TypeOK
<1>1. WireInv => TypeOK
  <2> SUFFICES ASSUME WireInv PROVE TypeOK
    OBVIOUS
  <2>1. /\ bus.t \in 0..MaxTrans /\ bus.n \in 0..MaxFrames
        /\ Level(m.tx) <= Depth /\ Level(m.rx) <= Depth
    BY DEF WireInv, MasterSide, MasterTypes, MasterNumbers
  <2>2. SlaveSide /\ isr \in 0..2 * NSources BY DEF WireInv, SlaveSide
  <2>3. SlaveTypes(Here) /\ Here.d = d /\ Here.h = h BY <2>2, HereIs
  <2> HIDE DEF Here
  <2>4. /\ h.ris \subseteq ToSet(Sources) /\ h.en \subseteq ToSet(Sources)
        /\ Level(h.tx) <= Depth /\ Level(h.rx) <= Depth
    BY <2>3 DEF SlaveTypes, SlaveNumbers
  <2>5. d.respIdx \in 0..d.respSize
    <3>1. d.respIdx \in Nat /\ d.respSize \in Nat /\ d.respIdx <= d.respSize
      BY <2>3 DEF SlaveTypes, SlaveNumbers
    <3> QED BY <3>1, SMT
  <2> QED BY <2>1, <2>2, <2>4, <2>5 DEF TypeOK, Level
<1> QED BY <1>1, WireInvHolds, PTL

---------------------------------------------------------------------------
(* What the slave has been given is what the master has sent.              *)

\* Two sequences that agree on their first n elements have the same start.
LEMMA SameStart ==
  ASSUME NEW s, NEW t, NEW n \in Nat, \A i \in 1..n : s[i] = t[i]
  PROVE  SubSeq(s, 1, n) = SubSeq(t, 1, n)
<1> DEFINE S == {s[i] : i \in 1..n}
<1>1. \A i \in 1..n : s[i] \in S /\ t[i] \in S OBVIOUS
<1>2. 1 \in Int /\ n \in Int BY SMT
<1> HIDE DEF S
<1> DEFINE a == SubSeq(s, 1, n)
           b == SubSeq(t, 1, n)
<1>3. a \in Seq(S) /\ Len(a) = (IF 1 <= n THEN n - 1 + 1 ELSE 0)
      /\ \A i \in 1..n - 1 + 1 : a[i] = s[1 + i - 1]
  BY <1>1, <1>2, SubSeqProperties
<1>4. b \in Seq(S) /\ Len(b) = (IF 1 <= n THEN n - 1 + 1 ELSE 0)
      /\ \A i \in 1..n - 1 + 1 : b[i] = t[1 + i - 1]
  BY <1>1, <1>2, SubSeqProperties
<1> HIDE DEF a, b
<1>5. Len(a) = n /\ Len(b) = n BY <1>3, <1>4, SMT
<1>6. ASSUME NEW i \in 1..n PROVE a[i] = b[i]
  <2>1. i \in 1..n - 1 + 1 /\ 1 + i - 1 = i BY SMT
  <2>2. a[i] = s[i] /\ b[i] = t[i] BY <1>3, <1>4, <2>1
  <2> QED BY <2>2
<1>7. a = b BY <1>3, <1>4, <1>5, <1>6, SeqEqual
<1> QED BY <1>7 DEF a, b

\* Two sequences of one length with the same elements are the same.
LEMMA SameFrames ==
  ASSUME NEW s, NEW t, Sequential(s), Sequential(t), Level(s) = Level(t),
         \A i \in 1..Level(s) : s[i] = t[i]
  PROVE  s = t
<1> DEFINE S == ToSet(s) \cup ToSet(t)
<1>1. s \in Seq(S) /\ t \in Seq(S) BY SeqMonotonic DEF Sequential
<1> HIDE DEF S
<1> QED BY <1>1, SeqEqual DEF Level

\* What the receive part of the handler stores comes after what the buffer held.
HeldTo(k, rx, sent) == \A i \in 1..RxSize : i <= k => rx[i] = sent[i]
Follows(k, n, fifo, sent) == \A i \in 1..n : fifo[i] = sent[k + i]
StoredAt(k, n, new, rx, fifo) ==
  \A i \in 1..RxSize : new[i] = IF i > k /\ i <= k + n THEN fifo[i - k] ELSE rx[i]

\* With it the buffer holds what was sent, as far as it reaches.
LEMMA TakenOver ==
  ASSUME NEW rx, NEW new, NEW fifo, NEW sent, NEW k \in Nat, NEW n \in Nat,
         HeldTo(k, rx, sent), Follows(k, n, fifo, sent), StoredAt(k, n, new, rx, fifo)
  PROVE  HeldTo(k + n, new, sent)
<1> USE DEF HeldTo, Follows, StoredAt
<1> SUFFICES ASSUME NEW i \in 1..RxSize, i <= k + n PROVE new[i] = sent[i]
  OBVIOUS
<1>0. i \in Nat BY Sizes, SMT
<1>1. CASE i > k
  <2>1. i - k \in 1..n /\ k + (i - k) = i BY <1>0, <1>1, SMT
  <2>2. new[i] = fifo[i - k] BY <1>1
  <2>3. fifo[i - k] = sent[k + (i - k)] BY <2>1
  <2> QED BY <2>1, <2>2, <2>3
<1>2. CASE ~(i > k)
  <2>1. i <= k BY <1>0, <1>2, SMT
  <2>2. new[i] = rx[i] BY <1>2
  <2> QED BY <2>1, <2>2
<1> QED BY <1>1, <1>2

\* The types that the proof about the packets uses.
LEMMA WithinWire ==
  ASSUME WireInv, Sent
  PROVE  /\ bus.n \in Nat /\ Level(log.sent) \in Nat /\ Level(log.got) \in Nat
         /\ d.rxIdx \in Nat /\ Level(h.rx) \in Nat /\ Sequential(h.rx)
         /\ Sequential(d.rx) /\ Level(d.rx) = RxSize /\ Modes
         /\ DOMAIN log = {"sent", "got", "missed", "fault", "with"}
         /\ DOMAIN bus = {"sel", "n", "t"}
         /\ Sequential(log.sent) /\ Sequential(log.got)
         /\ d.mode # "FRAME" => Level(log.sent) = bus.n
<1>1. bus.n \in 0..MaxFrames /\ DOMAIN bus = {"sel", "n", "t"}
  BY DEF WireInv, MasterSide, MasterTypes, MasterNumbers
<1>2. bus.n \in Nat BY <1>1, Sizes, SMT
<1>3. SlaveSide BY DEF WireInv
<1>4. SlaveTypes(Here) /\ Here.d = d /\ Here.h = h BY <1>3, HereIs
<1> HIDE DEF Here
<1>5. d.rxIdx \in Nat /\ Sequential(h.rx) /\ Sequential(d.rx) /\ Level(d.rx) = RxSize
  BY <1>4 DEF SlaveTypes, SlaveNumbers
<1>6. Modes /\ DOMAIN log = {"sent", "got", "missed", "fault", "with"}
  BY <1>3 DEF SlaveSide, LogTypes
<1>7. /\ Sequential(log.sent) /\ Sequential(log.got)
      /\ d.mode # "FRAME" => Level(log.sent) = bus.n
  BY DEF Sent
<1>8. Level(log.got) \in Nat /\ Level(log.sent) \in Nat BY <1>7, SequentialIs
<1>9. Level(h.rx) \in Nat BY <1>5, SequentialIs
<1> QED BY <1>1, <1>2, <1>5, <1>6, <1>7, <1>8, <1>9

\* The slave is in one of its three modes.
LEMMA ModesAre == WireInv => d.mode \in {"NONE", "BLOCK", "FRAME"}
<1> SUFFICES ASSUME WireInv PROVE d.mode \in {"NONE", "BLOCK", "FRAME"}
  OBVIOUS
<1>1. SlaveSide BY DEF WireInv
<1>2. SlaveTypes(Here) /\ Here.d = d BY <1>1, HereIs
<1> QED BY <1>2 DEF SlaveTypes, SlaveNumbers

Kept == Sent /\ Ends /\ BlockKept /\ FrameKept
LogKept == log'.sent = log.sent /\ log'.got = log.got /\ log'.fault = log.fault

\* A step that takes nothing from the FIFO and ends nothing.
LEMMA Stays ==
  ASSUME Kept, UNCHANGED bus, LogKept, log'.missed = log.missed,
         ~Clearing("SSEND"), ~Clearing("SSEND")',
         d'.mode = d.mode, d'.frameHandler = d.frameHandler, d'.rxIdx = d.rxIdx, d'.rx = d.rx, h'.rx = h.rx, h'.ris \subseteq h.ris,
         h.ris \ {"CMD", "TXDONE", "TXURUN", "RXOVFLOW"} \subseteq h'.ris
  PROVE  Kept'
<1>1. "SSEND" \in h'.ris <=> "SSEND" \in h.ris OBVIOUS
<1>2. "RXDONE" \in h'.ris <=> "RXDONE" \in h.ris OBVIOUS
<1>3. "RXOVFLOW" \in h'.ris => "RXOVFLOW" \in h.ris OBVIOUS
<1>4. Sent' BY Zenon DEF Kept, LogKept, Sent
<1>5. Ends' BY <1>1, <1>3, Zenon DEF Kept, LogKept, Ends, Over
<1>6. BlockKept' BY <1>1, Zenon DEF Kept, LogKept, BlockKept, InOrder, Packet, Over
<1>7. FrameKept' BY <1>2, Zenon DEF Kept, LogKept, FrameKept, InOrder
<1> QED BY <1>4, <1>5, <1>6, <1>7 DEF Kept

\* A step of the handler in block mode that stores what is in the FIFO.
LEMMA Takes ==
  ASSUME WireInv, Kept, UNCHANGED bus, LogKept, d.mode = "BLOCK", d'.mode = "BLOCK",
         ~Clearing("SSEND"), ~Clearing("SSEND")',
         d'.rxIdx = d.rxIdx + Level(h.rx), h'.rx = <<>>, h'.ris \subseteq h.ris,
         "SSEND" \in h.ris => "SSEND" \in h'.ris,
         \A i \in 1..RxSize : d'.rx[i] = IF i > d.rxIdx /\ i <= d.rxIdx + Level(h.rx)
                                           THEN h.rx[i - d.rxIdx] ELSE d.rx[i]
  PROVE  Kept'
<1>0. Sent /\ Ends /\ BlockKept BY DEF Kept
<1>1. /\ d.rxIdx \in Nat /\ Level(h.rx) \in Nat /\ Level(log.sent) \in Nat
  BY <1>0, WithinWire
<1>2. Sent' BY <1>0, Zenon DEF LogKept, Sent
<1>3. Ends'
  <2>1. "SSEND" \in h'.ris <=> "SSEND" \in h.ris OBVIOUS
  <2>2. "RXOVFLOW" \in h'.ris => "RXOVFLOW" \in h.ris OBVIOUS
  <2>3. Over' <=> ~bus.sel /\ "SSEND" \notin h'.ris BY DEF Over
  <2>4. ~bus.sel /\ "SSEND" \notin h'.ris => d'.rxIdx = 0
    <3>1. SUFFICES ASSUME ~bus.sel, "SSEND" \notin h'.ris PROVE d'.rxIdx = 0
      OBVIOUS
    <3>2. d.rxIdx = 0 /\ h.rx = <<>> BY <1>0, <2>1, <3>1 DEF Ends, Over
    <3>3. Level(h.rx) = 0 BY <3>2, Empty
    <3> QED BY <3>2, <3>3, SMT
  <2> QED BY <1>0, <2>1, <2>2, <2>3, <2>4, Zenon DEF LogKept, Ends
<1>4. BlockKept'
  <2>0. Over' <=> Over BY DEF Over
  <2>1. CASE log.fault \/ ~(~Over \/ bus.n = 0)
    BY <1>0, <2>0, <2>1, Zenon DEF LogKept, BlockKept, Packet
  <2>2. CASE ~log.fault /\ (~Over \/ bus.n = 0)
    <3>1. /\ log.got = <<>> /\ d.rxIdx + Level(h.rx) = Level(log.sent)
          /\ \A i \in 1..Level(h.rx) : h.rx[i] = log.sent[d.rxIdx + i]
          /\ \A i \in 1..RxSize : i <= d.rxIdx => d.rx[i] = log.sent[i]
      BY <1>0, <2>2, Zenon DEF BlockKept, InOrder
    <3>2. \A i \in 1..RxSize : i <= d.rxIdx + Level(h.rx) => d'.rx[i] = log.sent[i]
      <4>1. HeldTo(d.rxIdx, d.rx, log.sent) BY <3>1, Zenon DEF HeldTo
      <4>2. Follows(d.rxIdx, Level(h.rx), h.rx, log.sent) BY <3>1, Zenon DEF Follows
      <4>3. StoredAt(d.rxIdx, Level(h.rx), d'.rx, d.rx, h.rx) BY Zenon DEF StoredAt
      <4>4. HeldTo(d.rxIdx + Level(h.rx), d'.rx, log.sent)
        BY <1>1, <4>1, <4>2, <4>3, TakenOver
      <4> QED BY <4>4, Zenon DEF HeldTo
    <3>3. Level(h'.rx) = 0 BY Empty
    <3>4. InOrder(d.rxIdx)' 
      <4>1. d'.rxIdx + Level(h'.rx) = Level(log'.sent)
        <5>1. (d.rxIdx + Level(h.rx)) + 0 = Level(log.sent) BY <1>1, <3>1, SMT
        <5> QED BY <5>1, <3>3 DEF LogKept
      <4>2. \A i \in 1..Level(h'.rx) : h'.rx[i] = log'.sent[d'.rxIdx + i]
        BY <3>3, SMT
      <4> QED BY <4>1, <4>2 DEF InOrder
    <3>5. log'.got = <<>> /\ (~Over' \/ bus'.n = 0)
      BY <2>0, <2>2, <3>1 DEF LogKept
    <3>6. \A i \in 1..RxSize : i <= d'.rxIdx => d'.rx[i] = log'.sent[i]
      BY <3>2 DEF LogKept
    <3> QED BY <3>4, <3>5, <3>6, Zenon DEF BlockKept
  <2> QED BY <2>1, <2>2
<1>5. FrameKept' BY DEF FrameKept
<1> QED BY <1>2, <1>3, <1>4, <1>5 DEF Kept

\* Every branch of the handler delivers what it should and keeps the rest in order.
LEMMA ServesDelivers ==
  ASSUME WireInv, Kept, IsrServes
  PROVE  Kept'
<1>0. Sent /\ Ends /\ BlockKept /\ FrameKept BY DEF Kept
<1>1. SlaveSide /\ isr \in 0..2 * NSources BY DEF WireInv, SlaveSide
<1>2. SlaveTypes(Here) /\ Here.d = d /\ Here.h = h BY <1>1, HereIs
<1>3. /\ bus.n \in Nat /\ Level(log.sent) \in Nat /\ Level(log.got) \in Nat
      /\ d.rxIdx \in Nat /\ Level(h.rx) \in Nat /\ Sequential(h.rx) /\ Modes
      /\ DOMAIN log = {"sent", "got", "missed", "fault", "with"}
      /\ Sequential(log.sent) /\ Sequential(log.got)
      /\ d.mode # "FRAME" => Level(log.sent) = bus.n
  BY <1>0, WithinWire
<1>4. UNCHANGED bus BY DEF IsrServes
<1>5. \E s \in h.ris : s \in h.en
  <2>1. "RXDONE" \in Pending \/ "TXDONE" \in Pending \/ "CMD" \in Pending
        \/ "RXOVFLOW" \in Pending \/ "TXURUN" \in Pending \/ "SSEND" \in Pending
    BY <1>1, ServesWhich
  <2> QED BY <2>1 DEF Pending
<1>6. /\ bus.t # 0 /\ d.mode \in {"BLOCK", "FRAME"}
      /\ d.mode = "FRAME" => "CMD" \notin h.en /\ "SSEND" \notin h.en
  <2>1. bus.t # 0 /\ d.mode # "NONE" BY <1>3, <1>5 DEF Modes
  <2>2. d.mode \in {"NONE", "BLOCK", "FRAME"} BY <1>2 DEF SlaveTypes, SlaveNumbers
  <2>3. d.mode = "FRAME" => "CMD" \notin h.en /\ "SSEND" \notin h.en
    BY <1>3 DEF Modes
  <2> QED BY <2>1, <2>2, <2>3
<1>61. /\ ~Clearing("SSEND")
       /\ Clearing("SSEND")' <=> isr = 6
       /\ Over <=> ~bus.sel /\ "SSEND" \notin h.ris
  <2>1. isr \in 1..6 /\ isr' = 6 + isr BY <1>1, PlaceIs DEF IsrServes
  <2>2. isr # 12 /\ (isr' = 12 <=> isr = 6) BY <2>1, SMT
  <2>3. isr' \in 0..2 * NSources
    <3>1. SlaveSide' BY <1>1, ServesKeeps
    <3> QED BY <3>1 DEF SlaveSide
  <2>4. ~Clearing("SSEND") BY <1>1, <2>2, PlaceIs DEF Clearing
  <2>5. Clearing("SSEND")' <=> isr = 6 BY <2>2, <2>3, PlaceIs DEF Clearing
  <2> QED BY <2>4, <2>5 DEF Over
<1> HIDE DEF Here
<1>7. CASE RxDone /\ isr # 6
  <2> DEFINE x == ReadSlaveRxFifo(Here)
  <2>1. d' = x.d /\ h' = x.h /\ log' = [log EXCEPT !.got = @ \o FramesGiven, !.missed = FALSE]
    BY <1>7 DEF RxDone, Become
  <2>2. SlaveTypes(x) /\ SameModes(Here, x) /\ SameIrqs(Here, x) /\ x.h.rx = <<>>
        /\ (Here.d.mode = "BLOCK" => x = Stored(Here))
    BY <1>2, ReadDoes
  <2> HIDE DEF x
  <2>5. d'.mode = d.mode /\ d'.frameHandler = d.frameHandler
    BY <2>1, <2>2, <1>2 DEF SameModes
  <2>6. h'.rx = <<>> /\ h'.ris = h.ris /\ d'.rxIdx = x.d.rxIdx /\ d'.rx = x.d.rx
    BY <2>1, <2>2, <1>2 DEF SameIrqs
  <2>7. CASE d.mode = "BLOCK"
    <3>1. x = Stored(Here) BY <2>2, <2>7, <1>2
    <3>2. /\ x.d.rxIdx = d.rxIdx + Level(h.rx)
          /\ \A i \in 1..RxSize : x.d.rx[i] = IF i > d.rxIdx /\ i <= d.rxIdx + Level(h.rx)
                                                THEN h.rx[i - d.rxIdx] ELSE d.rx[i]
      BY <3>1, <1>2, StoredDoes
    <3>3. LogKept
      <4>1. FramesGiven = <<>> BY <2>7 DEF FramesGiven
      <4>2. log.got \o <<>> = log.got
        BY <1>3, ConcatEmptySeq DEF Sequential
      <4>3. log' = [log EXCEPT !.got = log.got, !.missed = FALSE] BY <2>1, <4>1, <4>2
      <4> QED BY <4>3, <1>3, Zenon DEF LogKept
    <3>4. /\ d'.rxIdx = d.rxIdx + Level(h.rx) /\ h'.ris \subseteq h.ris
          /\ "SSEND" \in h.ris => "SSEND" \in h'.ris
          /\ \A i \in 1..RxSize : d'.rx[i] = IF i > d.rxIdx /\ i <= d.rxIdx + Level(h.rx)
                                               THEN h.rx[i - d.rxIdx] ELSE d.rx[i]
      BY <2>6, <3>2
    <3> QED BY <1>4, <1>61, <1>7, <2>5, <2>6, <2>7, <3>3, <3>4, Takes
  <2>8. CASE d.mode = "FRAME"
    <3>1. log'.sent = log.sent /\ log'.fault = log.fault /\ log'.got = log.got \o FramesGiven
      BY <2>1, <1>3, Zenon
    <3>2. Sequential(FramesGiven) /\ (d.frameHandler => FramesGiven = h.rx)
      BY <2>8, <1>3, Empty DEF FramesGiven
    <3>30. Sequential(log.got) /\ Sequential(FramesGiven) BY <1>3, <3>2
    <3>31. Chained(log.got \o FramesGiven, log.got, FramesGiven) BY <3>30, Joined
    <3>3. /\ Sequential(log.got \o FramesGiven)
          /\ Level(log.got \o FramesGiven) = Level(log.got) + Level(FramesGiven)
          /\ \A i \in 1..Level(log.got) : (log.got \o FramesGiven)[i] = log.got[i]
          /\ \A i \in 1..Level(FramesGiven) :
               (log.got \o FramesGiven)[Level(log.got) + i] = FramesGiven[i]
      BY <3>31, Zenon DEF Chained
    <3>4. Sent' BY <1>3, <1>4, <1>6, <2>5, <2>8, <3>1, <3>3, Zenon DEF Sent
    <3>5. Ends'
      <4>1. "RXOVFLOW" \in h'.ris => log'.fault BY <1>0, <2>6, <3>1 DEF Ends
      <4>2. d'.mode # "BLOCK" BY <2>5, <2>8
      <4> QED BY <4>1, <4>2, Zenon DEF Ends
    <3>6. BlockKept' BY <2>5, <2>8 DEF BlockKept
    <3>7. FrameKept'
      <4>1. SUFFICES ASSUME d.frameHandler, ~log.fault
                     PROVE  /\ InOrder(Level(log.got))'
                            /\ \A i \in 1..Level(log'.got) : log'.got[i] = log'.sent[i]
        BY <2>5, <2>6, <3>1, Zenon DEF FrameKept
      <4>2. /\ Level(log.got) + Level(h.rx) = Level(log.sent)
            /\ \A i \in 1..Level(h.rx) : h.rx[i] = log.sent[Level(log.got) + i]
            /\ \A i \in 1..Level(log.got) : log.got[i] = log.sent[i]
        BY <1>0, <2>8, <4>1, Zenon DEF FrameKept, InOrder
      <4>3. FramesGiven = h.rx BY <3>2, <4>1
      <4>4. Level(log'.got) = Level(log.got) + Level(h.rx) BY <3>1, <3>3, <4>3
      <4>5. InOrder(Level(log.got))'
        <5>1. Level(h'.rx) = 0 BY <2>6, Empty
        <5>2. Level(log'.got) + Level(h'.rx) = Level(log'.sent)
          <6>1. (Level(log.got) + Level(h.rx)) + 0 = Level(log.sent) BY <1>3, <4>2, SMT
          <6> QED BY <3>1, <4>4, <5>1, <6>1
        <5>3. \A i \in 1..Level(h'.rx) : h'.rx[i] = log'.sent[Level(log'.got) + i]
          BY <5>1, SMT
        <5> QED BY <5>2, <5>3 DEF InOrder
      <4>6. ASSUME NEW i \in 1..Level(log'.got) PROVE log'.got[i] = log'.sent[i]
        <5>1. CASE i <= Level(log.got)
          <6>1. i \in 1..Level(log.got) BY <5>1, <4>4, <1>3, SMT
          <6> QED BY <6>1, <3>1, <3>3, <4>2
        <5>2. CASE ~(i <= Level(log.got))
          <6> DEFINE j == i - Level(log.got)
          <6>1. j \in 1..Level(h.rx) /\ i = Level(log.got) + j BY <5>2, <4>4, <1>3, SMT
          <6> HIDE DEF j
          <6>2. log'.got[i] = h.rx[j] BY <6>1, <3>1, <3>3, <4>3
          <6>3. log'.sent[i] = h.rx[j] BY <6>1, <3>1, <4>2
          <6> QED BY <6>2, <6>3
        <5> QED BY <5>1, <5>2
      <4> QED BY <4>5, <4>6
    <3> QED BY <3>4, <3>5, <3>6, <3>7 DEF Kept
  <2> QED BY <2>7, <2>8, <1>6
<1>8. CASE TxDoneIrq /\ isr # 6
  <2> DEFINE x == IF d.mode = "FRAME" THEN LoadFrame(Here) ELSE Fill(Here)
  <2>1. d' = x.d /\ h' = x.h /\ log' = log BY <1>8 DEF TxDoneIrq, Become
  <2>2. SameModes(Here, x) /\ SameTaken(Here, x) /\ x.h.ris = h.ris
    <3>1. CASE d.mode = "FRAME"
      <4>1. x = LoadFrame(Here) BY <3>1
      <4> HIDE DEF x
      <4>2. /\ x.d = d /\ x.h.rx = h.rx /\ x.h.ris = h.ris /\ x.h.cnt = h.cnt
            /\ x.h.lim = h.lim /\ DOMAIN x = {"d", "h"} /\ DOMAIN x.h = HardwareFields
        BY <4>1, <1>2, LoadKeeps
      <4> QED BY <4>2, <1>2, Zenon DEF SameModes, SameTaken
    <3>2. CASE d.mode # "FRAME"
      <4>1. x = Fill(Here) BY <3>2
      <4> HIDE DEF x
      <4>2. SlaveTypes(x) /\ SameModes(Here, x) /\ SameTaken(Here, x) /\ SameIrqs(Here, x)
        BY <4>1, <1>2, FillDoes
      <4> QED BY <4>2, <1>2 DEF SameIrqs
    <3> QED BY <3>1, <3>2
  <2> HIDE DEF x
  <2>3. /\ d'.mode = d.mode /\ d'.frameHandler = d.frameHandler /\ d'.rxIdx = d.rxIdx
        /\ d'.rx = d.rx /\ h'.rx = h.rx /\ h'.ris \subseteq h.ris
        /\ h.ris \ {"CMD", "TXDONE", "TXURUN", "RXOVFLOW"} \subseteq h'.ris
    BY <2>1, <2>2, <1>2 DEF SameModes, SameTaken
  <2> QED BY <1>4, <1>61, <1>8, <2>1, <2>3, Stays DEF LogKept
<1>9. CASE Cmd /\ "CMD" \in Pending /\ isr # 6
  <2>0. d.mode = "BLOCK" BY <1>6, <1>9 DEF Pending
  <2> DEFINE x == ReadSlaveRxFifo(Here)
             c == SetCmdResponse(x)
             y == IF d.cmdHandler THEN Fill(c) ELSE x
             z == [y EXCEPT !.d.cmdDone = TRUE, !.h.en = @ \ {"CMD"}]
  <2>1. d' = z.d /\ h' = z.h /\ log' = log BY <1>9 DEF Cmd, Become
  <2>2. SlaveTypes(x) /\ SameModes(Here, x) /\ SameIrqs(Here, x) /\ x.h.rx = <<>>
        /\ (Here.d.mode = "BLOCK" => x = Stored(Here))
    BY <1>2, ReadDoes
  <2>21. x = Stored(Here) BY <2>0, <2>2, <1>2
  <2> HIDE DEF x
  <2>22. /\ x.d.rxIdx = d.rxIdx + Level(h.rx)
         /\ \A i \in 1..RxSize : x.d.rx[i] = IF i > d.rxIdx /\ i <= d.rxIdx + Level(h.rx)
                                               THEN h.rx[i - d.rxIdx] ELSE d.rx[i]
    BY <2>21, <1>2, StoredDoes
  <2>3. SlaveTypes(c) /\ SameModes(x, c) /\ SameTaken(x, c) /\ SameIrqs(x, c)
    BY <2>2, CmdResponseDoes
  <2> HIDE DEF c
  <2>4. SlaveTypes(Fill(c)) /\ SameModes(c, Fill(c)) /\ SameTaken(c, Fill(c))
        /\ SameIrqs(c, Fill(c))
    BY <2>3, FillDoes
  <2>5. SlaveTypes(y) /\ SameModes(Here, y) /\ SameTaken(x, y) /\ SameIrqs(Here, y)
    <3>1. SameModes(Here, Fill(c))
      BY <2>2, <2>3, <2>4, SameModesIsTransitive
    <3>2. SameIrqs(Here, Fill(c)) BY <2>2, <2>3, <2>4 DEF SameIrqs
    <3>3. SameTaken(x, Fill(c)) BY <2>3, <2>4 DEF SameTaken
    <3>4. CASE d.cmdHandler
      <4>1. y = Fill(c) BY <3>4
      <4> QED BY <4>1, <3>1, <3>2, <3>3, <2>4
    <3>5. CASE ~d.cmdHandler
      <4>1. y = x BY <3>5
      <4>2. SameTaken(x, x) BY Zenon DEF SameTaken
      <4> QED BY <4>1, <4>2, <2>2
    <3> QED BY <3>4, <3>5
  <2> HIDE DEF y
  <2>6. /\ z.d.mode = y.d.mode /\ z.d.frameHandler = y.d.frameHandler
        /\ z.d.rxIdx = y.d.rxIdx /\ z.d.rx = y.d.rx /\ z.h.rx = y.h.rx /\ z.h.ris = y.h.ris
        /\ DOMAIN z = {"d", "h"} /\ DOMAIN z.h = HardwareFields
    <3>0. DOMAIN y = {"d", "h"} /\ DOMAIN y.d = DriverFields /\ DOMAIN y.h = HardwareFields
      BY <2>5 DEF SlaveTypes, SlaveNumbers
    <3>1. /\ DOMAIN z = {"d", "h"} /\ z.d = [y.d EXCEPT !.cmdDone = TRUE]
          /\ z.h = [y.h EXCEPT !.en = @ \ {"CMD"}]
      BY <3>0, Zenon
    <3> HIDE DEF z
    <3> QED BY <3>0, <3>1, Zenon
  <2> HIDE DEF z
  <2>8. /\ d'.mode = "BLOCK" /\ d'.rxIdx = x.d.rxIdx /\ d'.rx = x.d.rx /\ h'.rx = <<>>
        /\ h'.ris = h.ris
    BY <2>0, <2>1, <2>2, <2>5, <2>6, <1>2 DEF SameModes, SameTaken, SameIrqs
  <2>9. /\ d'.rxIdx = d.rxIdx + Level(h.rx) /\ h'.ris \subseteq h.ris
        /\ "SSEND" \in h.ris => "SSEND" \in h'.ris
        /\ \A i \in 1..RxSize : d'.rx[i] = IF i > d.rxIdx /\ i <= d.rxIdx + Level(h.rx)
                                             THEN h.rx[i - d.rxIdx] ELSE d.rx[i]
    BY <2>8, <2>22
  <2> QED BY <1>4, <1>61, <1>9, <2>0, <2>1, <2>8, <2>9, Takes DEF LogKept
<1>10. CASE RxOverflow /\ "RXOVFLOW" \in Pending /\ isr # 6
  <2> DEFINE y == Recovered(Here)
  <2>1. d' = y.d /\ h' = y.h /\ log' = log BY <1>10 DEF RxOverflow, Become
  <2>2. y.d = Here.d /\ y.h.rx = <<>> /\ y.h.ris = {} BY <1>2, Recovering
  <2> HIDE DEF y
  <2>3. d' = d /\ h'.rx = <<>> /\ h'.ris = {} BY <2>1, <2>2, <1>2
  <2>4. "RXOVFLOW" \in h.ris /\ log.fault BY <1>0, <1>10 DEF Pending, Ends
  <2>5. d.mode = "BLOCK" => bus.sel BY <1>0, <2>4 DEF Ends
  <2>6. Sent' BY <1>0, <1>4, <2>1, <2>3, Zenon DEF Sent
  <2>7. Ends' BY <1>4, <1>61, <1>10, <2>3, <2>5, Zenon DEF Ends, Over
  <2>8. BlockKept' BY <2>1, <2>4, Zenon DEF BlockKept
  <2>9. FrameKept' BY <2>1, <2>3, <2>4, Zenon DEF FrameKept
  <2> QED BY <2>6, <2>7, <2>8, <2>9 DEF Kept
<1>11. CASE TxUnderrun /\ isr # 6
  <2> DEFINE x == [Here EXCEPT !.h.tx = <<>>]
             u == [x EXCEPT !.d.txIdx = 0]
             y == IF d.mode = "FRAME" THEN LoadFrame(x) ELSE Fill(u)
  <2>1. d' = y.d /\ h' = y.h /\ log' = log
    <3>1. CASE d.mode = "FRAME" BY <1>11, <3>1, Zenon DEF TxUnderrun, Become
    <3>2. CASE d.mode = "BLOCK" /\ d.mode # "FRAME"
      <4>1. Become(y) /\ log' = log BY <1>11, <3>2, Zenon DEF TxUnderrun
      <4> QED BY <4>1 DEF Become
    <3> QED BY <3>1, <3>2, <1>6
  <2>2. /\ SlaveTypes(x) /\ SameModes(Here, x) /\ SameTaken(Here, x) /\ SameIrqs(Here, x)
        /\ x.h.tx = <<>>
    BY <1>2, EmptiedDoes
  <2> HIDE DEF x
  <2>3. SlaveTypes(y) /\ SameModes(x, y) /\ SameTaken(x, y) /\ SameIrqs(x, y)
    <3>1. CASE d.mode = "FRAME"
      <4>1. Level(x.h.tx) < Depth
        <5>1. Level(x.h.tx) = 0 BY <2>2, Empty
        <5> QED BY <5>1, Sizes, SMT
      <4>2. y = LoadFrame(x) BY <3>1
      <4> QED BY <2>2, <4>1, <4>2, LoadDoes
    <3>2. CASE d.mode # "FRAME"
      <4>1. y = Fill(u) BY <3>2
      <4>2. SlaveTypes(u) /\ SameModes(x, u) /\ SameTaken(x, u) /\ SameIrqs(x, u)
        BY <2>2, RestartDoes
      <4> HIDE DEF u, y
      <4>3. SlaveTypes(y) /\ SameModes(u, y) /\ SameTaken(u, y) /\ SameIrqs(u, y)
        BY <4>1, <4>2, FillDoes
      <4>4. SameModes(x, y) BY <4>2, <4>3, SameModesIsTransitive
      <4>5. SameTaken(x, y) /\ SameIrqs(x, y) BY <4>2, <4>3 DEF SameTaken, SameIrqs
      <4> QED BY <4>3, <4>4, <4>5
    <3> QED BY <3>1, <3>2
  <2> HIDE DEF y
  <2>5. /\ d'.mode = d.mode /\ d'.frameHandler = d.frameHandler /\ d'.rxIdx = d.rxIdx
        /\ d'.rx = d.rx /\ h'.rx = h.rx /\ h'.ris = h.ris
    BY <2>1, <2>2, <2>3, <1>2 DEF SameModes, SameTaken, SameIrqs
  <2>6. /\ h'.ris \subseteq h.ris
        /\ h.ris \ {"CMD", "TXDONE", "TXURUN", "RXOVFLOW"} \subseteq h'.ris
    BY <2>5
  <2> QED BY <1>4, <1>61, <1>11, <2>1, <2>5, <2>6, Stays DEF LogKept
<1>12. CASE SsEnd /\ "SSEND" \in Pending /\ isr = 6
  <2>0. d.mode = "BLOCK" /\ "SSEND" \in h.ris BY <1>6, <1>12 DEF Pending
  <2> DEFINE x == ReadSlaveRxFifo(Here)
             packet == [size |-> x.d.rxIdx,
                        data |-> SubSeq(x.d.rx, 1, Least(x.d.rxIdx, RxSize))]
             y == Rewound(x)
             z == [y EXCEPT !.d.rxIdx = 0]
  <2>1. /\ d' = z.d /\ h' = z.h
        /\ log' = IF d.blockHandler THEN [log EXCEPT !.got = Append(@, packet)] ELSE log
    BY <1>12, Zenon DEF SsEnd, Become
  <2>2. SlaveTypes(x) /\ SameModes(Here, x) /\ SameIrqs(Here, x) /\ x.h.rx = <<>>
        /\ (Here.d.mode = "BLOCK" => x = Stored(Here))
    BY <1>2, ReadDoes
  <2>21. x = Stored(Here) BY <2>0, <2>2, <1>2
  <2>22. d.blockHandler /\ log' = [log EXCEPT !.got = Append(@, packet)]
    <3>1. d.blockHandler BY <2>0, <1>3 DEF Modes
    <3> QED BY <2>1, <3>1
  <2> HIDE DEF x
  <2>23. /\ x.d.rxIdx = d.rxIdx + Level(h.rx)
         /\ \A i \in 1..RxSize : x.d.rx[i] = IF i > d.rxIdx /\ i <= d.rxIdx + Level(h.rx)
                                               THEN h.rx[i - d.rxIdx] ELSE d.rx[i]
    BY <2>21, <1>2, StoredDoes
  <2>3. /\ SlaveTypes(y) /\ SameModes(x, y) /\ y.h.rx = <<>>
        /\ y.h.ris \in {x.h.ris, x.h.ris \ {"CMD"}}
    BY <2>2, RewoundDoes
  <2> HIDE DEF y
  <2>4. SlaveTypes(z) /\ SameModes(y, z) /\ SameIrqs(y, z) /\ z.h = y.h /\ z.d.rxIdx = 0
    BY <2>3, ResetDoes
  <2> HIDE DEF z
  <2>6. /\ d'.mode = "BLOCK" /\ d'.rxIdx = 0 /\ h'.rx = <<>>
        /\ h'.ris \subseteq h.ris /\ "SSEND" \in h'.ris
    <3>1. d'.mode = "BLOCK" /\ d'.rxIdx = 0 /\ h'.rx = <<>>
      BY <2>0, <2>1, <2>2, <2>3, <2>4, <1>2 DEF SameModes
    <3>2. h'.ris = y.h.ris /\ x.h.ris = h.ris
      BY <2>1, <2>2, <2>4, <1>2 DEF SameIrqs
    <3>3. y.h.ris \subseteq x.h.ris /\ ("SSEND" \in x.h.ris => "SSEND" \in y.h.ris) BY <2>3
    <3> QED BY <2>0, <3>1, <3>2, <3>3
  <2>61. Clearing("SSEND")' BY <1>12, <1>61
  <2>7. ~bus.sel /\ bus.n > 0 /\ "RXOVFLOW" \notin h.ris BY <1>0, <2>0 DEF Ends
  <2>8. /\ log'.sent = log.sent /\ log'.fault = log.fault
        /\ log'.got = Append(log.got, packet)
    BY <2>22, <1>3, Zenon
  <2>9. Ends'
    <3>1. "RXOVFLOW" \notin h'.ris BY <2>6, <2>7
    <3> QED BY <3>1, <2>6, <2>7, <1>4, Zenon DEF Ends
  <2>10. BlockKept'
    <3>0. bus.n # 0 BY <2>7, <1>3, SMT
    <3>1. SUFFICES ASSUME ~log.fault PROVE log'.got = <<Packet'>>
      BY <3>0, <2>6, <2>61, <2>7, <2>8, <1>4, Zenon DEF BlockKept, Over
    <3>2. /\ log.got = <<>> /\ d.rxIdx + Level(h.rx) = Level(log.sent)
          /\ \A i \in 1..Level(h.rx) : h.rx[i] = log.sent[d.rxIdx + i]
          /\ \A i \in 1..RxSize : i <= d.rxIdx => d.rx[i] = log.sent[i]
      BY <1>0, <1>61, <2>0, <3>1, Zenon DEF BlockKept, InOrder
    <3>3. \A i \in 1..RxSize : i <= d.rxIdx + Level(h.rx) => x.d.rx[i] = log.sent[i]
      <4>1. HeldTo(d.rxIdx, d.rx, log.sent) BY <3>2, Zenon DEF HeldTo
      <4>2. Follows(d.rxIdx, Level(h.rx), h.rx, log.sent) BY <3>2, Zenon DEF Follows
      <4>3. StoredAt(d.rxIdx, Level(h.rx), x.d.rx, d.rx, h.rx) BY <2>23, Zenon DEF StoredAt
      <4>4. HeldTo(d.rxIdx + Level(h.rx), x.d.rx, log.sent)
        BY <1>3, <4>1, <4>2, <4>3, TakenOver
      <4> QED BY <4>4, Zenon DEF HeldTo
    <3>4. x.d.rxIdx = Level(log.sent) BY <2>23, <3>2
    <3> DEFINE n == Least(Level(log.sent), RxSize)
    <3>5. n \in Nat /\ n <= RxSize /\ n <= Level(log.sent) BY <1>3, Sizes, SMT DEF Least
    <3> HIDE DEF n
    <3>6. ASSUME NEW i \in 1..n PROVE x.d.rx[i] = log.sent[i]
      <4>1. i \in 1..RxSize /\ i <= Level(log.sent) BY <3>5, <1>3, Sizes, SMT
      <4> QED BY <4>1, <3>2, <3>3
    <3>7. SubSeq(x.d.rx, 1, n) = SubSeq(log.sent, 1, n) BY <3>5, <3>6, SameStart
    <3>8. packet = Packet'
      <4>1. Packet' = [size |-> Level(log.sent), data |-> SubSeq(log.sent, 1, n)]
        BY <2>8 DEF Packet, n
      <4> QED BY <3>4, <3>7, <4>1 DEF n
    <3>9. Append(<<>>, packet) = <<packet>> BY SMT
    <3> QED BY <2>8, <3>2, <3>8, <3>9
  <2>11. FrameKept' BY <2>6 DEF FrameKept
  <2>12. Sent'
    <3>1. Sequential(Append(log.got, packet)) BY <1>3, Appended
    <3> QED BY <3>1, <2>0, <2>8, <1>3, <1>4, <1>6, Zenon DEF Sent
  <2> QED BY <2>9, <2>10, <2>11, <2>12 DEF Kept
<1>13. isr = 1 \/ isr = 2 \/ isr = 3 \/ isr = 4 \/ isr = 5 => isr # 6 BY SMT
<1> QED BY <1>7, <1>8, <1>9, <1>10, <1>11, <1>12, <1>13, ServesWhich

\* Clearing a source does, and tells a frame that is left by it.
LEMMA ClearsDelivers ==
  ASSUME WireInv, Kept, IsrClears
  PROVE  Kept'
<1>0. Sent /\ Ends /\ BlockKept /\ FrameKept BY DEF Kept
<1>1. SlaveSide /\ isr \in 0..2 * NSources BY DEF WireInv, SlaveSide
<1>2. SlaveTypes(Here) /\ Here.d = d /\ Here.h = h BY <1>1, HereIs
<1>3. DOMAIN log = {"sent", "got", "missed", "fault", "with"} BY <1>0, WithinWire
<1>4. NSources = 6 BY <1>1, PlaceIs
<1>5. isr > NSources /\ Cleared(isr - NSources) /\ UNCHANGED bus BY DEF IsrClears
<1> DEFINE source == Sources[isr - NSources]
           y == Clear(Here, source)
<1>6. /\ Become(y)
      /\ log' = [log EXCEPT !.missed = IF source = "RXDONE" THEN h.rx # <<>> ELSE @,
                            !.fault = @ \/ (source = "TXDONE" /\ Starved)]
  BY <1>5 DEF Cleared
<1>7. /\ log'.sent = log.sent /\ log'.got = log.got /\ (log.fault => log'.fault)
      /\ log'.missed = IF source = "RXDONE" THEN h.rx # <<>> ELSE log.missed
  BY <1>3, <1>6, Zenon
<1> HIDE DEF Here
<1>8. d' = d /\ h'.rx = h.rx /\ h'.ris = h.ris \ {source}
  <2>1. y.d = Here.d /\ SameTaken(Here, y) /\ y.h.ris = Here.h.ris \ {source}
    BY <1>2, ClearDoes
  <2> HIDE DEF y
  <2> QED BY <1>2, <1>6, <2>1 DEF SameTaken, Become
<1>9. source = "SSEND" <=> Clearing("SSEND") BY <1>5 DEF Clearing
<1>10. ~Clearing("SSEND")'
  <2>1. isr \in 7..12 /\ isr' = After(isr - 6) BY <1>1, <1>4, SMT DEF IsrClears
  <2>2. isr' \in 0..6 BY <1>4, <2>1, SMT DEF After
  <2>3. isr' \in 0..2 * NSources /\ isr' # 12 BY <1>4, <2>2, SMT
  <2> QED BY <2>3, PlaceIs DEF Clearing
<1> HIDE DEF source
<1>11. d.mode = "BLOCK" => (Over' <=> Over)
  BY <1>0, <1>5, <1>8, <1>9, <1>10 DEF Over, Ends
<1>12. Sent' BY <1>0, <1>5, <1>7, <1>8, Zenon DEF Sent
<1>13. Ends'
  <2>1. "RXOVFLOW" \in h'.ris => "RXOVFLOW" \in h.ris BY <1>8
  <2>2. "SSEND" \in h'.ris => "SSEND" \in h.ris BY <1>8
  <2> QED BY <1>0, <1>5, <1>7, <1>8, <1>10, <1>11, <2>1, <2>2, Zenon DEF Ends
<1>14. BlockKept'
  <2>1. SUFFICES ASSUME d.mode = "BLOCK", ~log.fault PROVE BlockKept'
    BY <1>7, <1>8, Zenon DEF BlockKept
  <2> QED BY <1>0, <1>5, <1>7, <1>8, <1>11, <2>1, Zenon DEF BlockKept, InOrder, Packet
<1>15. FrameKept'
  <2>1. ASSUME h.rx # <<>>, "RXDONE" \in h.ris \/ log.missed
        PROVE  "RXDONE" \in h'.ris \/ log'.missed
    BY <1>7, <1>8, <2>1
  <2> QED BY <1>0, <1>7, <1>8, <2>1, Zenon DEF FrameKept, InOrder
<1> QED BY <1>12, <1>13, <1>14, <1>15 DEF Kept

\* The calls that set the slave up: the FIFO is empty and nothing is pending.
LEMMA SetUpDelivers ==
  ASSUME WireInv, Kept, Slave
  PROVE  Kept'
<1>0. Sent /\ Ends /\ BlockKept /\ FrameKept BY DEF Kept
<1>1. SlaveSide BY DEF WireInv
<1>2. SlaveTypes(Here) /\ Here.d = d /\ Here.h = h BY <1>1, HereIs
<1>3. /\ bus.n \in Nat /\ Level(log.sent) \in Nat /\ d.rxIdx \in Nat /\ Sequential(h.rx)
      /\ Modes
      /\ d.mode # "FRAME" => Level(log.sent) = bus.n
  BY <1>0, WithinWire
<1>4. DOMAIN Here = {"d", "h"} /\ DOMAIN d = DriverFields /\ DOMAIN h = HardwareFields
  BY <1>2 DEF SlaveTypes, SlaveNumbers
<1>5. ~bus.sel /\ Pending = {} /\ isr = 0 /\ UNCHANGED <<bus, log, isr>>
  BY DEF Slave, SlaveBlock, SlaveCmd, SlaveFrameRx, SlaveFrameTx, Settles, Quiet
<1>51. ~Clearing("SSEND") /\ ~Clearing("SSEND")'
  <2>1. ~(isr > NSources) BY <1>5, ClearsNothing
  <2> QED BY <1>5, <2>1 DEF Clearing
<1>6. /\ Sequential(log'.sent) /\ Sequential(log'.got)
      /\ bus'.t = 0 => log'.got = <<>> /\ log'.sent = <<>>
      /\ d.mode # "FRAME" => Level(log'.sent) = bus'.n
  BY <1>0, <1>5, Zenon DEF Sent
<1>61. Over' <=> "SSEND" \notin h'.ris BY <1>5, <1>51 DEF Over
<1>62. Over <=> "SSEND" \notin h.ris BY <1>5, <1>51 DEF Over
<1>7. d.mode = "BLOCK" =>
        /\ "SSEND" \notin h.ris /\ d.rxIdx = 0 /\ h.rx = <<>> /\ "RXOVFLOW" \notin h.ris
        /\ log.fault \/ log.got = (IF bus.n = 0 THEN <<>> ELSE <<Packet>>)
  <2>1. SUFFICES ASSUME d.mode = "BLOCK"
                 PROVE  /\ "SSEND" \notin h.ris /\ d.rxIdx = 0 /\ h.rx = <<>>
                        /\ "RXOVFLOW" \notin h.ris
                        /\ log.fault \/ log.got = (IF bus.n = 0 THEN <<>> ELSE <<Packet>>)
    OBVIOUS
  <2>2. "SSEND" \notin h.ris BY <1>3, <1>5, <2>1 DEF Modes, Pending
  <2>3. d.rxIdx = 0 /\ h.rx = <<>> /\ "RXOVFLOW" \notin h.ris
    BY <1>0, <1>5, <1>62, <2>1, <2>2 DEF Ends
  <2>4. log.fault \/ log.got = (IF bus.n = 0 THEN <<>> ELSE <<Packet>>)
    BY <1>0, <1>5, <1>62, <2>1, <2>2, Zenon DEF BlockKept
  <2> QED BY <2>2, <2>3, <2>4
<1>8. d.mode = "NONE" => bus.n = 0 /\ log.got = <<>> /\ h.ris = {} /\ h.rx = <<>> /\ bus.t = 0
  BY <1>0, <1>3 DEF Modes, Sent
<1>9. Level(<<>>) = 0 BY Empty
\* Block mode after the call.
<1>10. ASSUME d.mode \in {"NONE", "BLOCK"}, d'.mode = "BLOCK", d'.rxIdx = 0, h'.rx = <<>>,
              h'.ris \subseteq h.ris
       PROVE  Kept'
  <2>1. "SSEND" \notin h'.ris /\ "RXOVFLOW" \notin h'.ris BY <1>7, <1>8, <1>10
  <2>2. Ends' BY <1>5, <1>51, <1>10, <2>1, Zenon DEF Ends
  <2>3. log.fault \/ log.got = (IF bus.n = 0 THEN <<>> ELSE <<Packet>>)
    BY <1>7, <1>8, <1>10
  <2>4. BlockKept'
    <3>1. SUFFICES ASSUME ~log.fault PROVE BlockKept'
      BY <1>5, Zenon DEF BlockKept
    <3>2. CASE bus.n = 0
      <4>1. log.got = <<>> BY <2>3, <3>1, <3>2
      <4>2. InOrder(d.rxIdx)'
        <5>1. Level(h'.rx) = 0 BY <1>9, <1>10
        <5>2. d'.rxIdx + Level(h'.rx) = Level(log'.sent)
          <6>1. Level(log'.sent) = 0 BY <1>5, <1>6, <1>10, <3>2
          <6> QED BY <1>10, <5>1, <6>1, SMT
        <5>3. \A i \in 1..Level(h'.rx) : h'.rx[i] = log'.sent[d'.rxIdx + i]
          BY <5>1, SMT
        <5> QED BY <5>2, <5>3 DEF InOrder
      <4>3. \A i \in 1..RxSize : i <= d'.rxIdx => d'.rx[i] = log'.sent[i]
        BY <1>10, Sizes, SMT
      <4> QED BY <1>5, <3>2, <4>1, <4>2, <4>3, Zenon DEF BlockKept
    <3>3. CASE bus.n # 0
      <4>1. log.got = <<Packet>> BY <2>3, <3>1, <3>3
      <4>2. Packet' = Packet BY <1>5 DEF Packet
      <4> QED BY <1>5, <1>61, <2>1, <3>3, <4>1, <4>2, Zenon DEF BlockKept
    <3> QED BY <3>2, <3>3
  <2>5. FrameKept' BY <1>10 DEF FrameKept
  <2>6. Sent' BY <1>6, <1>10 DEF Sent
  <2> QED BY <2>6, <2>2, <2>4, <2>5 DEF Kept
<1>11. CASE SlaveBlock
  <2>1. PICK size \in TxSizes : Settles("BLOCK") /\ SetSlaveBlockBuffers(size)
    BY <1>11 DEF SlaveBlock
  <2>2. d.mode \in {"NONE", "BLOCK"} BY <2>1 DEF Settles
  <2>3. /\ d'.mode = "BLOCK" /\ d'.rxIdx = 0 /\ h'.rx = <<>> /\ h'.ris \subseteq h.ris
    BY <2>1, <1>1, BuffersKeep DEF Settles
  <2> QED BY <1>10, <2>2, <2>3
<1>12. CASE SlaveCmd
  <2>1. PICK on \in BOOLEAN : Settles("BLOCK") /\ SetCmdHandler(on)
    BY <1>12 DEF SlaveCmd
  <2>2. d.mode \in {"NONE", "BLOCK"} BY <2>1 DEF Settles
  <2>3. /\ d'.mode = d.mode /\ d'.rxIdx = d.rxIdx /\ h'.ris \subseteq h.ris
        /\ h'.rx = h.rx \/ h'.rx = <<>>
    BY <2>1, <1>1, CmdHandlerKeeps DEF Settles
  <2>4. CASE d.mode = "BLOCK"
    <3>1. d'.rxIdx = 0 /\ h'.rx = <<>> /\ d'.mode = "BLOCK" BY <2>3, <2>4, <1>7
    <3> QED BY <1>10, <2>3, <2>4, <3>1
  <2>5. CASE d.mode = "NONE"
    <3>1. d'.mode = "NONE" /\ "RXOVFLOW" \notin h'.ris BY <2>3, <2>5, <1>8
    <3>2. Sent' BY <1>6, <2>5 DEF Sent
    <3> QED BY <3>1, <3>2 DEF Kept, Ends, BlockKept, FrameKept
  <2> QED BY <2>2, <2>4, <2>5
<1>13. CASE SlaveFrameRx
  <2>1. bus.t = 0 /\ d.mode \in {"NONE", "FRAME"} /\ SetFrameRxHandler
    BY <1>13 DEF SlaveFrameRx, Settles
  <2>2. d'.mode = "FRAME" /\ h'.rx = h.rx
        /\ h'.ris = h.ris \ {"TXURUN", "RXOVFLOW", "RXDONE"}
    BY <2>1, <1>4, Zenon DEF SetFrameRxHandler
  <2>3. h.rx = <<>> /\ log.got = <<>> /\ log.sent = <<>>
    BY <2>1, <1>0, <1>3 DEF Modes, Sent
  <2>4. Ends' BY <2>2 DEF Ends
  <2>5. BlockKept' BY <2>2 DEF BlockKept
  <2>6. FrameKept'
    <3>1. Level(h'.rx) = 0 /\ Level(log'.got) = 0 /\ h'.rx = <<>> BY <2>2, <2>3, <1>5, <1>9
    <3>2. InOrder(Level(log.got))'
      <4>1. Level(log'.got) + Level(h'.rx) = Level(log'.sent)
        <5>1. Level(log'.sent) = 0 BY <1>5, <1>9, <2>3
        <5> QED BY <3>1, <5>1, SMT
      <4>2. \A i \in 1..Level(h'.rx) : h'.rx[i] = log'.sent[Level(log'.got) + i]
        BY <3>1, SMT
      <4> QED BY <4>1, <4>2 DEF InOrder
    <3>3. \A i \in 1..Level(log'.got) : log'.got[i] = log'.sent[i] BY <3>1, SMT
    <3> QED BY <3>1, <3>2, <3>3, Zenon DEF FrameKept
  <2>7. Sent' BY <1>6, <2>2 DEF Sent
  <2> QED BY <2>7, <2>4, <2>5, <2>6 DEF Kept
<1>14. CASE SlaveFrameTx
  <2>1. PICK v : d.mode \in {"NONE", "FRAME"} /\ SetSlaveTxFrame(v)
    BY <1>14 DEF SlaveFrameTx, Settles
  <2>2. /\ d'.mode = "FRAME" /\ d'.frameHandler = d.frameHandler /\ h'.rx = h.rx
        /\ h'.ris = h.ris \ {"TXURUN", "RXOVFLOW", "TXDONE"}
    BY <2>1, <1>4, Zenon DEF SetSlaveTxFrame
  <2>3. d.mode = "NONE" => ~d.frameHandler BY <1>3 DEF Modes
  <2>4. Ends' BY <2>2 DEF Ends
  <2>5. BlockKept' BY <2>2 DEF BlockKept
  <2>6. FrameKept'
    <3>1. "RXDONE" \in h'.ris <=> "RXDONE" \in h.ris BY <2>2
    <3>2. CASE d.mode = "FRAME" BY <1>0, <1>5, <2>2, <3>1, <3>2, Zenon DEF FrameKept, InOrder
    <3>3. CASE d.mode = "NONE" BY <2>2, <2>3, <3>3, Zenon DEF FrameKept
    <3> QED BY <2>1, <3>2, <3>3
  <2>7. Sent' BY <1>6, <2>2 DEF Sent
  <2> QED BY <2>7, <2>4, <2>5, <2>6 DEF Kept
<1> QED BY <1>11, <1>12, <1>13, <1>14 DEF Slave

\* A frame on the wire goes behind those that wait, or is lost as a fault.
LEMMA ShiftDelivers ==
  ASSUME WireInv, Kept, Shift
  PROVE  Kept'
<1>0. Sent /\ Ends /\ BlockKept /\ FrameKept BY DEF Kept
<1>1. SlaveSide BY DEF WireInv
<1>2. SlaveTypes(Here) /\ Here.d = d /\ Here.h = h BY <1>1, HereIs
<1>3. /\ bus.n \in Nat /\ Level(log.sent) \in Nat /\ Level(log.got) \in Nat
      /\ d.rxIdx \in Nat /\ Level(h.rx) \in Nat /\ Sequential(h.rx) /\ Modes
      /\ DOMAIN log = {"sent", "got", "missed", "fault", "with"}
      /\ DOMAIN bus = {"sel", "n", "t"} /\ Sequential(log.sent) /\ Sequential(log.got)
      /\ d.mode # "FRAME" => Level(log.sent) = bus.n
  BY <1>0, WithinWire
<1>4. DOMAIN h = HardwareFields
  BY <1>2 DEF SlaveTypes, SlaveNumbers
<1> DEFINE e == Head(m.tx)
           fault == log.fault \/ Overrun \/ (Underrun /\ ~Quiet)
           sent == Append(log.sent, e)
           rx == IF Overrun THEN h.rx ELSE Append(h.rx, e)
           ris == h.ris \union Raised
                        \union (IF Underrun THEN {"TXURUN"} ELSE {})
                        \union (IF Overrun THEN {"RXOVFLOW"} ELSE {})
<1>5. /\ bus.sel /\ d' = d /\ isr' = isr /\ bus' = [bus EXCEPT !.n = @ + 1]
      /\ log' = [log EXCEPT !.sent = sent, !.fault = fault]
  BY <1>3, Zenon DEF Shift
<1>6. h'.rx = rx /\ h'.ris = ris
  BY <1>4, Zenon DEF Shift
<1> HIDE DEF fault
<1>7. /\ log'.sent = sent /\ log'.got = log.got /\ log'.fault = fault
      /\ bus'.sel = bus.sel /\ bus'.n = bus.n + 1 /\ bus'.t = bus.t
  BY <1>3, <1>5, Zenon
<1>71. ~Over /\ ~Over' BY <1>5, <1>7 DEF Over
<1>72. Clearing("SSEND")' = Clearing("SSEND") BY <1>5 DEF Clearing
<1>8. ~fault => ~log.fault /\ ~Overrun BY DEF fault
<1>9. "SSEND" \in ris <=> "SSEND" \in h.ris BY DEF Raised
<1>10. "RXOVFLOW" \in ris => "RXOVFLOW" \in h.ris \/ Overrun BY DEF Raised
<1>11. bus.t # 0 BY <1>3, <1>5 DEF Modes
<1>12. /\ Sequential(sent) /\ Level(sent) = Level(log.sent) + 1
       /\ \A i \in 1..Level(log.sent) : sent[i] = log.sent[i]
       /\ sent[Level(log.sent) + 1] = e
  BY <1>3, Appended, Zenon
<1>13. ~Overrun => /\ rx = Append(h.rx, e) /\ Level(rx) = Level(h.rx) + 1
                   /\ \A i \in 1..Level(h.rx) : rx[i] = h.rx[i]
                   /\ rx[Level(h.rx) + 1] = e
  <2>0. Sequential(h.rx) BY <1>3
  <2>1. /\ Level(Append(h.rx, e)) = Level(h.rx) + 1
        /\ \A i \in 1..Level(h.rx) : Append(h.rx, e)[i] = h.rx[i]
        /\ Append(h.rx, e)[Level(h.rx) + 1] = e
    BY <2>0, Appended, Zenon
  <2>2. ~Overrun => rx = Append(h.rx, e) OBVIOUS
  <2> HIDE DEF rx
  <2> QED BY <2>1, <2>2, Zenon
<1>14. "RXDONE" \in h.ris => "RXDONE" \in ris OBVIOUS
<1>15. h.lim = 1 => "RXDONE" \in ris
  <2>1. SUFFICES ASSUME h.lim = 1 PROVE "RXDONE" \in ris
    OBVIOUS
  <2>2. h.cnt + 1 = h.lim
    <3>1. h.cnt = 0 BY <1>3, <2>1 DEF Modes
    <3> QED BY <2>1, <3>1, SMT
  <2> QED BY <2>2 DEF Raised
<1> HIDE DEF sent, rx, ris, e
\* Whatever has been taken, the FIFO continues it.
<1>16. ASSUME NEW k \in Nat, ~fault, InOrder(k)
       PROVE  InOrder(k)'
  <2>1. k + Level(h.rx) = Level(log.sent)
        /\ \A i \in 1..Level(h.rx) : h.rx[i] = log.sent[k + i]
    BY <1>16 DEF InOrder
  <2>2. ~Overrun BY <1>8, <1>16
  <2>3. /\ Level(rx) = Level(h.rx) + 1
        /\ \A i \in 1..Level(h.rx) : rx[i] = h.rx[i]
        /\ rx[Level(h.rx) + 1] = e
    BY <1>13, <2>2
  <2>4. k + Level(rx) = Level(sent)
    <3>1. k + (Level(h.rx) + 1) = Level(log.sent) + 1 BY <2>1, <1>3, SMT
    <3> QED BY <3>1, <2>3, <1>12
  <2>5. ASSUME NEW i \in 1..Level(rx) PROVE rx[i] = sent[k + i]
    <3>1. CASE i = Level(h.rx) + 1
      <4>1. k + i = Level(log.sent) + 1 BY <3>1, <2>1, <1>3, SMT
      <4> QED BY <3>1, <4>1, <2>3, <1>12
    <3>2. CASE i # Level(h.rx) + 1
      <4>1. i \in 1..Level(h.rx) /\ k + i \in 1..Level(log.sent)
        BY <3>2, <2>1, <2>3, <1>3, SMT
      <4> QED BY <4>1, <2>1, <2>3, <1>12
    <3> QED BY <3>1, <3>2
  <2> QED BY <2>4, <2>5, <1>6, <1>7 DEF InOrder
<1>17. Sent'
  <2>1. d.mode # "FRAME" => Level(sent) = bus.n + 1 BY <1>3, <1>12
  <2> QED BY <2>1, <1>3, <1>5, <1>7, <1>11, <1>12, Zenon DEF Sent
<1>18. Ends'
  <2>1. "RXOVFLOW" \in h'.ris => log'.fault
    <3>1. "RXOVFLOW" \in h.ris => log.fault BY <1>0 DEF Ends
    <3>2. log.fault \/ Overrun => fault BY DEF fault
    <3> QED BY <3>1, <3>2, <1>6, <1>7, <1>10
  <2>2. d.mode = "BLOCK" => "SSEND" \notin h'.ris BY <1>0, <1>5, <1>6, <1>9 DEF Ends
  <2>3. d.mode = "BLOCK" => ~Clearing("SSEND")' BY <1>0, <1>5, <1>72 DEF Ends
  <2> QED BY <2>1, <2>2, <2>3, <1>5, <1>7, <1>71, Zenon DEF Ends
<1>19. BlockKept'
  <2>1. SUFFICES ASSUME d.mode = "BLOCK", ~fault
                 PROVE  /\ log.got = <<>> /\ InOrder(d.rxIdx)'
                        /\ \A i \in 1..RxSize : i <= d.rxIdx => d.rx[i] = sent[i]
    BY <1>5, <1>7, <1>71, Zenon DEF BlockKept
  <2>2. ~log.fault BY <1>8, <2>1
  <2>3. /\ log.got = <<>> /\ InOrder(d.rxIdx)
        /\ \A i \in 1..RxSize : i <= d.rxIdx => d.rx[i] = log.sent[i]
    BY <1>0, <1>71, <2>1, <2>2, Zenon DEF BlockKept
  <2>4. InOrder(d.rxIdx)'
    <3>1. PICK k : k = d.rxIdx OBVIOUS
    <3>2. InOrder(k)' BY <1>3, <1>16, <2>1, <2>3, <3>1
    <3> QED BY <3>1, <3>2, <1>5 DEF InOrder
  <2>5. ASSUME NEW i \in 1..RxSize, i <= d.rxIdx PROVE d.rx[i] = sent[i]
    <3>1. d.rxIdx + Level(h.rx) = Level(log.sent) BY <2>3 DEF InOrder
    <3>2. i \in 1..Level(log.sent) BY <2>5, <3>1, <1>3, Sizes, SMT
    <3> QED BY <2>3, <2>5, <3>2, <1>12
  <2> QED BY <2>3, <2>4, <2>5
<1>20. FrameKept'
  <2>1. SUFFICES ASSUME d.mode = "FRAME", d.frameHandler
                 PROVE  /\ "RXDONE" \in h'.ris
                        /\ ~fault =>
                             /\ InOrder(Level(log.got))'
                             /\ \A i \in 1..Level(log.got) : log.got[i] = sent[i]
    BY <1>5, <1>7, Zenon DEF FrameKept
  <2>2. "RXDONE" \in h'.ris
    <3>1. h.lim = 1 BY <1>3, <2>1 DEF Modes
    <3> QED BY <3>1, <1>6, <1>15
  <2>3. ASSUME ~fault
        PROVE  /\ InOrder(Level(log.got))'
               /\ \A i \in 1..Level(log.got) : log.got[i] = sent[i]
    <3>1. ~log.fault BY <1>8, <2>3
    <3>2. /\ InOrder(Level(log.got))
          /\ \A i \in 1..Level(log.got) : log.got[i] = log.sent[i]
      BY <1>0, <2>1, <3>1, Zenon DEF FrameKept
    <3>3. InOrder(Level(log.got))'
      <4>1. PICK k : k = Level(log.got) OBVIOUS
      <4>2. InOrder(k)' BY <1>3, <1>16, <2>3, <3>2, <4>1
      <4> QED BY <4>1, <4>2, <1>7 DEF InOrder
    <3>4. ASSUME NEW i \in 1..Level(log.got) PROVE log.got[i] = sent[i]
      <4>1. Level(log.got) + Level(h.rx) = Level(log.sent) BY <3>2 DEF InOrder
      <4>2. i \in 1..Level(log.sent) BY <4>1, <1>3, SMT
      <4> QED BY <3>2, <4>2, <1>12
    <3> QED BY <3>3, <3>4
  <2> QED BY <2>2, <2>3
<1> QED BY <1>17, <1>18, <1>19, <1>20 DEF Kept

\* A patient master selects the slave when it is done with the packet before, so that
\* nothing of that is left.
LEMMA SelectDelivers ==
  ASSUME WireInv, Kept, Select, Patient
  PROVE  Kept'
<1>0. Sent /\ Ends /\ BlockKept /\ FrameKept BY DEF Kept
<1>1. /\ bus.n \in Nat /\ d.rxIdx \in Nat /\ Level(h.rx) \in Nat /\ Modes
      /\ Sequential(h.rx)
  BY <1>0, WithinWire
<1>2. /\ m.pc = "idle" /\ Pending = {} /\ d' = d /\ h' = h /\ d.mode # "NONE"
      /\ isr = 0 /\ isr' = isr
      /\ bus' = [sel |-> TRUE, n |-> 0, t |-> bus.t + 1]
      /\ log' = [sent |-> IF d.mode = "FRAME" THEN h.rx ELSE <<>>, got |-> <<>>,
                 missed |-> log.missed, fault |-> log.fault /\ d.mode = "FRAME",
                 with |-> [size |-> d.txSize, cmd |-> d.cmdHandler, frame |-> d.txFrame]]
  BY DEF Select, Patient, Quiet
<1>3. ~bus.sel BY <1>2 DEF WireInv, MasterSide, Counted
<1>31. ~Clearing("SSEND") /\ ~Clearing("SSEND")'
  <2>1. ~(isr > NSources) BY <1>2, ClearsNothing
  <2> QED BY <1>2, <2>1 DEF Clearing
<1>4. /\ bus'.sel /\ bus'.n = 0 /\ log'.got = <<>> /\ log'.missed = log.missed
      /\ log'.sent = IF d.mode = "FRAME" THEN h.rx ELSE <<>>
  BY <1>2, Zenon
<1>5. log'.fault = (log.fault /\ d.mode = "FRAME") BY <1>2, Zenon
<1>6. bus'.t # 0
  <2>1. bus'.t = bus.t + 1 BY <1>2
  <2>2. bus.t \in 0..MaxTrans BY DEF WireInv, MasterSide, MasterTypes, MasterNumbers
  <2>3. bus.t \in Nat BY <2>2, Sizes, SMT
  <2> QED BY <2>1, <2>3, SMT
<1>7. Sequential(<<>>) /\ Level(<<>>) = 0 BY Empty
<1>8. d.mode = "BLOCK" => /\ "SSEND" \notin h.ris /\ "RXOVFLOW" \notin h.ris
                          /\ d.rxIdx = 0 /\ h.rx = <<>>
  <2>1. SUFFICES ASSUME d.mode = "BLOCK"
                 PROVE  /\ "SSEND" \notin h.ris /\ "RXOVFLOW" \notin h.ris
                        /\ d.rxIdx = 0 /\ h.rx = <<>>
    OBVIOUS
  <2>2. "SSEND" \notin h.ris BY <1>1, <1>2, <2>1 DEF Modes, Pending
  <2> QED BY <1>0, <1>3, <2>1, <2>2 DEF Ends, Over
<1>9. d.mode = "FRAME" /\ d.frameHandler /\ h.rx # <<>> => log.missed
  <2>1. SUFFICES ASSUME d.mode = "FRAME", d.frameHandler, h.rx # <<>> PROVE log.missed
    OBVIOUS
  <2>2. "RXDONE" \notin h.ris BY <1>1, <1>2, <2>1 DEF Modes, Pending
  <2> QED BY <1>0, <2>1, <2>2 DEF FrameKept
<1>10. \A k \in Nat : k = 0 /\ h.rx = log'.sent => InOrder(k)'
  <2>1. SUFFICES ASSUME h.rx = log'.sent, NEW k \in Nat, k = 0 PROVE InOrder(k)'
    OBVIOUS
  <2>2. h'.rx = log'.sent BY <2>1, <1>2
  <2>3. k + Level(h'.rx) = Level(log'.sent)
    <3>1. 0 + Level(h.rx) = Level(h.rx) BY <1>1, SMT
    <3> QED BY <3>1, <2>1, <2>2
  <2>4. ASSUME NEW i \in 1..Level(h'.rx) PROVE h'.rx[i] = log'.sent[k + i]
    <3>1. k + i = i BY <2>1, <1>1, <1>2, SMT
    <3> QED BY <3>1, <2>2
  <2> QED BY <2>3, <2>4 DEF InOrder
<1>11. Sent' BY <1>1, <1>2, <1>4, <1>6, <1>7 DEF Sent
<1>12. Ends'
  <2>1. "RXOVFLOW" \in h'.ris => log'.fault
    <3>1. "RXOVFLOW" \in h.ris => log.fault BY <1>0 DEF Ends
    <3>2. d.mode \in {"BLOCK", "FRAME"} BY <1>2, ModesAre
    <3> QED BY <3>1, <3>2, <1>2, <1>5, <1>8
  <2> QED BY <2>1, <1>2, <1>31, <1>4, <1>8, Zenon DEF Ends, Over
<1>13. BlockKept'
  <2>1. SUFFICES ASSUME d.mode = "BLOCK"
                 PROVE  /\ log'.got = <<>> /\ InOrder(d.rxIdx)'
                        /\ \A i \in 1..RxSize : i <= d'.rxIdx => d'.rx[i] = log'.sent[i]
    BY <1>2, <1>4, Zenon DEF BlockKept, Over
  <2>2. InOrder(d.rxIdx)'
    <3>1. PICK k : k = d.rxIdx OBVIOUS
    <3>2. log'.sent = <<>> BY <1>4, <2>1
    <3>3. InOrder(k)' BY <3>1, <3>2, <2>1, <1>1, <1>8, <1>10
    <3> QED BY <3>1, <3>3, <1>2 DEF InOrder
  <2>3. \A i \in 1..RxSize : i <= d'.rxIdx => d'.rx[i] = log'.sent[i]
    <3>1. d'.rxIdx = 0 BY <2>1, <1>2, <1>8
    <3> QED BY <3>1, Sizes, SMT
  <2> QED BY <2>2, <2>3, <1>4
<1>14. FrameKept'
  <2>1. SUFFICES ASSUME d.mode = "FRAME", d.frameHandler
                 PROVE  /\ InOrder(Level(log.got))'
                        /\ \A i \in 1..Level(log'.got) : log'.got[i] = log'.sent[i]
    BY <1>2, <1>4, <1>9, Zenon DEF FrameKept
  <2>2. h.rx = log'.sent BY <1>4, <2>1
  <2>3. Level(log'.got) = 0 BY <1>4, <1>7
  <2>4. InOrder(Level(log.got))'
    <3>1. PICK k : k = Level(log'.got) OBVIOUS
    <3>2. InOrder(k)' BY <3>1, <2>2, <2>3, <1>10
    <3> QED BY <3>1, <3>2 DEF InOrder
  <2>5. \A i \in 1..Level(log'.got) : log'.got[i] = log'.sent[i] BY <2>3, SMT
  <2> QED BY <2>4, <2>5
<1> QED BY <1>11, <1>12, <1>13, <1>14 DEF Kept

\* It ends the packet when the slave is not behind by an overflow.
LEMMA DeselectDelivers ==
  ASSUME WireInv, Kept, Deselect, Patient
  PROVE  Kept'
<1>0. Sent /\ Ends /\ BlockKept /\ FrameKept BY DEF Kept
<1>1. Modes /\ DOMAIN bus = {"sel", "n", "t"} BY <1>0, WithinWire
<1>2. SlaveSide BY DEF WireInv
<1>3. SlaveTypes(Here) /\ Here.h = h BY <1>2, HereIs
<1>4. DOMAIN h = HardwareFields BY <1>3 DEF SlaveTypes, SlaveNumbers
<1>5. /\ m.pc = "ready" /\ bus.n > 0 /\ "RXOVFLOW" \notin Pending
      /\ bus' = [bus EXCEPT !.sel = FALSE] /\ h' = [h EXCEPT !.ris = @ \union {"SSEND"}]
      /\ d' = d /\ log' = log /\ isr' = isr
  BY DEF Deselect, Patient
<1>6. h'.rx = h.rx /\ h'.ris = h.ris \union {"SSEND"} BY <1>4, <1>5, Zenon
<1>7. bus'.n = bus.n /\ bus'.t = bus.t /\ ~bus'.sel BY <1>1, <1>5, Zenon
<1>8. bus.sel BY <1>5 DEF WireInv, MasterSide, Counted
<1>81. Clearing("SSEND")' = Clearing("SSEND") BY <1>5 DEF Clearing
<1>82. d.mode = "BLOCK" => ~Clearing("SSEND") BY <1>0, <1>8 DEF Ends
<1>83. d.mode = "BLOCK" => ~Over' BY <1>6, <1>81, <1>82 DEF Over
<1>84. ~Over BY <1>8 DEF Over
<1>9. Sent' BY <1>0, <1>5, <1>7, Zenon DEF Sent
<1>10. Ends'
  <2>1. "RXOVFLOW" \in h'.ris => log'.fault BY <1>0, <1>5, <1>6 DEF Ends
  <2>2. "SSEND" \in h'.ris BY <1>6
  <2>3. d.mode = "BLOCK" => "RXOVFLOW" \notin h'.ris
    BY <1>1, <1>5, <1>6 DEF Modes, Pending
  <2> QED BY <2>1, <2>2, <2>3, <1>5, <1>7, <1>81, <1>82, <1>83, Zenon DEF Ends
<1>11. BlockKept'
  <2>1. SUFFICES ASSUME d.mode = "BLOCK" PROVE BlockKept'
    BY <1>5, Zenon DEF BlockKept
  <2> QED BY <2>1, <1>0, <1>5, <1>6, <1>83, <1>84, Zenon DEF BlockKept, InOrder
<1>12. FrameKept'
  <2>1. "RXDONE" \in h.ris => "RXDONE" \in h'.ris BY <1>6
  <2> QED BY <2>1, <1>0, <1>5, <1>6, Zenon DEF FrameKept, InOrder
<1> QED BY <1>9, <1>10, <1>11, <1>12 DEF Kept

\* Nothing is sent before the slave is set up.
LEMMA PacketInit == Init => PacketInv
<1> SUFFICES ASSUME Init PROVE PacketInv
  OBVIOUS
<1>1. WireInv BY MasterInit, SlaveInit DEF WireInv
<1>2. d.mode = "NONE" /\ h.ris = {} BY DEF Init, DInit, HInit
<1>3. log.sent = <<>> /\ log.got = <<>> /\ bus.n = 0 BY DEF Init
<1>4. Sent BY <1>2, <1>3, Empty DEF Sent
<1>5. Ends BY <1>2 DEF Ends
<1>6. BlockKept /\ FrameKept BY <1>2 DEF BlockKept, FrameKept
<1> QED BY <1>1, <1>4, <1>5, <1>6 DEF PacketInv

\* Every step of a patient master and of the slave keeps the packets.
LEMMA PacketStep ==
  ASSUME PacketInv, [Next]_vars, Patient
  PROVE  PacketInv'
<1>1. WireInv /\ Kept BY DEF PacketInv, Kept
<1>2. WireInv' BY <1>1, MasterStep, SlaveStep DEF WireInv
<1>3. /\ TransferBlock \/ BlockTurn \/ TransferFrame \/ TxDone \/ RxReady \/ Dma
         \/ UNCHANGED vars => UNCHANGED <<d, h, log, bus>> /\ isr' = isr
      /\ IsrStarts \/ IsrSkips => UNCHANGED <<d, h, log, bus>> /\ isr \in 0..6 /\ isr' \in 0..6
  <2>1. TransferBlock \/ BlockTurn \/ TransferFrame \/ TxDone \/ RxReady \/ Dma
        \/ UNCHANGED vars => UNCHANGED <<d, h, log, bus>> /\ isr' = isr
    BY DEF TransferBlock, BlockTurn, TransferFrame, TxDone, RxReady, Dma,
           Disable, SetTransferByteCount, DmaMoves, Enable, DmaDone, vars
  <2>2. NSources = 6 BY SMT DEF NSources, Sources
  <2>3. IsrStarts => UNCHANGED <<d, h, log, bus>> /\ isr = 0 /\ isr' = 1 BY DEF IsrStarts
  <2>4. IsrSkips => UNCHANGED <<d, h, log, bus>> /\ isr \in 1..6 /\ isr' = After(isr)
    BY <2>2 DEF IsrSkips
  <2>5. \A i \in 1..6 : After(i) \in 0..6 BY <2>2, SMT DEF After
  <2>6. \A i \in 1..6 : i \in 0..6 BY SMT
  <2>7. 0 \in 0..6 /\ 1 \in 0..6 BY SMT
  <2> QED BY <2>1, <2>3, <2>4, <2>5, <2>6, <2>7
<1>4. Kept'
  <2>1. ASSUME UNCHANGED <<d, h, log, bus>>, Clearing("SSEND")' = Clearing("SSEND")
        PROVE  Kept'
    BY <1>1, <2>1, Zenon DEF Kept, Sent, Ends, Over, BlockKept, FrameKept, InOrder, Packet
  <2>11. CASE UNCHANGED <<d, h, log, bus>> /\ isr' = isr
    <3>1. Clearing("SSEND")' = Clearing("SSEND") BY <2>11 DEF Clearing
    <3> QED BY <2>1, <2>11, <3>1
  <2>12. CASE UNCHANGED <<d, h, log, bus>> /\ isr \in 0..6 /\ isr' \in 0..6
    <3>1. ~(isr > NSources) /\ ~(isr' > NSources) BY <2>12, ClearsNothing
    <3>2. Clearing("SSEND")' = Clearing("SSEND") BY <3>1 DEF Clearing
    <3> QED BY <2>1, <2>12, <3>2
  <2>2. CASE Slave BY <1>1, <2>2, SetUpDelivers
  <2>3. CASE IsrServes BY <1>1, <2>3, ServesDelivers
  <2>4. CASE Shift BY <1>1, <2>4, ShiftDelivers
  <2>5. CASE Select BY <1>1, <2>5, SelectDelivers
  <2>6. CASE Deselect BY <1>1, <2>6, DeselectDelivers
  <2>7. CASE IsrClears BY <1>1, <2>7, ClearsDelivers
  <2> QED BY <2>11, <2>12, <2>2, <2>3, <2>4, <2>5, <2>6, <2>7, <1>3, Zenon
          DEF Next, Isr, Master
<1> QED BY <1>2, <1>4 DEF PacketInv, Kept

\* As long as the master leaves the slave the time it needs, the slave's handlers are
\* given each packet, or each frame, of the transaction whole, in order and once.
THEOREM PacketIsWholeHolds ==
  ASSUME Patient
  PROVE  Spec => []PacketIsWhole
<1>1. PacketInv => PacketIsWhole
  <2> SUFFICES ASSUME PacketInv, ~log.fault
               PROVE  IF d.mode = "FRAME"
                        THEN d.frameHandler =>
                               /\ IsPrefix(log.got, log.sent)
                               /\ (Quiet /\ ~bus.sel) =>
                                    /\ log.got \o h.rx = log.sent
                                    /\ h.rx # <<>> => log.missed
                        ELSE /\ \A i \in DOMAIN log.got :
                                  log.got[i] =
                                    [size |-> Len(log.sent),
                                     data |-> SubSeq(log.sent, 1,
                                                     Least(Len(log.sent), RxSize))]
                             /\ (Quiet /\ ~bus.sel) =>
                                  Len(log.got) = IF bus.n > 0 THEN 1 ELSE 0
    BY DEF PacketIsWhole
  <2>0. WireInv /\ Sent /\ Ends /\ BlockKept /\ FrameKept BY DEF PacketInv
  <2>1. /\ bus.n \in Nat /\ Level(log.sent) \in Nat /\ Level(log.got) \in Nat
        /\ Level(h.rx) \in Nat /\ Sequential(h.rx) /\ Modes
        /\ Sequential(log.sent) /\ Sequential(log.got)
    BY <2>0, WithinWire
  <2>2. Level(<<>>) = 0 BY Empty
  <2>3. CASE d.mode = "FRAME" /\ d.frameHandler
    <3>1. /\ Level(log.got) + Level(h.rx) = Level(log.sent)
          /\ \A i \in 1..Level(log.got) : log.got[i] = log.sent[i]
          /\ \A i \in 1..Level(h.rx) : h.rx[i] = log.sent[Level(log.got) + i]
          /\ h.rx # <<>> => "RXDONE" \in h.ris \/ log.missed
      BY <2>0, <2>3, Zenon DEF FrameKept, InOrder
    <3>2. IsPrefix(log.got, log.sent)
      <4>1. SubSeq(log.got, 1, Level(log.got)) = SubSeq(log.sent, 1, Level(log.got))
        BY <3>1, <2>1, SameStart
      <4>2. Level(log.got) <= Level(log.sent) BY <3>1, <2>1, SMT
      <4> QED BY <4>1, <4>2 DEF IsPrefix, Level
    <3>3. ASSUME Quiet, h.rx # <<>> PROVE log.missed
      <4>1. "RXDONE" \notin h.ris BY <2>1, <2>3, <3>3 DEF Modes, Quiet, Pending
      <4> QED BY <3>1, <3>3, <4>1
    <3>4. log.got \o h.rx = log.sent
      <4> DEFINE all == log.got \o h.rx
      <4>1. Chained(all, log.got, h.rx) BY <2>1, Joined
      <4>2. /\ Sequential(all) /\ Level(all) = Level(log.got) + Level(h.rx)
            /\ \A i \in 1..Level(log.got) : all[i] = log.got[i]
            /\ \A i \in 1..Level(h.rx) : all[Level(log.got) + i] = h.rx[i]
        BY <4>1, Zenon DEF Chained
      <4> HIDE DEF all
      <4>3. Level(all) = Level(log.sent) BY <3>1, <4>2
      <4>4. ASSUME NEW i \in 1..Level(all) PROVE all[i] = log.sent[i]
        <5>1. CASE i <= Level(log.got)
          <6>1. i \in 1..Level(log.got) BY <5>1, <4>2, <2>1, SMT
          <6> QED BY <6>1, <4>2, <3>1
        <5>2. CASE ~(i <= Level(log.got))
          <6> DEFINE j == i - Level(log.got)
          <6>1. j \in 1..Level(h.rx) /\ i = Level(log.got) + j BY <5>2, <4>2, <2>1, SMT
          <6> HIDE DEF j
          <6>2. all[i] = h.rx[j] BY <6>1, <4>2
          <6>3. log.sent[i] = h.rx[j] BY <6>1, <3>1
          <6> QED BY <6>2, <6>3
        <5> QED BY <5>1, <5>2
      <4>5. all = log.sent BY <4>2, <4>3, <4>4, <2>1, SameFrames
      <4> QED BY <4>5 DEF all
    <3> QED BY <2>3, <3>2, <3>3, <3>4
  <2>4. CASE d.mode = "BLOCK"
    <3>1. log.got = <<>> \/ log.got = <<Packet>>
      BY <2>0, <2>4, Zenon DEF BlockKept
    <3>2. ASSUME NEW i \in DOMAIN log.got PROVE log.got[i] = Packet
      <4>1. DOMAIN log.got = 1..Level(log.got) BY <2>1, SequentialIs
      <4>2. log.got # <<>>
        <5>1. i \in 1..Level(log.got) BY <4>1
        <5>2. Level(log.got) # 0 BY <5>1, <2>1, SMT
        <5> QED BY <5>2, <2>2
      <4>3. log.got = <<Packet>> BY <3>1, <4>2
      <4>4. Level(log.got) = 1 /\ <<Packet>>[1] = Packet BY <4>3, Single
      <4>5. i = 1 BY <4>1, <4>4, SMT
      <4> QED BY <4>3, <4>4, <4>5
    <3>3. ASSUME Quiet, ~bus.sel PROVE Level(log.got) = IF bus.n > 0 THEN 1 ELSE 0
      <4>1. "SSEND" \notin h.ris BY <2>1, <2>4, <3>3 DEF Modes, Quiet, Pending
      <4>11. Over BY <3>3, <4>1 DEF Over
      <4>2. CASE bus.n = 0
        <5>1. log.got = <<>> BY <2>0, <2>4, <4>2, Zenon DEF BlockKept
        <5> QED BY <5>1, <4>2, <2>2, SMT
      <4>3. CASE bus.n # 0
        <5>1. log.got = <<Packet>> BY <2>0, <2>4, <4>11, <4>3, Zenon DEF BlockKept
        <5>2. Level(log.got) = 1 BY <5>1, Single
        <5>3. bus.n > 0 BY <4>3, <2>1, SMT
        <5> QED BY <5>2, <5>3
      <4> QED BY <4>2, <4>3
    <3> QED BY <2>4, <3>2, <3>3 DEF Packet, Level
  <2>5. CASE d.mode = "NONE"
    <3>1. log.got = <<>> /\ bus.n = 0 BY <2>0, <2>1, <2>5 DEF Modes, Sent
    <3>2. Level(log.got) = 0 BY <3>1, <2>2
    <3>3. DOMAIN log.got = 1..Level(log.got) BY <2>1, SequentialIs
    <3>4. DOMAIN log.got = {} BY <3>2, <3>3, SMT
    <3>5. (IF bus.n > 0 THEN 1 ELSE 0) = 0 BY <3>1, SMT
    <3> QED BY <2>5, <3>2, <3>4, <3>5 DEF Level
  <2> QED BY <2>0, <2>3, <2>4, <2>5, ModesAre
<1> QED BY <1>1, PacketInit, PacketStep, PTL DEF Spec

---------------------------------------------------------------------------
(* What the slave says.  The pieces: two records that say the same, a FIFO  *)
(* that is filled from a place of the answer on, and the frames that are    *)
(* loaded, for each of the operations of the driver.                       *)

\* What does not change when the slave is not set up again.
SameSetUp(x, y) ==
  y.d.txSize = x.d.txSize /\ y.d.txFrame = x.d.txFrame /\ y.h.auto \in {x.h.auto, FALSE}
SameReply(x, y) ==
  /\ y.d.txSize = x.d.txSize /\ y.d.respSize = x.d.respSize /\ y.d.resp = x.d.resp
  /\ y.d.cmdDone = x.d.cmdDone
SameLoad(x, y) == y.d.txIdx = x.d.txIdx /\ y.d.respIdx = x.d.respIdx /\ y.h.tx = x.h.tx

\* The FIFO holds the next frames as long as neither it nor the driver changes.
LEMMA StillLoaded ==
  ASSUME NEW x, NEW y, NEW n, SameReply(x, y), SameLoad(x, y), Loaded(x, n)
  PROVE  Loaded(y, n)
<1>1. Holds(y.h.tx, y, n) BY Zenon DEF SameReply, SameLoad, Loaded, Holds, Reply
<1>2. Indexed(y, n + Level(y.h.tx)) BY Zenon DEF SameReply, SameLoad, Loaded, Indexed
<1> QED BY <1>1, <1>2 DEF Loaded

\* The numbers that say what comes next.
LEMMA Counters ==
  ASSUME NEW x, SlaveTypes(x)
  PROVE  /\ x.d.txSize \in Nat /\ x.d.txIdx \in Nat /\ x.d.respSize \in Nat
         /\ x.d.respIdx \in Nat /\ x.d.respIdx <= x.d.respSize
         /\ Sequential(x.h.tx) /\ Level(x.h.tx) \in Nat /\ Level(x.h.tx) <= Depth
<1>1. SlaveNumbers(x) BY DEF SlaveTypes
<1>2. Sequential(x.h.tx) /\ Level(x.h.tx) <= Depth BY <1>1 DEF SlaveNumbers
<1>3. Level(x.h.tx) \in Nat BY <1>2, SequentialIs
<1>4. {x.d.txSize, x.d.txIdx, x.d.respSize, x.d.respIdx} \subseteq Nat
      /\ x.d.respIdx <= x.d.respSize
  BY <1>1 DEF SlaveNumbers
<1> QED BY <1>2, <1>3, <1>4

\* Frames that follow those in the FIFO go behind them.
LEMMA HoldsJoined ==
  ASSUME NEW x, NEW s, NEW t, NEW n \in Nat, Sequential(s), Sequential(t),
         Holds(s, x, n), Holds(t, x, n + Level(s))
  PROVE  Holds(s \o t, x, n)
<1> DEFINE u == s \o t
<1>1. Chained(u, s, t) BY Joined
<1> HIDE DEF u
<1>2. Level(s) \in Nat /\ Level(t) \in Nat BY SequentialIs
<1>3. /\ Level(u) = Level(s) + Level(t)
      /\ \A i \in 1..Level(s) : u[i] = s[i]
      /\ \A i \in 1..Level(t) : u[Level(s) + i] = t[i]
  BY <1>1 DEF Chained
<1>4. ASSUME NEW j \in 1..Level(u) PROVE u[j] = Reply(x, n + j)
  <2>1. CASE j <= Level(s)
    <3>1. j \in 1..Level(s) BY <2>1, <1>2, <1>3, SMT
    <3>2. u[j] = s[j] BY <3>1, <1>3
    <3>3. s[j] = Reply(x, n + j) BY <3>1 DEF Holds
    <3> QED BY <3>2, <3>3
  <2>2. CASE ~(j <= Level(s))
    <3> DEFINE i == j - Level(s)
    <3>1. i \in 1..Level(t) /\ j = Level(s) + i /\ n + j = n + Level(s) + i
      BY <2>2, <1>2, <1>3, SMT
    <3> HIDE DEF i
    <3>2. u[j] = t[i] BY <3>1, <1>3
    <3>3. t[i] = Reply(x, n + Level(s) + i) BY <3>1 DEF Holds
    <3> QED BY <3>1, <3>2, <3>3
  <2> QED BY <2>1, <2>2
<1>5. Holds(u, x, n) BY <1>4 DEF Holds
<1> QED BY <1>5 DEF u

\* How far fill_slave_tx_fifo gets with the buffer (a), the response (b) and the zeros.
Reaches(size, idx, rs, ri, put, room, a, b, z) ==
  /\ a = Least(room, Less(size, idx))
  /\ b = IF idx + a >= size THEN Least(room - a, rs - ri) ELSE 0
  /\ z = 0 \/ (idx + a >= size /\ ri + b >= rs)
  /\ idx = put \/ (idx >= size /\ put >= size)
  /\ ri = Least(Less(put, size), rs)
Reached(size, idx, rs, ri, put, a, b, z) ==
  /\ a > 0 => idx = put /\ put + a <= size
  /\ b > 0 => put + a = size + ri /\ ri + b <= rs
  /\ z > 0 => put + a + b >= size + rs
  /\ idx + a = put + a + b + z \/ (idx + a >= size /\ put + a + b + z >= size)
  /\ ri + b = Least(Less(put + a + b + z, size), rs)
  /\ put + a <= size \/ put > size

\* It goes on with the frame that comes next, and no further than there are frames.
LEMMA Counts ==
  ASSUME NEW size \in Nat, NEW idx \in Nat, NEW rs \in Nat, NEW ri \in Nat, NEW put \in Nat,
         NEW room \in Nat, NEW a \in Nat, NEW b \in Nat, NEW z \in Nat,
         Reaches(size, idx, rs, ri, put, room, a, b, z)
  PROVE  Reached(size, idx, rs, ri, put, a, b, z)
<1> USE DEF Reaches
<1>1. a > 0 => idx = put /\ put + a <= size BY SMT DEF Least, Less
<1>2. b > 0 => put + a = size + ri /\ ri + b <= rs BY SMT DEF Least, Less
<1>3. z > 0 => put + a + b >= size + rs BY SMT DEF Least, Less
<1>4. idx + a = put + a + b + z \/ (idx + a >= size /\ put + a + b + z >= size)
  BY SMT DEF Least, Less
<1>5. ri + b = Least(Less(put + a + b + z, size), rs) BY SMT DEF Least, Less
<1>6. put + a <= size \/ put > size BY SMT DEF Least, Less
<1> QED BY <1>1, <1>2, <1>3, <1>4, <1>5, <1>6 DEF Reached

\* Its room is used up, or the command has to come first.
Full(x, n) ==
  Level(x.h.tx) = Depth \/ (~x.d.cmdDone /\ n + Level(x.h.tx) >= x.d.txSize)

\* fill_slave_tx_fifo continues where the FIFO ends.
LEMMA FillLoads ==
  ASSUME NEW x, SlaveTypes(x), NEW n \in Nat
  PROVE  /\ SameSetUp(x, Fill(x)) /\ SameReply(x, Fill(x)) /\ Fill(x).h.cnt = x.h.cnt
         /\ Loaded(x, n) /\ (x.d.cmdDone \/ x.d.respSize = 0) =>
              Loaded(Fill(x), n) /\ Full(Fill(x), n)
<1> DEFINE room == Depth - Len(x.h.tx)
           a == Least(room, Less(x.d.txSize, x.d.txIdx))
           b == IF x.d.txIdx + a >= x.d.txSize
                  THEN Least(room - a, x.d.respSize - x.d.respIdx) ELSE 0
           z == IF /\ x.d.cmdDone
                   /\ x.d.txIdx + a >= x.d.txSize
                   /\ x.d.respIdx + b >= x.d.respSize THEN room - a - b ELSE 0
           sa == [i \in 1..a |-> <<"tx", x.d.txIdx + i>>]
           sb == [i \in 1..b |-> <<"resp", x.d.resp, x.d.respIdx + i>>]
           sz == [i \in 1..z |-> Zero]
           ta == x.h.tx \o sa
           tb == ta \o sb
           t == tb \o sz
           y == Fill(x)
           put == n + Level(x.h.tx)
<1>1. y = [d |-> [x.d EXCEPT !.txIdx = @ + a, !.respIdx = @ + b],
           h |-> [x.h EXCEPT !.tx = t]]
  BY DEF Fill
<1>2. /\ x.d.txSize \in Nat /\ x.d.txIdx \in Nat /\ x.d.respSize \in Nat
      /\ x.d.respIdx \in Nat /\ x.d.respIdx <= x.d.respSize
      /\ Sequential(x.h.tx) /\ Level(x.h.tx) \in Nat /\ Level(x.h.tx) <= Depth
  BY Counters
<1>3. room \in Nat /\ room + Level(x.h.tx) = Depth BY <1>2, Sizes, SMT DEF Level
<1>4. put \in Nat BY <1>2, SMT
<1> HIDE DEF room
<1>5. a \in Nat /\ a <= room BY <1>2, <1>3, SMT DEF Least, Less
<1>51. a = Least(room, Less(x.d.txSize, x.d.txIdx)) OBVIOUS
<1> HIDE DEF a
<1>6. b \in Nat /\ a + b <= room BY <1>2, <1>3, <1>5, SMT DEF Least
<1>61. b = IF x.d.txIdx + a >= x.d.txSize
             THEN Least(room - a, x.d.respSize - x.d.respIdx) ELSE 0
  OBVIOUS
<1> HIDE DEF b
<1>7. z \in Nat /\ a + b + z <= room BY <1>3, <1>5, <1>6, SMT
<1>71. z = 0 \/ (x.d.txIdx + a >= x.d.txSize /\ x.d.respIdx + b >= x.d.respSize)
  OBVIOUS
<1>72. ~x.d.cmdDone => z = 0 OBVIOUS
<1>73. \/ x.d.txIdx + a >= x.d.txSize /\ x.d.respIdx + b >= x.d.respSize
            /\ (~x.d.cmdDone \/ z = room - a - b)
       \/ ~(x.d.txIdx + a >= x.d.txSize)
       \/ ~(x.d.respIdx + b >= x.d.respSize)
  OBVIOUS
<1> HIDE DEF z
<1>8. /\ Sequential(sa) /\ Level(sa) = a /\ Sequential(sb) /\ Level(sb) = b
      /\ Sequential(sz) /\ Level(sz) = z
  <2>1. Sequential(sa) /\ Level(sa) = a BY <1>5, Made
  <2>2. Sequential(sb) /\ Level(sb) = b BY <1>6, Made
  <2>3. Sequential(sz) /\ Level(sz) = z BY <1>7, Made
  <2> QED BY <2>1, <2>2, <2>3
<1>9. /\ \A i \in 1..a : sa[i] = <<"tx", x.d.txIdx + i>>
      /\ \A i \in 1..b : sb[i] = <<"resp", x.d.resp, x.d.respIdx + i>>
      /\ \A i \in 1..z : sz[i] = Zero
  OBVIOUS
<1> HIDE DEF sa, sb, sz
<1>10. /\ Sequential(ta) /\ Level(ta) = Level(x.h.tx) + a
       /\ Sequential(tb) /\ Level(tb) = Level(x.h.tx) + a + b
       /\ Level(t) = Level(x.h.tx) + a + b + z
  <2>1. Sequential(ta) /\ Level(ta) = Level(x.h.tx) + a
    BY <1>2, <1>8, Joined DEF Chained
  <2>2. Sequential(tb) /\ Level(tb) = Level(ta) + b
    <3> HIDE DEF ta
    <3> QED BY <2>1, <1>8, Joined DEF Chained
  <2>3. Level(t) = Level(tb) + z
    <3> HIDE DEF tb
    <3> QED BY <2>2, <1>8, Joined DEF Chained
  <2> QED BY <2>1, <2>2, <2>3
<1> HIDE DEF y
<1>11. DOMAIN x.d = DriverFields /\ DOMAIN x.h = HardwareFields
  BY DEF SlaveTypes, SlaveNumbers
<1>12. /\ y.d = [x.d EXCEPT !.txIdx = @ + a, !.respIdx = @ + b]
       /\ y.h = [x.h EXCEPT !.tx = t]
  BY <1>1
<1> HIDE DEF t
<1>13. /\ y.d.txSize = x.d.txSize /\ y.d.txIdx = x.d.txIdx + a
       /\ y.d.respSize = x.d.respSize /\ y.d.respIdx = x.d.respIdx + b
       /\ y.d.resp = x.d.resp /\ y.d.cmdDone = x.d.cmdDone /\ y.d.txFrame = x.d.txFrame
  BY <1>11, <1>12, Zenon
<1>14. y.h.tx = t /\ y.h.auto = x.h.auto /\ y.h.cnt = x.h.cnt BY <1>11, <1>12, Zenon
<1>15. SameSetUp(x, y) /\ SameReply(x, y) BY <1>13, <1>14 DEF SameSetUp, SameReply
<1>16. ASSUME Loaded(x, n), x.d.cmdDone \/ x.d.respSize = 0
       PROVE  Loaded(y, n) /\ Full(y, n)
  <2>0. /\ x.d.txIdx = put \/ (x.d.txIdx >= x.d.txSize /\ put >= x.d.txSize)
        /\ x.d.respIdx = Least(Less(put, x.d.txSize), x.d.respSize)
        /\ (x.d.cmdDone \/ put <= x.d.txSize) /\ Holds(x.h.tx, x, n)
    BY <1>16 DEF Loaded, Indexed
  <2>1. Holds(x.h.tx, x, n) BY <1>16 DEF Loaded
  <2> HIDE DEF put
  <2>2. /\ a > 0 => x.d.txIdx = put /\ put + a <= x.d.txSize
        /\ b > 0 => put + a = x.d.txSize + x.d.respIdx /\ x.d.respIdx + b <= x.d.respSize
        /\ z > 0 => put + a + b >= x.d.txSize + x.d.respSize
        /\ \/ x.d.txIdx + a = put + a + b + z
           \/ x.d.txIdx + a >= x.d.txSize /\ put + a + b + z >= x.d.txSize
        /\ x.d.respIdx + b = Least(Less(put + a + b + z, x.d.txSize), x.d.respSize)
        /\ put + a <= x.d.txSize \/ put > x.d.txSize
    <3>1. Reaches(x.d.txSize, x.d.txIdx, x.d.respSize, x.d.respIdx, put, room, a, b, z)
      BY <2>0, <1>51, <1>61, <1>71 DEF Reaches
    <3>2. Reached(x.d.txSize, x.d.txIdx, x.d.respSize, x.d.respIdx, put, a, b, z)
      BY <3>1, <1>2, <1>3, <1>4, <1>5, <1>6, <1>7, Counts
    <3> QED BY <3>2 DEF Reached
  <2>3. Holds(sa, x, put)
    <3>1. ASSUME NEW i \in 1..a PROVE sa[i] = Reply(x, put + i)
      <4>1. a > 0 /\ i \in Nat /\ i <= a BY <1>5, SMT
      <4>2. x.d.txIdx = put /\ put + i <= x.d.txSize BY <4>1, <2>2, <1>2, <1>4, <1>5, SMT
      <4> QED BY <4>2, <1>9 DEF Reply
    <3> QED BY <3>1, <1>8 DEF Holds
  <2>4. Holds(sb, x, put + a)
    <3>1. ASSUME NEW i \in 1..b PROVE sb[i] = Reply(x, put + a + i)
      <4>1. b > 0 /\ i \in Nat /\ i <= b /\ i >= 1 BY <1>6, SMT
      <4>2. /\ ~(put + a + i <= x.d.txSize) /\ put + a + i <= x.d.txSize + x.d.respSize
            /\ (put + a + i) - x.d.txSize = x.d.respIdx + i
        BY <4>1, <2>2, <1>2, <1>4, <1>5, <1>6, SMT
      <4>3. Reply(x, put + a + i) = <<"resp", x.d.resp, x.d.respIdx + i>>
        BY <4>2 DEF Reply
      <4> QED BY <4>3, <1>9
    <3> QED BY <3>1, <1>8 DEF Holds
  <2>5. Holds(sz, x, put + a + b)
    <3>1. ASSUME NEW i \in 1..z PROVE sz[i] = Reply(x, put + a + b + i)
      <4>1. z > 0 /\ i \in Nat /\ i <= z /\ i >= 1 BY <1>7, SMT
      <4>2. /\ ~(put + a + b + i <= x.d.txSize)
            /\ ~(put + a + b + i <= x.d.txSize + x.d.respSize)
        BY <4>1, <2>2, <1>2, <1>4, <1>5, <1>6, SMT
      <4> QED BY <4>2, <1>9 DEF Reply
    <3> QED BY <3>1, <1>8 DEF Holds
  <2>6. Holds(t, x, n)
    <3>1. Holds(ta, x, n) BY <2>1, <2>3, <1>2, <1>8, HoldsJoined DEF put
    <3>2. Holds(tb, x, n)
      <4>1. n + Level(ta) = put + a BY <1>2, <1>5, <1>10, SMT DEF put
      <4> HIDE DEF ta
      <4> QED BY <4>1, <3>1, <2>4, <1>8, <1>10, HoldsJoined
    <3>3. n + Level(tb) = put + a + b BY <1>2, <1>5, <1>6, <1>10, SMT DEF put
    <3> HIDE DEF tb
    <3> QED BY <3>2, <3>3, <2>5, <1>8, <1>10, HoldsJoined DEF t
  <2>7. Holds(y.h.tx, y, n) BY <2>6, <1>13, <1>14, Zenon DEF Holds, Reply
  <2>8. n + Level(y.h.tx) = put + a + b + z
    BY <1>2, <1>5, <1>6, <1>7, <1>10, <1>14, SMT DEF put
  <2>9. x.d.cmdDone \/ (b = 0 /\ z = 0)
    <3>1. x.d.respSize = 0 => b = 0 BY <2>2, <1>2, <1>6, SMT
    <3> QED BY <3>1, <1>16, <1>72
  <2>10. y.d.cmdDone \/ n + Level(y.h.tx) <= y.d.txSize
    <3>1. SUFFICES ASSUME ~x.d.cmdDone PROVE put + a + b + z <= x.d.txSize
      BY <1>13, <2>8
    <3>2. b = 0 /\ z = 0 BY <3>1, <2>9
    <3>3. put <= x.d.txSize BY <3>1, <2>0
    <3> QED BY <3>2, <3>3, <2>2, <1>2, <1>4, <1>5, SMT
  <2>11. Indexed(y, n + Level(y.h.tx))
    <3>1. y.d.txIdx = n + Level(y.h.tx)
          \/ (y.d.txIdx >= y.d.txSize /\ n + Level(y.h.tx) >= y.d.txSize)
      BY <2>2, <2>8, <1>13
    <3>2. y.d.respIdx = Least(Less(n + Level(y.h.tx), y.d.txSize), y.d.respSize)
      BY <2>2, <2>8, <1>13
    <3> QED BY <3>1, <3>2, <2>10 DEF Indexed
  <2>12. Full(y, n)
    <3>1. SUFFICES ASSUME Level(y.h.tx) # Depth
                   PROVE  ~x.d.cmdDone /\ n + Level(y.h.tx) >= x.d.txSize
      BY <1>13 DEF Full
    <3>2. a + b + z # room
      BY <3>1, <1>2, <1>3, <1>5, <1>6, <1>7, <1>10, <1>14, SMT
    <3>3. x.d.txIdx + a >= x.d.txSize
      BY <3>2, <1>2, <1>3, <1>5, <1>51, <1>6, <1>61, <1>7, <1>71, SMT DEF Least, Less
    <3>4. x.d.respIdx + b >= x.d.respSize
      BY <3>2, <3>3, <1>2, <1>3, <1>5, <1>6, <1>61, <1>7, <1>71, SMT DEF Least
    <3>5. ~x.d.cmdDone
      <4>1. z # room - a - b BY <3>2, <1>3, <1>5, <1>6, <1>7, SMT
      <4> QED BY <4>1, <3>3, <3>4, <1>73
    <3>6. put + a + b + z >= x.d.txSize
      BY <3>3, <2>0, <2>2, <1>2, <1>4, <1>5, <1>6, <1>7, SMT
    <3> QED BY <3>5, <3>6, <2>8
  <2> QED BY <2>7, <2>11, <2>12 DEF Loaded
<1> QED BY <1>14, <1>15, <1>16 DEF y

\* A step that changes nothing of what the slave says.
SaysTheSame(x, y) ==
  /\ SameSetUp(x, y) /\ SameReply(x, y) /\ SameLoad(x, y)
  /\ y.h.cnt = x.h.cnt /\ y.h.lim = x.h.lim

\* Two steps that keep the set-up keep it together.
LEMMA SameSetUpIsTransitive ==
  ASSUME NEW x, NEW y, NEW z, SameSetUp(x, y), SameSetUp(y, z)
  PROVE  SameSetUp(x, z)
<1>1. z.h.auto \in {x.h.auto, FALSE} BY Zenon DEF SameSetUp
<1> QED BY <1>1, Zenon DEF SameSetUp

\* Reading the receive FIFO changes nothing of it.
LEMMA ReadSays ==
  ASSUME NEW x, SlaveTypes(x)
  PROVE  SaysTheSame(x, ReadSlaveRxFifo(x))
<1> DEFINE y == ReadSlaveRxFifo(x)
<1>0. DOMAIN x = {"d", "h"} /\ DOMAIN x.d = DriverFields /\ DOMAIN x.h = HardwareFields
  BY DEF SlaveTypes, SlaveNumbers
<1>1. CASE x.d.mode = "BLOCK"
  <2>1. y = Stored(x) BY <1>1 DEF ReadSlaveRxFifo
  <2>2. PICK k, rx : y = [d |-> [x.d EXCEPT !.rxIdx = k, !.rx = rx],
                          h |-> [x.h EXCEPT !.rx = <<>>]]
    BY <2>1, <1>0, Zenon DEF Stored
  <2> HIDE DEF y
  <2>3. y.d = [x.d EXCEPT !.rxIdx = k, !.rx = rx] /\ y.h = [x.h EXCEPT !.rx = <<>>]
    BY <2>2
  <2>4. /\ y.d.txSize = x.d.txSize /\ y.d.txIdx = x.d.txIdx /\ y.d.respSize = x.d.respSize
        /\ y.d.respIdx = x.d.respIdx /\ y.d.resp = x.d.resp /\ y.d.cmdDone = x.d.cmdDone
        /\ y.d.txFrame = x.d.txFrame
    BY <1>0, <2>3, Zenon
  <2>5. y.h.tx = x.h.tx /\ y.h.auto = x.h.auto /\ y.h.cnt = x.h.cnt /\ y.h.lim = x.h.lim
    BY <1>0, <2>3, Zenon
  <2>6. SaysTheSame(x, y)
    BY <2>4, <2>5, Zenon DEF SaysTheSame, SameSetUp, SameReply, SameLoad
  <2> QED BY <2>6 DEF y
<1>2. CASE x.d.mode # "BLOCK"
  <2>1. y = [x EXCEPT !.h.rx = <<>>] BY <1>2 DEF ReadSlaveRxFifo
  <2> HIDE DEF y
  <2>2. y.d = x.d /\ y.h = [x.h EXCEPT !.rx = <<>>] BY <2>1, <1>0, Zenon
  <2>3. y.h.tx = x.h.tx /\ y.h.auto = x.h.auto /\ y.h.cnt = x.h.cnt /\ y.h.lim = x.h.lim
    BY <1>0, <2>2, Zenon
  <2>4. SaysTheSame(x, y)
    BY <2>2, <2>3, Zenon DEF SaysTheSame, SameSetUp, SameReply, SameLoad
  <2> QED BY <2>4 DEF y
<1> QED BY <1>1, <1>2

\* Nor does clearing an interrupt.
LEMMA ClearSays ==
  ASSUME NEW x, NEW source, DOMAIN x = {"d", "h"}, DOMAIN x.h = HardwareFields
  PROVE  LET y == Clear(x, source)
         IN SaysTheSame(x, y) /\ y.d = x.d /\ y.h.en = x.h.en /\ y.h.ris = x.h.ris \ {source}
<1> DEFINE y == Clear(x, source)
<1>1. y.d = x.d /\ y.h = [x.h EXCEPT !.ris = @ \ {source}]
  BY Zenon DEF Clear
<1> HIDE DEF y
<1>2. /\ y.h.tx = x.h.tx /\ y.h.auto = x.h.auto /\ y.h.cnt = x.h.cnt /\ y.h.lim = x.h.lim
      /\ y.h.en = x.h.en /\ y.h.ris = x.h.ris \ {source}
  BY <1>1, Zenon
<1>3. SaysTheSame(x, y)
  BY <1>1, <1>2, Zenon DEF SaysTheSame, SameSetUp, SameReply, SameLoad
<1> QED BY <1>1, <1>2, <1>3 DEF y

\* The start of a transaction: nothing sent, nothing loaded.
LEMMA StartsLoaded ==
  ASSUME NEW x, SlaveTypes(x), x.h.tx = <<>>, x.d.txIdx = 0, x.d.respIdx = 0
  PROVE  Loaded(x, 0)
<1>1. Level(x.h.tx) = 0 BY Empty
<1>2. /\ x.d.txSize \in Nat /\ x.d.respSize \in Nat BY Counters
<1>3. Holds(x.h.tx, x, 0) BY <1>1, SMT DEF Holds
<1>4. Least(Less(0, x.d.txSize), x.d.respSize) = 0 BY <1>2, SMT DEF Least, Less
<1>5. 0 + Level(x.h.tx) = 0 /\ 0 <= x.d.txSize BY <1>1, <1>2, SMT
<1>6. Indexed(x, 0) BY <1>4, <1>5, Zenon DEF Indexed
<1> QED BY <1>3, <1>5, <1>6, Zenon DEF Loaded

\* An underrun: the FIFO is emptied and the buffer starts over.
LEMMA RestartSays ==
  ASSUME NEW x, SlaveTypes(x)
  PROVE  LET e == [x EXCEPT !.h.tx = <<>>]
             y == [e EXCEPT !.d.txIdx = 0]
         IN /\ SlaveTypes(e) /\ SlaveTypes(y) /\ SameModes(x, y) /\ SameIrqs(x, y)
            /\ SameSetUp(x, e) /\ e.d = x.d
            /\ SameSetUp(x, y) /\ SameReply(x, y) /\ y.h.tx = <<>> /\ e.h.tx = <<>>
            /\ y.d.txIdx = 0 /\ y.d.respIdx = x.d.respIdx /\ y.h.cnt = x.h.cnt
            /\ SameModes(x, e) /\ SameIrqs(x, e)
<1> DEFINE e == [x EXCEPT !.h.tx = <<>>]
           y == [e EXCEPT !.d.txIdx = 0]
<1>0. DOMAIN x = {"d", "h"} /\ DOMAIN x.d = DriverFields /\ DOMAIN x.h = HardwareFields
  BY DEF SlaveTypes, SlaveNumbers
<1>1. SlaveTypes(e) /\ SameModes(x, e) /\ SameIrqs(x, e) BY EmptiedDoes
<1>2. e.d = x.d /\ e.h = [x.h EXCEPT !.tx = <<>>] /\ DOMAIN e = {"d", "h"} BY <1>0, Zenon
<1> HIDE DEF e
<1>3. SlaveTypes(y) /\ SameModes(e, y) /\ SameIrqs(e, y) BY <1>1, RestartDoes
<1>4. y.h = e.h /\ y.d = [x.d EXCEPT !.txIdx = 0] BY <1>2, Zenon
<1> HIDE DEF y
<1>5. /\ y.d.txSize = x.d.txSize /\ y.d.txIdx = 0 /\ y.d.respSize = x.d.respSize
      /\ y.d.respIdx = x.d.respIdx /\ y.d.resp = x.d.resp /\ y.d.cmdDone = x.d.cmdDone
      /\ y.d.txFrame = x.d.txFrame
  BY <1>0, <1>4, Zenon
<1>6. /\ e.h.tx = <<>> /\ e.h.auto = x.h.auto /\ e.h.cnt = x.h.cnt
  BY <1>0, <1>2, Zenon
<1>7. SameSetUp(x, e) BY <1>2, <1>6, Zenon DEF SameSetUp
<1>8. SameSetUp(x, y) /\ SameReply(x, y)
  BY <1>4, <1>5, <1>6, Zenon DEF SameSetUp, SameReply
<1>9. SameModes(x, y) BY <1>1, <1>3, SameModesIsTransitive
<1>10. SameIrqs(x, y) BY <1>1, <1>3 DEF SameIrqs
<1> QED BY <1>1, <1>2, <1>3, <1>4, <1>5, <1>6, <1>7, <1>8, <1>9, <1>10 DEF y, e

\* The response to a command comes behind the buffer, of which nothing is passed yet.
LEMMA ResponseLoads ==
  ASSUME NEW x, SlaveTypes(x), NEW n \in Nat
  PROVE  LET y == SetCmdResponse(x)
         IN /\ SlaveTypes(y) /\ SameSetUp(x, y) /\ y.h.cnt = x.h.cnt
            /\ y.d.cmdDone = TRUE /\ y.d.respSize = RespSize /\ y.d.resp = x.d.rx[1]
            /\ Loaded(x, n) /\ ~x.d.cmdDone => Loaded(y, n) /\ Full(y, n)
<1> DEFINE u == [x EXCEPT !.d.resp = x.d.rx[1], !.d.respSize = RespSize, !.d.respIdx = 0,
                          !.d.cmdDone = TRUE]
           y == SetCmdResponse(x)
<1>0. DOMAIN x = {"d", "h"} /\ DOMAIN x.d = DriverFields /\ DOMAIN x.h = HardwareFields
  BY DEF SlaveTypes, SlaveNumbers
<1>1. SlaveTypes(y) BY CmdResponseDoes
<1>2. y = Fill(u) BY DEF SetCmdResponse
<1>3. DOMAIN u = {"d", "h"} /\ u.h = x.h
      /\ u.d = [x.d EXCEPT !.resp = x.d.rx[1], !.respSize = RespSize, !.respIdx = 0,
                           !.cmdDone = TRUE]
  BY <1>0, Zenon
<1> HIDE DEF u, y
<1>4. /\ DOMAIN u.d = DriverFields /\ u.d.txSize = x.d.txSize /\ u.d.txIdx = x.d.txIdx
      /\ u.d.respSize = RespSize /\ u.d.respIdx = 0 /\ u.d.resp = x.d.rx[1]
      /\ u.d.mode = x.d.mode /\ u.d.rx = x.d.rx /\ u.d.rxIdx = x.d.rxIdx
      /\ u.d.cmdDone = TRUE /\ u.d.txFrame = x.d.txFrame
      /\ u.d.blockHandler = x.d.blockHandler /\ u.d.cmdHandler = x.d.cmdHandler
      /\ u.d.frameHandler = x.d.frameHandler
  BY <1>0, <1>3, Zenon
<1>5. u.d.respSize \in Nat /\ u.d.respIdx \in Nat /\ u.d.respIdx <= u.d.respSize
  BY <1>4, Sizes, SMT
<1>6. u.d.txIdx \in Nat /\ u.d.rxIdx \in Nat /\ u.d.cmdDone \in BOOLEAN
  BY <1>4 DEF SlaveTypes, SlaveNumbers
<1>7. SlaveTypes(u) BY <1>3, <1>4, <1>5, <1>6, DriverOnly
<1>8. /\ SameSetUp(u, y) /\ SameReply(u, y) /\ y.h.cnt = u.h.cnt
      /\ Loaded(u, n) /\ u.d.cmdDone => Loaded(y, n) /\ Full(y, n)
  BY <1>2, <1>7, FillLoads
<1>9. SameSetUp(x, u) BY <1>3, <1>4, Zenon DEF SameSetUp
<1>10. SameSetUp(x, y) BY <1>8, <1>9, SameSetUpIsTransitive
<1>11. /\ y.h.cnt = x.h.cnt /\ y.d.cmdDone = TRUE /\ y.d.respSize = RespSize
       /\ y.d.resp = x.d.rx[1]
  BY <1>3, <1>4, <1>8 DEF SameReply
<1>12. ASSUME Loaded(x, n), ~x.d.cmdDone
       PROVE  Loaded(y, n) /\ Full(y, n)
  <2> DEFINE put == n + Level(x.h.tx)
  <2>1. /\ Level(x.h.tx) \in Nat /\ x.d.txSize \in Nat BY Counters
  <2>2. /\ x.d.txIdx = put \/ (x.d.txIdx >= x.d.txSize /\ put >= x.d.txSize)
        /\ put <= x.d.txSize /\ Holds(x.h.tx, x, n)
    BY <1>12 DEF Loaded, Indexed
  <2>3. put \in Nat BY <2>1, SMT
  <2>4. ASSUME NEW j \in 1..Level(x.h.tx) PROVE x.h.tx[j] = Reply(u, n + j)
    <3>1. n + j <= x.d.txSize BY <2>1, <2>2, SMT
    <3>2. x.h.tx[j] = Reply(x, n + j) BY <2>2 DEF Holds
    <3> QED BY <3>1, <3>2, <1>4 DEF Reply
  <2>5. Holds(u.h.tx, u, n) BY <2>4, <1>3 DEF Holds
  <2> HIDE DEF put
  <2>6. Least(Less(put, u.d.txSize), u.d.respSize) = 0
    BY <2>1, <2>2, <2>3, <1>4, Sizes, SMT DEF Least, Less
  <2>7. Indexed(u, put) BY <2>2, <2>6, <1>4, Zenon DEF Indexed
  <2>8. Loaded(u, n) BY <2>5, <2>7, <1>3 DEF Loaded, put
  <2> QED BY <2>8, <1>4, <1>8
<1> QED BY <1>1, <1>10, <1>11, <1>12 DEF y

\* The response is forgotten, and the next command expected.
LEMMA ForgetsDoes ==
  ASSUME NEW x, SlaveTypes(x)
  PROVE  LET u == [x EXCEPT !.d.cmdDone = FALSE, !.d.respSize = 0, !.d.respIdx = 0,
                            !.h.ris = @ \ {"CMD"}, !.h.en = @ \union {"CMD"}]
         IN /\ SlaveTypes(u) /\ SameModes(x, u) /\ SameSetUp(x, u)
            /\ u.d.rx = x.d.rx /\ u.d.rxIdx = x.d.rxIdx /\ u.h.rx = x.h.rx
            /\ u.d.respSize = 0 /\ u.d.respIdx = 0 /\ u.d.cmdDone = FALSE
            /\ u.h.en = x.h.en \union {"CMD"} /\ u.h.ris = x.h.ris \ {"CMD"}
<1> DEFINE u == [x EXCEPT !.d.cmdDone = FALSE, !.d.respSize = 0, !.d.respIdx = 0,
                          !.h.ris = @ \ {"CMD"}, !.h.en = @ \union {"CMD"}]
<1>0. DOMAIN x = {"d", "h"} /\ DOMAIN x.d = DriverFields /\ DOMAIN x.h = HardwareFields
  BY DEF SlaveTypes, SlaveNumbers
<1>1. /\ DOMAIN u = {"d", "h"}
      /\ u.d = [x.d EXCEPT !.cmdDone = FALSE, !.respSize = 0, !.respIdx = 0]
      /\ u.h = [x.h EXCEPT !.ris = @ \ {"CMD"}, !.en = @ \union {"CMD"}]
  BY <1>0, Zenon
<1> HIDE DEF u
<1>2. /\ DOMAIN u.d = DriverFields /\ u.d.txSize = x.d.txSize /\ u.d.txIdx = x.d.txIdx
      /\ u.d.respSize = 0 /\ u.d.respIdx = 0
      /\ u.d.mode = x.d.mode /\ u.d.rx = x.d.rx /\ u.d.rxIdx = x.d.rxIdx
      /\ u.d.cmdDone = FALSE
      /\ u.d.blockHandler = x.d.blockHandler /\ u.d.cmdHandler = x.d.cmdHandler
      /\ u.d.frameHandler = x.d.frameHandler
  BY <1>0, <1>1, Zenon
<1>3. u.d.txFrame = x.d.txFrame BY <1>0, <1>1, Zenon
<1>4. /\ DOMAIN u.h = HardwareFields /\ u.h.tx = x.h.tx /\ u.h.rx = x.h.rx
      /\ u.h.ris = x.h.ris \ {"CMD"} /\ u.h.en = x.h.en \union {"CMD"}
      /\ u.h.cnt = x.h.cnt /\ u.h.lim = x.h.lim
  BY <1>0, <1>1, Zenon
<1>5. u.h.auto = x.h.auto BY <1>0, <1>1, Zenon
<1>6. u.h.ris \subseteq ToSet(Sources) /\ u.h.en \subseteq ToSet(Sources)
  <2>1. "CMD" \in ToSet(Sources) BY SMT DEF Sources, ToSet
  <2> QED BY <1>4, <2>1 DEF SlaveTypes, SlaveNumbers
<1>7. SlaveNumbers(u)
  <2>1. u.d.respSize \in Nat /\ u.d.respIdx \in Nat /\ u.d.respIdx <= u.d.respSize
    BY <1>2, SMT
  <2> QED BY <1>1, <1>2, <1>4, <1>6, <2>1 DEF SlaveTypes, SlaveNumbers
<1>8. SlaveFlags(u) BY <1>2, Zenon DEF SlaveTypes, SlaveFlags
<1>9. SameModes(x, u) BY <1>2, <1>4, Zenon DEF SameModes
<1>10. SameSetUp(x, u) BY <1>2, <1>3, <1>5, Zenon DEF SameSetUp
<1> QED BY <1>2, <1>4, <1>7, <1>8, <1>9, <1>10 DEF SlaveTypes, u

\* The end of the transaction: the slave is ready for the next.
LEMMA RewoundLoads ==
  ASSUME NEW x, SlaveTypes(x), d.cmdHandler \/ (x.d.cmdDone /\ x.d.respSize = 0)
  PROVE  LET y == Rewound(x)
         IN /\ SameSetUp(x, y) /\ Loaded(y, 0) /\ Full(y, 0)
            /\ y.d.respSize = 0
            /\ y.d.cmdDone = IF d.cmdHandler THEN FALSE ELSE x.d.cmdDone
            /\ y.h.en = IF d.cmdHandler THEN x.h.en \union {"CMD"} ELSE x.h.en
            /\ y.h.ris = IF d.cmdHandler THEN x.h.ris \ {"CMD"} ELSE x.h.ris
<1>0. DOMAIN x = {"d", "h"} /\ DOMAIN x.d = DriverFields /\ DOMAIN x.h = HardwareFields
  BY DEF SlaveTypes, SlaveNumbers
<1> DEFINE u == [x EXCEPT !.d.cmdDone = FALSE, !.d.respSize = 0, !.d.respIdx = 0,
                          !.h.ris = @ \ {"CMD"}, !.h.en = @ \union {"CMD"}]
           v == IF d.cmdHandler THEN u ELSE x
           w == [v EXCEPT !.d.txIdx = 0]
           f == Flushed(w)
           y == Fill(f)
<1>1. Rewound(x) = y BY Zenon DEF Rewound
<1>2. /\ SlaveTypes(u) /\ SameSetUp(x, u) /\ u.d.respSize = 0 /\ u.d.respIdx = 0
      /\ u.d.cmdDone = FALSE /\ u.h.en = x.h.en \union {"CMD"} /\ u.h.ris = x.h.ris \ {"CMD"}
  BY ForgetsDoes
<1> HIDE DEF u
<1>3. /\ SlaveTypes(v) /\ SameSetUp(x, v) /\ v.d.respSize = 0 /\ v.d.respIdx = 0
      /\ v.d.cmdDone = IF d.cmdHandler THEN FALSE ELSE x.d.cmdDone
      /\ v.h.en = IF d.cmdHandler THEN x.h.en \union {"CMD"} ELSE x.h.en
      /\ v.h.ris = IF d.cmdHandler THEN x.h.ris \ {"CMD"} ELSE x.h.ris
  <2>1. CASE d.cmdHandler
    <3>1. v = u BY <2>1
    <3> QED BY <3>1, <1>2, <2>1
  <2>2. CASE ~d.cmdHandler
    <3>1. v = x BY <2>2
    <3>2. SameSetUp(x, x) BY Zenon DEF SameSetUp
    <3>3. x.d.respIdx = 0
      <4>1. x.d.respSize \in Nat /\ x.d.respIdx \in Nat /\ x.d.respIdx <= x.d.respSize
        BY Counters
      <4> QED BY <4>1, <2>2, SMT
    <3> QED BY <3>1, <3>2, <3>3, <2>2
  <2> QED BY <2>1, <2>2
<1> HIDE DEF v
<1>4. DOMAIN v = {"d", "h"} /\ DOMAIN v.d = DriverFields /\ DOMAIN v.h = HardwareFields
  BY <1>3 DEF SlaveTypes, SlaveNumbers
<1>5. /\ SlaveTypes(w) /\ w.h = v.h BY <1>3, RestartDoes
<1>51. w.d = [v.d EXCEPT !.txIdx = 0] BY <1>4, Zenon
<1>52. DOMAIN w = {"d", "h"} BY <1>5 DEF SlaveTypes, SlaveNumbers
<1> HIDE DEF w
<1>6. SlaveTypes(f) /\ f.d = w.d /\ f.h.tx = <<>> /\ SameIrqs(w, f) BY <1>5, FlushedDoes
<1>61. f.h = [w.h EXCEPT !.tx = <<>>, !.rx = <<>>] BY <1>52, Zenon DEF Flushed
<1> HIDE DEF f
<1>7. /\ f.d.txIdx = 0 /\ f.d.respIdx = 0 /\ f.d.respSize = 0 /\ f.d.cmdDone = v.d.cmdDone
      /\ f.d.txSize = v.d.txSize /\ f.d.txFrame = v.d.txFrame
  BY <1>3, <1>4, <1>51, <1>6, Zenon
<1>8. f.h.auto = v.h.auto BY <1>4, <1>5, <1>61, Zenon
<1>9. SameSetUp(v, f) BY <1>7, <1>8, Zenon DEF SameSetUp
<1>10. Loaded(f, 0) BY <1>6, <1>7, StartsLoaded
<1>11. /\ SameSetUp(f, y) /\ SameReply(f, y) /\ Loaded(y, 0) /\ Full(y, 0)
       /\ SameIrqs(f, y)
  <2>1. 0 \in Nat BY SMT
  <2> QED BY <2>1, <1>6, <1>7, <1>10, FillLoads, FillDoes
<1> HIDE DEF y
<1>12. SameSetUp(x, y) BY <1>3, <1>9, <1>11, SameSetUpIsTransitive
<1>13. y.d.respSize = 0 /\ y.d.cmdDone = v.d.cmdDone BY <1>7, <1>11 DEF SameReply
<1>14. y.h.en = v.h.en /\ y.h.ris = v.h.ris BY <1>5, <1>6, <1>11 DEF SameIrqs
<1> QED BY <1>1, <1>3, <1>11, <1>12, <1>13, <1>14

---------------------------------------------------------------------------
(* The steps of the handler.                                               *)

\* A step of the handler, of which the log keeps what ReadIsRight is about.
LogStays == log'.sent = log.sent /\ log'.fault = log.fault /\ log'.with = log.with
BecomesOf(y) == d' = y.d /\ h' = y.h

\* What the proof about the answers uses of the types.
LEMMA WithinPacket ==
  ASSUME PacketInv
  PROVE  /\ SlaveSide /\ SlaveTypes(Here) /\ Here.d = d /\ Here.h = h /\ Modes
         /\ d.mode \in {"NONE", "BLOCK", "FRAME"}
         /\ bus.n \in Nat /\ At \in Nat /\ Sequential(log.sent)
         /\ d.mode # "FRAME" => Level(log.sent) = bus.n
         /\ h.cnt \in Nat /\ h.lim \in Nat /\ Threshold > 0 /\ Threshold \in Nat
         /\ Threshold <= Depth
         /\ DOMAIN log = {"sent", "got", "missed", "fault", "with"}
         /\ DOMAIN bus = {"sel", "n", "t"}
<1>1. WireInv /\ Sent BY DEF PacketInv
<1>2. SlaveSide BY <1>1 DEF WireInv
<1>3. SlaveTypes(Here) /\ Here.d = d /\ Here.h = h BY <1>2, HereIs
<1>4. /\ bus.n \in Nat /\ Modes /\ Sequential(log.sent)
      /\ d.mode # "FRAME" => Level(log.sent) = bus.n
      /\ DOMAIN log = {"sent", "got", "missed", "fault", "with"}
      /\ DOMAIN bus = {"sel", "n", "t"}
  BY <1>1, WithinWire
<1>5. d.mode \in {"NONE", "BLOCK", "FRAME"} BY <1>1, ModesAre
<1>6. At \in Nat BY <1>4, SMT DEF At
<1> HIDE DEF Here
<1>7. h.cnt \in Nat /\ h.lim \in Nat BY <1>3 DEF SlaveTypes, SlaveNumbers
<1>8. Threshold > 0 /\ Threshold \in Nat /\ Threshold <= Depth
  BY Sizes, SpiAssumption, SMT DEF Threshold
<1> QED BY <1>2, <1>3, <1>4, <1>5, <1>6, <1>7, <1>8

\* A step of the handler that keeps the response and the interrupts that are enabled.
LEMMA PreparedStays ==
  ASSUME PacketInv, Prepared, NEW y, BecomesOf(y), SameModes(Here, y), SameSetUp(Here, y),
         SameReply(Here, y), y.h.en = h.en
  PROVE  Prepared'
<1>1. Here.d = d /\ Here.h = h /\ h.cnt \in Nat /\ Threshold > 0 BY WithinPacket
<1> HIDE DEF Here
<1>2. /\ d'.mode = d.mode /\ d'.cmdHandler = d.cmdHandler /\ d'.txSize = d.txSize
      /\ d'.txFrame = d.txFrame /\ d'.respSize = d.respSize /\ d'.cmdDone = d.cmdDone
      /\ h'.lim = h.lim /\ h'.cnt \in {h.cnt, 0} /\ h'.en = h.en
      /\ h'.auto \in {h.auto, FALSE}
  BY <1>1, Zenon DEF BecomesOf, SameModes, SameSetUp, SameReply
<1>3. d.mode = "BLOCK" => h'.cnt < h'.lim
  <2>1. SUFFICES ASSUME d.mode = "BLOCK" PROVE h'.cnt < h.lim
    BY <1>2
  <2>2. h.lim = Threshold /\ h.cnt < h.lim BY <2>1 DEF Prepared
  <2>3. h'.cnt = h.cnt \/ h'.cnt = 0 BY <1>2
  <2>4. 0 < h.lim BY <2>2, <1>1, SMT
  <2> QED BY <2>2, <2>3, <2>4
<1>4. ~h.auto => ~h'.auto BY <1>2, Zenon
<1> QED BY <1>2, <1>3, <1>4, Zenon DEF Prepared

\* The set-up that the transaction started with is the set-up of the slave.
LEMMA AsSetUpStays ==
  ASSUME PacketInv, AsSetUp, NEW y, BecomesOf(y), SameModes(Here, y), SameSetUp(Here, y),
         UNCHANGED bus, LogStays
  PROVE  AsSetUp'
<1>1. Here.d = d BY WithinPacket
<1> HIDE DEF Here
<1>2. /\ d'.cmdHandler = d.cmdHandler /\ d'.txSize = d.txSize /\ d'.txFrame = d.txFrame
  BY <1>1, Zenon DEF BecomesOf, SameModes, SameSetUp
<1> QED BY <1>2, Zenon DEF AsSetUp, LogStays

\* A loaded record is loaded as the state.
LEMMA LoadedHere ==
  ASSUME NEW y, NEW n, BecomesOf(y), Loaded(y, n)
  PROVE  Loaded(Here, n)'
<1>1. Here'.d = y.d /\ Here'.h = y.h BY DEF Here, BecomesOf
<1> HIDE DEF Here
<1>2. Loaded(Here', n)
  <2>1. SameReply(y, Here') /\ SameLoad(y, Here')
    BY <1>1, Zenon DEF SameReply, SameLoad
  <2> QED BY <2>1, StillLoaded
<1> QED BY <1>2 DEF Loaded, Holds, Indexed, Reply

\* A step that keeps what the slave says, and the interrupts about it.
LEMMA AnswersStay ==
  ASSUME PacketInv, Answers, NEW y, BecomesOf(y), SameModes(Here, y), SaysTheSame(Here, y),
         UNCHANGED bus, LogStays, y.h.ris \subseteq h.ris,
         \A s \in {"TXDONE", "CMD", "SSEND"} : s \in h.ris => s \in y.h.ris,
         ~Clearing("SSEND")'
  PROVE  Answers'
<1>1. Here.d = d /\ Here.h = h BY WithinPacket
<1>2. Here'.d = y.d /\ Here'.h = y.h BY DEF Here, BecomesOf
<1>3. d' = y.d /\ h' = y.h BY DEF BecomesOf
<1> HIDE DEF Here
<1>4. At' = At BY DEF At
<1>5. /\ d'.mode = d.mode /\ d'.cmdHandler = d.cmdHandler /\ d'.txSize = d.txSize
      /\ d'.resp = d.resp /\ d'.cmdDone = d.cmdDone
      /\ h'.lim = h.lim /\ h'.cnt = h.cnt /\ h'.tx = h.tx
  BY <1>1, <1>3, Zenon DEF SameModes, SaysTheSame, SameSetUp, SameReply, SameLoad
<1>6. \A s \in {"TXDONE", "CMD", "SSEND"} : s \in h.ris <=> s \in h'.ris BY <1>3
<1>7. Answering' => Answering BY <1>5, <1>6, Zenon DEF Answering, Over, LogStays
<1>8. SUFFICES ASSUME Answering
               PROVE  /\ Loaded(Here, At)' /\ Fed(Here, At)' /\ Commanded(Here, At)'
                      /\ bus'.sel => "TXURUN" \notin h'.ris
                      /\ d'.cmdHandler /\ d'.cmdDone => d'.resp = log'.sent[1]
  BY <1>7 DEF Answers
<1>9. /\ Loaded(Here, At) /\ Fed(Here, At) /\ Commanded(Here, At)
      /\ bus.sel => "TXURUN" \notin h.ris
      /\ d.cmdHandler /\ d.cmdDone => d.resp = log.sent[1]
  BY <1>8 DEF Answers
<1>10. Loaded(Here, At)'
  <2>1. Loaded(y, At) BY <1>9, StillLoaded DEF SaysTheSame
  <2>2. PICK n : n = At OBVIOUS
  <2>3. Loaded(Here, n)' BY <2>1, <2>2, LoadedHere
  <2> QED BY <2>2, <2>3, <1>4 DEF Loaded, Holds, Indexed, Reply
<1>11. Fed(Here, At)'
  BY <1>1, <1>2, <1>3, <1>4, <1>5, <1>6, <1>9, Zenon DEF Fed
<1>12. Commanded(Here, At)'
  BY <1>1, <1>2, <1>3, <1>4, <1>5, <1>6, <1>9, Zenon DEF Commanded
<1>13. bus'.sel => "TXURUN" \notin h'.ris BY <1>3, <1>9
<1>14. d'.cmdHandler /\ d'.cmdDone => d'.resp = log'.sent[1]
  BY <1>5, <1>9, Zenon DEF LogStays
<1> QED BY <1>10, <1>11, <1>12, <1>13, <1>14

\* The same for the frame of frame mode.
LEMMA FrameStays ==
  ASSUME PacketInv, FrameReady, NEW y, BecomesOf(y), SameModes(Here, y),
         SameSetUp(Here, y), y.h.tx = h.tx, LogStays, y.h.ris \subseteq h.ris,
         "TXDONE" \in h.ris => "TXDONE" \in y.h.ris,
         ~Clearing("TXDONE"), ~Clearing("TXDONE")'
  PROVE  FrameReady'
<1>1. Here.d = d /\ Here.h = h BY WithinPacket
<1> HIDE DEF Here
<1>2. d'.mode = d.mode /\ d'.txFrame = d.txFrame /\ h'.tx = h.tx
  BY <1>1, Zenon DEF BecomesOf, SameModes, SameSetUp
<1>3. "TXDONE" \in h.ris <=> "TXDONE" \in h'.ris BY DEF BecomesOf
<1>4. "TXURUN" \notin h.ris => "TXURUN" \notin h'.ris BY DEF BecomesOf
<1>5. Owed' = Owed BY <1>3, Zenon DEF Owed
<1> QED BY <1>2, <1>4, <1>5, Zenon DEF FrameReady, LogStays

\* When the FIFO has been filled it does not run empty before the next interrupt.
LEMMA FullIsFed ==
  ASSUME NEW y, SlaveTypes(y), y.h.lim = Threshold, NEW n, Full(y, n)
  PROVE  Fed(y, n)
<1>1. y.h.cnt \in Nat BY DEF SlaveTypes, SlaveNumbers
<1>2. Threshold \in Nat /\ Threshold <= Depth BY Sizes, SpiAssumption, SMT DEF Threshold
<1>3. CASE Level(y.h.tx) = Depth
  <2>1. Level(y.h.tx) + y.h.cnt >= y.h.lim BY <1>1, <1>2, <1>3, Sizes, SMT
  <2> QED BY <2>1 DEF Fed
<1>4. CASE ~y.d.cmdDone /\ n + Level(y.h.tx) >= y.d.txSize
  BY <1>4, Zenon DEF Fed
<1> QED BY <1>3, <1>4 DEF Full

\* The answers of the state are those of the record that it becomes.
LEMMA AnswersOf ==
  ASSUME NEW y, BecomesOf(y), NEW n, n = At', Loaded(y, n), Fed(y, n), Commanded(y, n),
         bus'.sel => "TXURUN" \notin y.h.ris,
         y.d.cmdHandler /\ y.d.cmdDone => y.d.resp = log'.sent[1]
  PROVE  Answers'
<1>1. Here'.d = y.d /\ Here'.h = y.h /\ d' = y.d /\ h' = y.h BY DEF Here, BecomesOf
<1> HIDE DEF Here
<1>2. Loaded(Here, n)' BY LoadedHere
<1>3. Loaded(Here, At)' BY <1>2, Zenon DEF Loaded, Holds, Indexed, Reply
<1>4. Fed(Here, At)' BY <1>1, Zenon DEF Fed
<1>5. Commanded(Here, At)' BY <1>1, Zenon DEF Commanded
<1> QED BY <1>1, <1>3, <1>4, <1>5, Zenon DEF Answers

\* A FIFO that has been filled, and then kept.
LEMMA AnswersAgain ==
  ASSUME Prepared, d.mode = "BLOCK", NEW x, SlaveTypes(x), x.h.lim = h.lim,
         NEW y, BecomesOf(y), SlaveTypes(y), SaysTheSame(x, y),
         NEW n, n = At', Loaded(x, n), Full(x, n), Commanded(y, n),
         bus'.sel => "TXURUN" \notin y.h.ris,
         y.d.cmdHandler /\ y.d.cmdDone => y.d.resp = log'.sent[1]
  PROVE  Answers'
<1>1. SameReply(x, y) /\ SameLoad(x, y) /\ y.h.lim = x.h.lim BY DEF SaysTheSame
<1>2. Loaded(y, n) BY <1>1, StillLoaded
<1>3. Full(y, n) BY <1>1, Zenon DEF Full, SameReply, SameLoad
<1>4. y.h.lim = Threshold BY <1>1, Zenon DEF Prepared
<1>5. Fed(y, n) BY <1>3, <1>4, FullIsFed
<1> QED BY <1>2, <1>5, AnswersOf

\* The set-up after the command, or the end of the packet, has been served.
LEMMA PreparedMoves ==
  ASSUME PacketInv, Prepared, d.mode = "BLOCK", NEW y, BecomesOf(y), SameModes(Here, y),
         SameSetUp(Here, y), y.h.en \union {"CMD"} = h.en \union {"CMD"},
         "CMD" \in y.h.en <=> ~y.d.cmdDone, ~d.cmdHandler => y.d.cmdDone,
         y.d.respSize = IF d.cmdHandler /\ y.d.cmdDone THEN RespSize ELSE 0
  PROVE  Prepared'
<1>1. Here.d = d /\ Here.h = h /\ h.cnt \in Nat /\ Threshold > 0 BY WithinPacket
<1> HIDE DEF Here
<1>2. /\ d'.mode = d.mode /\ d'.cmdHandler = d.cmdHandler /\ d'.txSize = d.txSize
      /\ d'.txFrame = d.txFrame /\ d'.respSize = y.d.respSize /\ d'.cmdDone = y.d.cmdDone
      /\ h'.lim = h.lim /\ h'.cnt \in {h.cnt, 0} /\ h'.en = y.h.en
      /\ h'.auto \in {h.auto, FALSE}
  BY <1>1, Zenon DEF BecomesOf, SameModes, SameSetUp
<1>3. h'.cnt < h'.lim
  <2>1. h.lim = Threshold /\ h.cnt < h.lim BY DEF Prepared
  <2>2. h'.cnt = h.cnt \/ h'.cnt = 0 BY <1>2
  <2>3. 0 < h.lim BY <2>1, <1>1, SMT
  <2> QED BY <1>2, <2>1, <2>2, <2>3
<1>4. ~h.auto => ~h'.auto BY <1>2, Zenon
<1>5. "TXDONE" \in h.en => "TXDONE" \in h'.en BY <1>2
<1>6. d'.mode = "BLOCK" => /\ h'.lim = Threshold /\ h'.cnt < h'.lim /\ d'.txSize \in TxSizes
                           /\ d'.txSize > 0 => ~h'.auto /\ "TXDONE" \in h'.en
                           /\ d'.cmdHandler => d'.txSize > CmdSize
  BY <1>2, <1>3, <1>4, <1>5, Zenon DEF Prepared
<1>7. d'.txFrame = Zero BY <1>2, Zenon DEF Prepared
<1>8. /\ "CMD" \in h'.en <=> ~d'.cmdDone
      /\ ~d'.cmdHandler => d'.cmdDone
      /\ ~d'.cmdHandler \/ ~d'.cmdDone => d'.respSize = 0
      /\ d'.cmdHandler /\ d'.cmdDone => d'.respSize = RespSize
  BY <1>2, Zenon
<1>9. d'.mode # "FRAME" /\ d'.mode # "NONE" BY <1>2
<1> QED BY <1>6, <1>7, <1>8, <1>9, Zenon DEF Prepared

\* Two steps that keep the response keep it together.
LEMMA SameReplyIsTransitive ==
  ASSUME NEW x, NEW y, NEW z, SameReply(x, y), SameReply(y, z)
  PROVE  SameReply(x, z)
BY Zenon DEF SameReply

\* A step that says the same keeps the set-up, the response and the FIFO.
LEMMA SaysSame ==
  ASSUME NEW x, NEW y, SaysTheSame(x, y)
  PROVE  SameSetUp(x, y) /\ SameReply(x, y) /\ SameLoad(x, y) /\ y.h.lim = x.h.lim
         /\ y.h.cnt = x.h.cnt
BY Zenon DEF SaysTheSame

\* What is pending when the handler serves it, and in which mode.
LEMMA ServedIn ==
  ASSUME PacketInv, NEW s, s \in Pending
  PROVE  /\ s \in h.ris /\ s \in h.en /\ d.mode \in {"BLOCK", "FRAME"}
         /\ s \in {"CMD", "SSEND"} => d.mode = "BLOCK"
<1>1. s \in h.ris /\ s \in h.en BY DEF Pending
<1>2. d.mode \in {"NONE", "BLOCK", "FRAME"} /\ Modes BY WithinPacket
<1>3. d.mode # "NONE" BY <1>1, <1>2 DEF Modes
<1>4. d.mode = "FRAME" => "CMD" \notin h.en /\ "SSEND" \notin h.en BY <1>2 DEF Modes
<1> QED BY <1>1, <1>2, <1>3, <1>4

\* The handler does not change the mode.
LEMMA ModeStays ==
  ASSUME PacketInv, NEW y, BecomesOf(y), SameModes(Here, y)
  PROVE  d'.mode = d.mode
<1>1. Here.d = d BY WithinPacket
<1> QED BY <1>1 DEF BecomesOf, SameModes

\* The receive part of the handler.
LEMMA RxDoneSpeaks ==
  ASSUME PacketInv, Spoken, RxDone, UNCHANGED bus,
         ~Clearing("TXDONE"), ~Clearing("TXDONE")', ~Clearing("SSEND")'
  PROVE  Spoken' /\ d'.mode = d.mode /\ LogStays
<1>0. Prepared /\ Answers /\ FrameReady /\ AsSetUp BY DEF Spoken
<1>1. /\ SlaveTypes(Here) /\ Here.d = d /\ Here.h = h
      /\ DOMAIN log = {"sent", "got", "missed", "fault", "with"}
  BY WithinPacket
<1> DEFINE x == ReadSlaveRxFifo(Here)
<1>2. BecomesOf(x) /\ log' = [log EXCEPT !.got = @ \o FramesGiven, !.missed = FALSE]
  BY DEF RxDone, Become, BecomesOf
<1>3. LogStays BY <1>1, <1>2, Zenon DEF LogStays
<1>4. SlaveTypes(x) /\ SameModes(Here, x) /\ SameIrqs(Here, x) BY <1>1, ReadDoes
<1>5. SaysTheSame(Here, x) BY <1>1, ReadSays
<1> HIDE DEF Here, x
<1>6. SameSetUp(Here, x) /\ SameReply(Here, x) /\ SameLoad(Here, x) BY <1>5, SaysSame
<1>7. x.h.en = h.en /\ x.h.ris = h.ris /\ x.h.tx = h.tx
  BY <1>1, <1>4, <1>6 DEF SameIrqs, SameLoad
<1>8. Prepared' BY <1>0, <1>2, <1>4, <1>6, <1>7, PreparedStays
<1>9. Answers' BY <1>0, <1>2, <1>3, <1>4, <1>5, <1>7, AnswersStay
<1>10. FrameReady' BY <1>0, <1>2, <1>3, <1>4, <1>6, <1>7, FrameStays
<1>11. AsSetUp' BY <1>0, <1>2, <1>3, <1>4, <1>6, AsSetUpStays
<1>12. d'.mode = d.mode BY <1>2, <1>4, ModeStays
<1> QED BY <1>12, <1>8, <1>9, <1>10, <1>11, <1>3 DEF Spoken

\* The frame of frame mode is loaded when it is not there.
LEMMA LoadSays ==
  ASSUME NEW x, SlaveTypes(x)
  PROVE  LET y == LoadFrame(x)
         IN SameSetUp(x, y) /\ SameReply(x, y) /\ y.h.tx = Append(x.h.tx, x.d.txFrame)
<1> DEFINE y == LoadFrame(x)
<1>1. DOMAIN x = {"d", "h"} /\ DOMAIN x.h = HardwareFields BY DEF SlaveTypes, SlaveNumbers
<1>2. y.d = x.d /\ y.h = [x.h EXCEPT !.tx = Append(@, x.d.txFrame)]
  BY <1>1, Zenon DEF LoadFrame
<1> HIDE DEF y
<1>3. y.h.tx = Append(x.h.tx, x.d.txFrame) /\ y.h.auto = x.h.auto BY <1>1, <1>2, Zenon
<1>4. SameSetUp(x, y) /\ SameReply(x, y) BY <1>2, <1>3, Zenon DEF SameSetUp, SameReply
<1> QED BY <1>3, <1>4 DEF y

\* What does not change says the same.
LEMMA SaysItself ==
  ASSUME NEW x
  PROVE  SaysTheSame(x, x)
<1>1. SameSetUp(x, x) BY Zenon DEF SameSetUp
<1>2. SameReply(x, x) /\ SameLoad(x, x) BY Zenon DEF SameReply, SameLoad
<1> QED BY <1>1, <1>2, Zenon DEF SaysTheSame

\* A transaction that went on with the buffer, in block mode.
LEMMA StillAnswers ==
  ASSUME Answers, Answering', d.mode = "BLOCK", d'.txSize = d.txSize, UNCHANGED bus,
         log'.fault = log.fault, "SSEND" \in h.ris => "SSEND" \in h'.ris,
         ~Clearing("SSEND")'
  PROVE  /\ Answering /\ Loaded(Here, At) /\ Fed(Here, At) /\ Commanded(Here, At)
         /\ At' = At /\ (bus.sel => "TXURUN" \notin h.ris)
         /\ d.cmdHandler /\ d.cmdDone => d.resp = log.sent[1]
<1>1. Answering BY Zenon DEF Answering, Over
<1>2. At' = At BY DEF At
<1> QED BY <1>1, <1>2, Zenon DEF Answers

\* The transmit part of the handler, in block mode: the FIFO is full again.
LEMMA TxDoneFills ==
  ASSUME PacketInv, Spoken, TxDoneIrq, d.mode = "BLOCK", UNCHANGED bus, ~Clearing("SSEND")'
  PROVE  Spoken' /\ (Answering' => ~Starved') /\ d'.mode = d.mode /\ LogStays
<1>0. Prepared /\ Answers /\ FrameReady /\ AsSetUp BY DEF Spoken
<1>1. /\ SlaveTypes(Here) /\ Here.d = d /\ Here.h = h /\ At \in Nat
      /\ Threshold \in Nat /\ Threshold <= Depth
  BY WithinPacket
<1> DEFINE x == Fill(Here)
<1>2. BecomesOf(x) /\ LogStays
  BY Zenon DEF TxDoneIrq, Become, BecomesOf, LogStays
<1>3. SlaveTypes(x) /\ SameModes(Here, x) /\ SameIrqs(Here, x) BY <1>1, FillDoes
<1>4. /\ SameSetUp(Here, x) /\ SameReply(Here, x)
      /\ Loaded(Here, At) /\ (d.cmdDone \/ d.respSize = 0) => Loaded(x, At) /\ Full(x, At)
  BY <1>1, FillLoads
<1> HIDE DEF Here, x
<1>9. x.h.en = h.en /\ x.h.ris = h.ris BY <1>1, <1>3 DEF SameIrqs
<1>10. Prepared' BY <1>0, <1>2, <1>3, <1>4, <1>9, PreparedStays
<1>11. AsSetUp' BY <1>0, <1>2, <1>3, <1>4, AsSetUpStays
<1>12. /\ d' = x.d /\ h' = x.h /\ x.d.mode = d.mode /\ x.d.txSize = d.txSize
       /\ x.d.cmdHandler = d.cmdHandler /\ x.d.cmdDone = d.cmdDone /\ x.d.resp = d.resp
  BY <1>1, <1>2, <1>3, <1>4, Zenon DEF BecomesOf, SameModes, SameSetUp, SameReply
<1>13. FrameReady' BY <1>12 DEF FrameReady
<1>14. ASSUME Answering' PROVE Answers' /\ ~Starved'
  <2>1. "SSEND" \in h.ris => "SSEND" \in h'.ris BY <1>9, <1>12
  <2>2. /\ Loaded(Here, At) /\ Commanded(Here, At)
        /\ At' = At /\ (bus.sel => "TXURUN" \notin h.ris)
        /\ d.cmdHandler /\ d.cmdDone => d.resp = log.sent[1]
    BY <2>1, <1>0, <1>2, <1>12, <1>14, StillAnswers DEF LogStays
  <2>3. d.cmdDone \/ d.respSize = 0 BY <1>0 DEF Prepared
  <2>4. Loaded(x, At) /\ Full(x, At) BY <2>2, <2>3, <1>4
  <2>5. Commanded(x, At)
    <3>1. "CMD" \in x.h.ris <=> "CMD" \in h.ris BY <1>9
    <3> QED BY <3>1, <2>2, <1>1, <1>12, Zenon DEF Commanded
  <2>6. bus'.sel => "TXURUN" \notin x.h.ris
    <3>1. bus'.sel <=> bus.sel OBVIOUS
    <3> QED BY <3>1, <2>2, <1>9
  <2>7. x.d.cmdHandler /\ x.d.cmdDone => x.d.resp = log'.sent[1]
    BY <2>2, <1>2, <1>12 DEF LogStays
  <2>8. x.h.lim = h.lim BY <1>1, <1>3 DEF SameModes
  <2>9. PICK n : n = At OBVIOUS
  <2>10. n = At' /\ n \in Nat /\ Loaded(x, n) /\ Full(x, n) /\ Commanded(x, n)
    BY <2>2, <2>4, <2>5, <2>9, <1>1, Zenon
  <2>11. SaysTheSame(x, x) BY SaysItself
  <2>12. Answers'
    BY <2>6, <2>7, <2>8, <2>10, <2>11, <1>0, <1>2, <1>3, AnswersAgain
  <2>13. ~Starved'
    <3>1. /\ h'.cnt \in Nat /\ h'.lim = Threshold /\ d'.txIdx \in Nat /\ d'.txSize \in Nat
          /\ Level(h'.tx) \in Nat
      <4>1. x.h.cnt \in Nat BY <1>3 DEF SlaveTypes, SlaveNumbers
      <4>2. h.lim = Threshold BY <1>0, Zenon DEF Prepared
      <4> QED BY <4>1, <4>2, <2>8, <1>3, <1>12, Counters
    <3>2. CASE Level(h'.tx) = Depth
      <4>1. ~(Level(h'.tx) + h'.cnt < h'.lim) BY <3>1, <3>2, <1>1, Sizes, SMT
      <4> QED BY <4>1 DEF Starved, Level
    <3>3. CASE ~d'.cmdDone /\ n + Level(h'.tx) >= d'.txSize
      <4>1. d'.txIdx = n + Level(h'.tx) \/ d'.txIdx >= d'.txSize
        BY <2>10, <1>12 DEF Loaded, Indexed
      <4>2. ~(d'.txIdx < d'.txSize) BY <4>1, <3>1, <3>3, <2>10, SMT
      <4>3. d'.mode # "FRAME" BY <1>12
      <4> QED BY <4>2, <4>3, <3>3 DEF Starved
    <3> QED BY <3>2, <3>3, <2>10, <1>12 DEF Full
  <2> QED BY <2>12, <2>13
<1>15. Answers' BY <1>14 DEF Answers
<1>16. d'.mode = d.mode BY <1>2, <1>3, ModeStays
<1> QED BY <1>16, <1>10, <1>11, <1>13, <1>14, <1>15, <1>2 DEF Spoken

\* The same in frame mode: the frame that was shifted out is loaded again.
LEMMA TxDoneLoads ==
  ASSUME PacketInv, Spoken, TxDoneIrq, d.mode = "FRAME", "TXDONE" \in h.ris, UNCHANGED bus,
         ~Clearing("TXDONE"), Clearing("TXDONE")'
  PROVE  Spoken' /\ d'.mode = d.mode /\ LogStays
<1>0. Prepared /\ Answers /\ FrameReady /\ AsSetUp BY DEF Spoken
<1>1. SlaveTypes(Here) /\ Here.d = d /\ Here.h = h /\ Modes BY WithinPacket
<1> DEFINE x == LoadFrame(Here)
<1>2. BecomesOf(x) /\ LogStays
  BY Zenon DEF TxDoneIrq, Become, BecomesOf, LogStays
<1>21. Sequential(h.tx) /\ Level(h.tx) \in Nat BY <1>1, Counters
<1>22. Owed = 1 BY DEF Owed
<1>23. Level(h.tx) <= 1 BY <1>1, <1>21, <1>22, SMT DEF Modes
<1>24. Level(Here.h.tx) < Depth BY <1>1, <1>21, <1>23, Sizes, SMT
<1>3. SlaveTypes(x) /\ SameModes(Here, x) /\ SameIrqs(Here, x) BY <1>1, <1>24, LoadDoes
<1>4. SameSetUp(Here, x) /\ SameReply(Here, x) /\ x.h.tx = Append(h.tx, d.txFrame)
  BY <1>1, LoadSays
<1> HIDE DEF Here, x
<1>9. x.h.en = h.en /\ x.h.ris = h.ris BY <1>1, <1>3 DEF SameIrqs
<1>10. Prepared' BY <1>0, <1>2, <1>3, <1>4, <1>9, PreparedStays
<1>11. AsSetUp' BY <1>0, <1>2, <1>3, <1>4, AsSetUpStays
<1>12. d' = x.d /\ h' = x.h /\ x.d.mode = d.mode /\ x.d.txFrame = d.txFrame
  BY <1>1, <1>2, <1>3, <1>4, Zenon DEF BecomesOf, SameModes, SameSetUp
<1>13. FrameReady'
  <2>1. SUFFICES ASSUME d'.txFrame # Zero, ~log'.fault
                 PROVE  /\ (Level(h.tx) + Owed = 1)' /\ "TXURUN" \notin h'.ris
                        /\ \A j \in 1..Level(h'.tx) : h'.tx[j] = d'.txFrame
    BY DEF FrameReady
  <2>2. Level(h.tx) + Owed = 1 /\ "TXURUN" \notin h.ris
    BY <2>1, <1>0, <1>2, <1>12 DEF FrameReady, LogStays
  <2>3. Level(h.tx) = 0 BY <2>2, <1>21, <1>22, SMT
  <2>4. h'.tx = Append(h.tx, d.txFrame) BY <1>4, <1>12
  <2>5. /\ Level(Append(h.tx, d.txFrame)) = Level(h.tx) + 1
        /\ Append(h.tx, d.txFrame)[Level(h.tx) + 1] = d.txFrame
    BY <1>21, Appended
  <2>6. Level(h'.tx) = 1 /\ h'.tx[1] = d'.txFrame BY <2>3, <2>4, <2>5, <1>12
  <2>7. \A j \in 1..Level(h'.tx) : j = 1 BY <2>6, SMT
  <2>8. Owed' = 0 BY Zenon DEF Owed
  <2>9. "TXURUN" \notin h'.ris BY <2>2, <1>9, <1>12
  <2> QED BY <2>6, <2>7, <2>8, <2>9
<1>14. Answers' BY <1>12 DEF Answers, Answering
<1>15. d'.mode = d.mode BY <1>2, <1>3, ModeStays
<1> QED BY <1>15, <1>10, <1>11, <1>13, <1>14, <1>2 DEF Spoken

\* The end of the command part of the handler, when the response is set.
CommandOver(x) == [x EXCEPT !.d.cmdDone = TRUE, !.h.en = @ \ {"CMD"}]

\* It changes nothing of what is said, and the command interrupt is off.
LEMMA OverDoes ==
  ASSUME NEW x, SlaveTypes(x), x.d.cmdDone = TRUE
  PROVE  LET y == CommandOver(x)
         IN /\ SlaveTypes(y) /\ SameModes(x, y) /\ SaysTheSame(x, y)
            /\ y.h.ris = x.h.ris /\ y.h.en = x.h.en \ {"CMD"}
<1> DEFINE y == CommandOver(x)
<1>1. DOMAIN x = {"d", "h"} /\ DOMAIN x.d = DriverFields /\ DOMAIN x.h = HardwareFields
  BY DEF SlaveTypes, SlaveNumbers
<1>2. /\ DOMAIN y = {"d", "h"} /\ y.d = [x.d EXCEPT !.cmdDone = TRUE]
      /\ y.h = [x.h EXCEPT !.en = @ \ {"CMD"}]
  BY <1>1, Zenon DEF CommandOver
<1> HIDE DEF y
<1>3. /\ DOMAIN y.d = DriverFields /\ y.d.txSize = x.d.txSize /\ y.d.txIdx = x.d.txIdx
      /\ y.d.respSize = x.d.respSize /\ y.d.respIdx = x.d.respIdx
      /\ y.d.mode = x.d.mode /\ y.d.rx = x.d.rx /\ y.d.rxIdx = x.d.rxIdx
      /\ y.d.blockHandler = x.d.blockHandler /\ y.d.cmdHandler = x.d.cmdHandler
      /\ y.d.frameHandler = x.d.frameHandler
  <2>1. /\ DOMAIN y.d = DriverFields /\ y.d.txSize = x.d.txSize /\ y.d.txIdx = x.d.txIdx
        /\ y.d.respSize = x.d.respSize /\ y.d.respIdx = x.d.respIdx
    BY <1>1, <1>2, Zenon
  <2>2. y.d.mode = x.d.mode /\ y.d.rx = x.d.rx /\ y.d.rxIdx = x.d.rxIdx
    BY <1>1, <1>2, Zenon
  <2>3. /\ y.d.blockHandler = x.d.blockHandler /\ y.d.cmdHandler = x.d.cmdHandler
        /\ y.d.frameHandler = x.d.frameHandler
    <3> DEFINE c == TRUE
    <3>1. y.d = [x.d EXCEPT !.cmdDone = c] BY <1>2
    <3> HIDE DEF c
    <3> QED BY <1>1, <3>1, Zenon
  <2> QED BY <2>1, <2>2, <2>3
<1>4. y.d.cmdDone = x.d.cmdDone /\ y.d.resp = x.d.resp /\ y.d.txFrame = x.d.txFrame
  BY <1>1, <1>2, Zenon
<1>5. /\ DOMAIN y.h = HardwareFields /\ y.h.tx = x.h.tx /\ y.h.rx = x.h.rx
      /\ y.h.ris = x.h.ris /\ y.h.en = x.h.en \ {"CMD"}
      /\ y.h.cnt = x.h.cnt /\ y.h.lim = x.h.lim
  <2>1. DOMAIN y.h = HardwareFields /\ y.h.en = x.h.en \ {"CMD"} BY <1>1, <1>2, Zenon
  <2>2. /\ y.h.tx = x.h.tx /\ y.h.rx = x.h.rx /\ y.h.ris = x.h.ris
        /\ y.h.cnt = x.h.cnt /\ y.h.lim = x.h.lim
    BY <1>1, <1>2, Zenon
  <2> QED BY <2>1, <2>2
<1>6. y.h.auto = x.h.auto BY <1>1, <1>2, Zenon
<1>7. SlaveNumbers(y)
  <2>1. y.h.en \subseteq ToSet(Sources) BY <1>5 DEF SlaveTypes, SlaveNumbers
  <2> QED BY <1>2, <1>3, <1>5, <2>1 DEF SlaveTypes, SlaveNumbers
<1>8. SlaveFlags(y) BY <1>3, <1>4, Zenon DEF SlaveTypes, SlaveFlags
<1>9. SameModes(x, y) BY <1>3, <1>5, Zenon DEF SameModes
<1>10. SaysTheSame(x, y)
  <2>1. SameSetUp(x, y) BY <1>3, <1>4, <1>6, Zenon DEF SameSetUp
  <2>2. SameReply(x, y) /\ SameLoad(x, y)
    BY <1>3, <1>4, <1>5, Zenon DEF SameReply, SameLoad
  <2> QED BY <2>1, <2>2, <1>5, Zenon DEF SaysTheSame
<1> QED BY <1>5, <1>7, <1>8, <1>9, <1>10 DEF SlaveTypes, y

\* The command is at the start of what the master sent, and in the buffer by then.
LEMMA CommandIs ==
  ASSUME PacketInv, d.mode = "BLOCK", bus.sel, ~log.fault, bus.n >= 1,
         NEW x, x = ReadSlaveRxFifo(Here)
  PROVE  x.d.rx[1] = log.sent[1]
<1>1. SlaveTypes(Here) /\ Here.d = d /\ Here.h = h /\ Level(log.sent) = bus.n /\ bus.n \in Nat
      /\ ~Over
  BY WithinPacket DEF Over
<1>2. x = Stored(Here) BY <1>1 DEF ReadSlaveRxFifo
<1> HIDE DEF Here
<1>3. \A i \in 1..RxSize :
        x.d.rx[i] = IF i > d.rxIdx /\ i <= d.rxIdx + Level(h.rx)
                      THEN h.rx[i - d.rxIdx] ELSE d.rx[i]
  BY <1>1, <1>2, StoredDoes
<1>4. InOrder(d.rxIdx) /\ \A i \in 1..RxSize : i <= d.rxIdx => d.rx[i] = log.sent[i]
  BY <1>1, Zenon DEF PacketInv, BlockKept
<1>5. 1 \in 1..RxSize BY Sizes, SMT
<1>6. d.rxIdx \in Nat /\ Level(h.rx) \in Nat
  <2>1. d.rxIdx \in Nat /\ Sequential(h.rx) BY <1>1 DEF SlaveTypes, SlaveNumbers
  <2> QED BY <2>1, SequentialIs
<1>7. d.rxIdx + Level(h.rx) = bus.n /\ \A i \in 1..Level(h.rx) : h.rx[i] = log.sent[d.rxIdx + i]
  BY <1>1, <1>4 DEF InOrder
<1>8. CASE d.rxIdx = 0
  <2>1. 1 - d.rxIdx = 1 /\ d.rxIdx + 1 = 1 /\ 1 > d.rxIdx /\ 1 <= d.rxIdx + Level(h.rx)
        /\ 1 \in 1..Level(h.rx)
    BY <1>1, <1>6, <1>7, <1>8, SMT
  <2>2. x.d.rx[1] = h.rx[1] BY <2>1, <1>3, <1>5
  <2>3. h.rx[1] = log.sent[1] BY <2>1, <1>7
  <2> QED BY <2>2, <2>3
<1>9. CASE d.rxIdx # 0
  <2>1. ~(1 > d.rxIdx) /\ 1 <= d.rxIdx BY <1>6, <1>9, SMT
  <2>2. x.d.rx[1] = d.rx[1] BY <2>1, <1>3, <1>5
  <2>3. d.rx[1] = log.sent[1] BY <2>1, <1>4, <1>5
  <2> QED BY <2>2, <2>3
<1> QED BY <1>8, <1>9

\* The command: its response follows the buffer, and it is that to the command.
LEMMA CmdSpeaks ==
  ASSUME PacketInv, Spoken, Cmd, "CMD" \in Pending, UNCHANGED bus, ~Clearing("SSEND")'
  PROVE  Spoken' /\ d'.cmdDone /\ d'.mode = d.mode /\ LogStays
<1>0. Prepared /\ Answers /\ FrameReady /\ AsSetUp BY DEF Spoken
<1>1. /\ SlaveTypes(Here) /\ Here.d = d /\ Here.h = h /\ At \in Nat /\ bus.n \in Nat
  BY WithinPacket
<1>2. "CMD" \in h.ris /\ "CMD" \in h.en /\ d.mode = "BLOCK" BY ServedIn
<1>3. ~d.cmdDone /\ d.cmdHandler BY <1>0, <1>2, Zenon DEF Prepared
<1> DEFINE x == ReadSlaveRxFifo(Here)
           r == SetCmdResponse(x)
           f == Fill(r)
           v == CommandOver(f)
<1>4. BecomesOf(v) /\ LogStays
  BY <1>3, Zenon DEF Cmd, Become, BecomesOf, LogStays, CommandOver
<1>5. SlaveTypes(x) /\ SameModes(Here, x) /\ SameIrqs(Here, x) /\ SaysTheSame(Here, x)
  BY <1>1, ReadDoes, ReadSays
<1>51. x = ReadSlaveRxFifo(Here) OBVIOUS
<1> HIDE DEF Here, x
<1>6. /\ SlaveTypes(r) /\ SameModes(x, r) /\ SameIrqs(x, r) /\ SameSetUp(x, r)
      /\ r.d.cmdDone = TRUE /\ r.d.respSize = RespSize /\ r.d.resp = x.d.rx[1]
      /\ Loaded(x, At) /\ ~x.d.cmdDone => Loaded(r, At) /\ Full(r, At)
  BY <1>1, <1>5, CmdResponseDoes, ResponseLoads
<1> HIDE DEF r
<1>7. /\ SlaveTypes(f) /\ SameModes(r, f) /\ SameIrqs(r, f)
      /\ SameSetUp(r, f) /\ SameReply(r, f)
      /\ Loaded(r, At) => Loaded(f, At) /\ Full(f, At)
  BY <1>1, <1>6, FillDoes, FillLoads
<1> HIDE DEF f
<1>8. f.d.cmdDone = TRUE /\ f.d.respSize = RespSize /\ f.d.resp = x.d.rx[1]
  BY <1>6, <1>7, Zenon DEF SameReply
<1>9. /\ SlaveTypes(v) /\ SameModes(f, v) /\ SaysTheSame(f, v)
      /\ v.h.ris = f.h.ris /\ v.h.en = f.h.en \ {"CMD"}
  BY <1>7, <1>8, OverDoes
<1> HIDE DEF v
<1>12. SameModes(Here, f) /\ SameModes(Here, v)
  BY <1>5, <1>6, <1>7, <1>9, SameModesIsTransitive
<1>13. SameSetUp(Here, v)
  BY <1>5, <1>6, <1>7, <1>9, SaysSame, SameSetUpIsTransitive
<1>14. SaysTheSame(f, v) BY <1>9
<1>15. v.d.cmdDone = TRUE /\ v.d.respSize = RespSize /\ v.d.resp = x.d.rx[1]
  BY <1>8, <1>14, Zenon DEF SaysTheSame, SameReply
<1>16. v.h.en = h.en \ {"CMD"} /\ v.h.ris = h.ris
  BY <1>1, <1>5, <1>6, <1>7, <1>9, Zenon DEF SameIrqs
<1>17. Prepared'
  <2>1. v.h.en \union {"CMD"} = h.en \union {"CMD"} BY <1>16
  <2>2. "CMD" \notin v.h.en BY <1>16
  <2>3. v.d.respSize = IF d.cmdHandler /\ v.d.cmdDone THEN RespSize ELSE 0
    BY <1>3, <1>15
  <2> QED BY <2>1, <2>2, <2>3, <1>0, <1>2, <1>4, <1>12, <1>13, <1>15, PreparedMoves
<1>18. AsSetUp' BY <1>0, <1>4, <1>12, <1>13, AsSetUpStays
<1>19. /\ d' = v.d /\ h' = v.h /\ v.d.mode = d.mode /\ v.d.txSize = d.txSize
  BY <1>1, <1>4, <1>12, <1>13, Zenon DEF BecomesOf, SameModes, SameSetUp
<1>20. FrameReady' BY <1>2, <1>19 DEF FrameReady
<1>21. ASSUME Answering' PROVE Answers'
  <2>1. "SSEND" \in h.ris => "SSEND" \in h'.ris BY <1>16, <1>19
  <2>2. /\ Answering /\ Loaded(Here, At) /\ Commanded(Here, At)
        /\ At' = At /\ (bus.sel => "TXURUN" \notin h.ris)
    BY <2>1, <1>0, <1>2, <1>4, <1>19, <1>21, StillAnswers DEF LogStays
  <2>3. At >= CmdSize BY <2>2, <1>1, <1>2, <1>3, Zenon DEF Commanded
  <2>4. bus.sel /\ bus.n >= 1 BY <2>3, <1>1, SpiAssumption, SMT DEF At
  <2>5. bus.sel /\ bus.n >= 1 BY <2>4
  <2>6. ~log.fault BY <2>2, <2>5 DEF Answering
  <2>7. v.d.resp = log'.sent[1]
    <3>1. x.d.rx[1] = log.sent[1] BY <2>5, <2>6, <1>2, <1>51, CommandIs
    <3> QED BY <3>1, <1>4, <1>15 DEF LogStays
  <2>8. Loaded(x, At) /\ ~x.d.cmdDone
    <3>1. SameReply(Here, x) /\ SameLoad(Here, x) BY <1>5, SaysSame
    <3>2. x.d.cmdDone = Here.d.cmdDone BY <3>1 DEF SameReply
    <3> QED BY <3>1, <3>2, <2>2, <1>1, <1>3, StillLoaded
  <2>9. Loaded(f, At) /\ Full(f, At) BY <2>8, <1>6, <1>7
  <2>10. Commanded(v, At) BY <2>3, <1>15, Zenon DEF Commanded
  <2>11. bus'.sel => "TXURUN" \notin v.h.ris BY <2>2, <1>16
  <2>12. f.h.lim = h.lim BY <1>1, <1>12 DEF SameModes
  <2>13. PICK n : n = At OBVIOUS
  <2>14. n = At' /\ Loaded(f, n) /\ Full(f, n) /\ Commanded(v, n)
    BY <2>2, <2>9, <2>10, <2>13
  <2> QED BY <2>7, <2>11, <2>12, <2>14, <1>0, <1>2, <1>4, <1>7, <1>9, <1>14, AnswersAgain
<1>22. Answers' BY <1>21 DEF Answers
<1>52. d'.mode = d.mode BY <1>4, <1>12, ModeStays
<1>53. d'.cmdDone BY <1>15, <1>19
<1> QED BY <1>52, <1>53, <1>17, <1>18, <1>20, <1>22, <1>4 DEF Spoken

\* The reset of the block: what it held is lost, but only in a transaction that is lost.
LEMMA OverflowSpeaks ==
  ASSUME PacketInv, Spoken, RxOverflow, "RXOVFLOW" \in Pending, UNCHANGED bus
  PROVE  Spoken' /\ d'.mode = d.mode /\ LogStays
<1>0. Prepared /\ Answers /\ FrameReady /\ AsSetUp /\ Ends BY DEF Spoken, PacketInv
<1>1. SlaveTypes(Here) /\ Here.d = d /\ Here.h = h BY WithinPacket
<1>2. "RXOVFLOW" \in h.ris /\ d.mode \in {"BLOCK", "FRAME"} BY ServedIn
<1> DEFINE y == Recovered(Here)
<1>3. BecomesOf(y) /\ LogStays BY Zenon DEF RxOverflow, Become, BecomesOf, LogStays
<1>4. SameModes(Here, y) /\ y.d = Here.d /\ y.h.en = Here.h.en BY <1>1, Recovering
<1>5. y.h.auto = FALSE
  <2>1. DOMAIN Here = {"d", "h"} /\ DOMAIN Here.h = HardwareFields
    BY <1>1 DEF SlaveTypes, SlaveNumbers
  <2> HIDE DEF Here
  <2>2. y.h = [Here.h EXCEPT !.tx = <<>>, !.rx = <<>>, !.ris = {}, !.auto = FALSE, !.cnt = 0]
    BY <2>1, Zenon DEF Recovered
  <2> HIDE DEF y
  <2> QED BY <2>1, <2>2, Zenon
<1> HIDE DEF Here, y
<1>6. SameSetUp(Here, y) /\ SameReply(Here, y)
  BY <1>4, <1>5, Zenon DEF SameSetUp, SameReply
<1>7. Prepared' BY <1>0, <1>1, <1>3, <1>4, <1>6, PreparedStays
<1>8. AsSetUp' BY <1>0, <1>3, <1>4, <1>6, AsSetUpStays
<1>9. d'.mode = d.mode BY <1>1, <1>3, <1>4 DEF BecomesOf
<1>10. log'.fault = log.fault /\ log.fault BY <1>0, <1>2, <1>3 DEF LogStays, Ends
<1>11. FrameReady' BY <1>10, Zenon DEF FrameReady
<1>12. d'.mode = "BLOCK" => bus'.sel BY <1>0, <1>2, <1>9 DEF Ends
<1>13. Answers' BY <1>10, <1>12, Zenon DEF Answers, Answering
<1>14. d'.mode = d.mode BY <1>3, <1>4, ModeStays
<1> QED BY <1>14, <1>7, <1>8, <1>11, <1>13, <1>3 DEF Spoken

\* The underrun, in frame mode: the frame is loaded, but the transaction is lost.
LEMMA UnderrunLoads ==
  ASSUME PacketInv, Spoken, TxUnderrun, d.mode = "FRAME", "TXURUN" \in h.ris, UNCHANGED bus
  PROVE  Spoken' /\ d'.mode = d.mode /\ LogStays
<1>0. Prepared /\ Answers /\ FrameReady /\ AsSetUp BY DEF Spoken
<1>1. SlaveTypes(Here) /\ Here.d = d /\ Here.h = h BY WithinPacket
<1> DEFINE e == [Here EXCEPT !.h.tx = <<>>]
           x == LoadFrame(e)
<1>2. BecomesOf(x) /\ LogStays
  BY Zenon DEF TxUnderrun, Become, BecomesOf, LogStays
<1>3. SlaveTypes(e) /\ SameModes(Here, e) /\ SameIrqs(Here, e) /\ SameSetUp(Here, e)
      /\ e.d = Here.d /\ e.h.tx = <<>>
  BY <1>1, RestartSays
<1> HIDE DEF Here, e
<1>4. SameReply(Here, e) BY <1>3, Zenon DEF SameReply
<1>5. Level(e.h.tx) < Depth BY <1>3, Empty, Sizes, SMT
<1>6. SlaveTypes(x) /\ SameModes(e, x) /\ SameIrqs(e, x) /\ SameSetUp(e, x) /\ SameReply(e, x)
  BY <1>3, <1>5, LoadDoes, LoadSays
<1> HIDE DEF x
<1>9. SameModes(Here, x) BY <1>3, <1>6, SameModesIsTransitive
<1>10. SameSetUp(Here, x) BY <1>3, <1>6, SameSetUpIsTransitive
<1>11. SameReply(Here, x) BY <1>4, <1>6, SameReplyIsTransitive
<1>12. x.h.en = h.en BY <1>1, <1>3, <1>6 DEF SameIrqs
<1>13. Prepared' BY <1>0, <1>2, <1>9, <1>10, <1>11, <1>12, PreparedStays
<1>14. AsSetUp' BY <1>0, <1>2, <1>9, <1>10, AsSetUpStays
<1>15. d'.mode = d.mode /\ d'.txFrame = d.txFrame
  BY <1>1, <1>2, <1>9, <1>10 DEF BecomesOf, SameModes, SameSetUp
<1>16. FrameReady' BY <1>0, <1>2, <1>15, Zenon DEF FrameReady, LogStays
<1>17. Answers' BY <1>15 DEF Answers, Answering
<1>18. d'.mode = d.mode BY <1>2, <1>9, ModeStays
<1> QED BY <1>18, <1>13, <1>14, <1>16, <1>17, <1>2 DEF Spoken

\* In block mode the buffer starts over, which is right between two transactions.
LEMMA UnderrunRestarts ==
  ASSUME PacketInv, Spoken, TxUnderrun, d.mode = "BLOCK", "TXURUN" \in h.ris, UNCHANGED bus,
         ~Clearing("SSEND")'
  PROVE  Spoken' /\ d'.mode = d.mode /\ LogStays
<1>0. Prepared /\ Answers /\ FrameReady /\ AsSetUp BY DEF Spoken
<1>1. SlaveTypes(Here) /\ Here.d = d /\ Here.h = h BY WithinPacket
<1> DEFINE e == [Here EXCEPT !.h.tx = <<>>]
           r == [e EXCEPT !.d.txIdx = 0]
           x == Fill(r)
<1>2. BecomesOf(x) /\ LogStays
  BY Zenon DEF TxUnderrun, Become, BecomesOf, LogStays
<1>3. /\ SlaveTypes(r) /\ SameModes(Here, r) /\ SameIrqs(Here, r)
      /\ SameSetUp(Here, r) /\ SameReply(Here, r)
      /\ r.h.tx = <<>> /\ r.d.txIdx = 0 /\ r.d.respIdx = Here.d.respIdx
  BY <1>1, RestartSays
<1> HIDE DEF Here, r
<1>4. /\ SlaveTypes(x) /\ SameModes(r, x) /\ SameIrqs(r, x) /\ SameSetUp(r, x) /\ SameReply(r, x)
      /\ Loaded(r, 0) /\ (r.d.cmdDone \/ r.d.respSize = 0) => Loaded(x, 0) /\ Full(x, 0)
  <2>1. 0 \in Nat BY SMT
  <2> QED BY <2>1, <1>3, FillDoes, FillLoads
<1> HIDE DEF x
<1>6. SaysTheSame(x, x) BY SaysItself
<1>7. SameModes(Here, x) BY <1>3, <1>4, SameModesIsTransitive
<1>8. SameSetUp(Here, x) BY <1>3, <1>4, SameSetUpIsTransitive
<1>9. SameReply(Here, x) BY <1>3, <1>4, SameReplyIsTransitive
<1>10. x.h.en = h.en /\ x.h.ris = h.ris BY <1>1, <1>3, <1>4 DEF SameIrqs
<1>11. Prepared' BY <1>0, <1>2, <1>7, <1>8, <1>9, <1>10, PreparedStays
<1>12. AsSetUp' BY <1>0, <1>2, <1>7, <1>8, AsSetUpStays
<1>13. /\ d' = x.d /\ h' = x.h /\ x.d.mode = d.mode /\ x.d.txSize = d.txSize
       /\ x.d.cmdHandler = d.cmdHandler /\ x.d.cmdDone = d.cmdDone
  BY <1>1, <1>2, <1>7, <1>8, <1>9, Zenon DEF BecomesOf, SameModes, SameSetUp, SameReply
<1>14. FrameReady' BY <1>13 DEF FrameReady
<1>15. ASSUME Answering' PROVE Answers'
  <2>1. "SSEND" \in h.ris => "SSEND" \in h'.ris BY <1>10, <1>13
  <2>2. /\ Commanded(Here, At)
        /\ At' = At /\ (bus.sel => "TXURUN" \notin h.ris)
    BY <2>1, <1>0, <1>2, <1>13, <1>15, StillAnswers DEF LogStays
  <2>3. ~bus.sel /\ At = 0 BY <2>2 DEF At
  <2>4. d.cmdHandler => ~d.cmdDone /\ "CMD" \notin h.ris
    <3>1. ~(0 >= CmdSize) BY SpiAssumption, SMT
    <3> QED BY <3>1, <2>2, <2>3, <1>1, Zenon DEF Commanded
  <2>5. d.respSize = 0 BY <2>4, <1>0 DEF Prepared
  <2>6. r.d.respIdx = 0
    <3>1. Here.d.respIdx \in Nat /\ Here.d.respIdx <= Here.d.respSize BY <1>1, Counters
    <3>2. Here.d.respSize = 0 BY <1>1, <2>5
    <3> QED BY <3>1, <3>2, <1>3, SMT
  <2>7. Loaded(r, 0) BY <2>6, <1>3, StartsLoaded
  <2>8. r.d.respSize = 0 BY <2>5, <1>1, <1>3 DEF SameReply
  <2>9. Loaded(x, 0) /\ Full(x, 0) BY <2>7, <2>8, <1>4
  <2>10. Commanded(x, 0)
    <3>1. ~(0 >= CmdSize) BY SpiAssumption, SMT
    <3>2. d.cmdHandler => "CMD" \notin x.h.ris /\ ~x.d.cmdDone BY <2>4, <1>10, <1>13
    <3> QED BY <3>1, <3>2, <1>13, Zenon DEF Commanded
  <2>11. ~bus'.sel /\ 0 = At' BY <2>2, <2>3
  <2>12. ~(x.d.cmdHandler /\ x.d.cmdDone) BY <2>4, <1>13
  <2>13. x.h.lim = h.lim BY <1>1, <1>7 DEF SameModes
  <2> QED BY <2>9, <2>10, <2>11, <2>12, <2>13, <1>0, <1>2, <1>4, <1>6, AnswersAgain
<1>16. Answers' BY <1>15 DEF Answers
<1>17. d'.mode = d.mode BY <1>2, <1>7, ModeStays
<1> QED BY <1>17, <1>11, <1>12, <1>14, <1>16, <1>2 DEF Spoken

\* The receive index is none of it.
LEMMA ResetSays ==
  ASSUME NEW x, SlaveTypes(x)
  PROVE  SaysTheSame(x, [x EXCEPT !.d.rxIdx = 0])
<1> DEFINE y == [x EXCEPT !.d.rxIdx = 0]
<1>1. DOMAIN x = {"d", "h"} /\ DOMAIN x.d = DriverFields BY DEF SlaveTypes, SlaveNumbers
<1>2. y.h = x.h /\ y.d = [x.d EXCEPT !.rxIdx = 0] BY <1>1, Zenon
<1> HIDE DEF y
<1>3. /\ y.d.txSize = x.d.txSize /\ y.d.txIdx = x.d.txIdx /\ y.d.respSize = x.d.respSize
      /\ y.d.respIdx = x.d.respIdx /\ y.d.resp = x.d.resp /\ y.d.cmdDone = x.d.cmdDone
      /\ y.d.txFrame = x.d.txFrame
  BY <1>1, <1>2, Zenon
<1>4. SaysTheSame(x, y) BY <1>2, <1>3, Zenon DEF SaysTheSame, SameSetUp, SameReply, SameLoad
<1> QED BY <1>4 DEF y

\* The end of the packet: the FIFO starts over with the buffer, the next command is
\* expected, and no response is left over from the last.
LEMMA SsEndSpeaks ==
  ASSUME PacketInv, Spoken, SsEnd, "SSEND" \in Pending, UNCHANGED bus
  PROVE  Spoken' /\ d'.mode = d.mode /\ LogStays
<1>0. Prepared /\ Answers /\ FrameReady /\ AsSetUp /\ Ends BY DEF Spoken, PacketInv
<1>1. /\ SlaveTypes(Here) /\ Here.d = d /\ Here.h = h
      /\ DOMAIN log = {"sent", "got", "missed", "fault", "with"}
  BY WithinPacket
<1>2. "SSEND" \in h.ris /\ "SSEND" \in h.en /\ d.mode = "BLOCK" BY ServedIn
<1>3. ~bus.sel BY <1>0, <1>2 DEF Ends
<1> DEFINE x == ReadSlaveRxFifo(Here)
           f == Rewound(x)
           y == [f EXCEPT !.d.rxIdx = 0]
<1>4. BecomesOf(y) BY Zenon DEF SsEnd, Become, BecomesOf
<1>5. LogStays
  <2>1. \/ log' = log
        \/ \E e : log' = [log EXCEPT !.got = e]
    BY Zenon DEF SsEnd
  <2> QED BY <2>1, <1>1, Zenon DEF LogStays
<1>6. SlaveTypes(x) /\ SameModes(Here, x) /\ SameIrqs(Here, x) /\ SaysTheSame(Here, x)
  BY <1>1, ReadDoes, ReadSays
<1> HIDE DEF Here, x
<1>61. x.d.cmdDone = d.cmdDone /\ x.d.respSize = d.respSize
  BY <1>1, <1>6, SaysSame DEF SameReply
<1>62. d.cmdHandler \/ (x.d.cmdDone /\ x.d.respSize = 0)
  BY <1>0, <1>2, <1>61, Zenon DEF Prepared
<1>7. /\ SlaveTypes(f) /\ SameModes(x, f)
      /\ SameSetUp(x, f) /\ Loaded(f, 0) /\ Full(f, 0)
      /\ f.d.respSize = 0
      /\ f.d.cmdDone = IF d.cmdHandler THEN FALSE ELSE x.d.cmdDone
      /\ f.h.en = IF d.cmdHandler THEN x.h.en \union {"CMD"} ELSE x.h.en
      /\ f.h.ris = IF d.cmdHandler THEN x.h.ris \ {"CMD"} ELSE x.h.ris
  BY <1>6, <1>62, RewoundDoes, RewoundLoads
<1> HIDE DEF f
<1>8. SlaveTypes(y) /\ SameModes(f, y) /\ SameIrqs(f, y) /\ SaysTheSame(f, y)
  BY <1>7, ResetDoes, ResetSays
<1> HIDE DEF y
<1>11. SameModes(Here, f) /\ SameModes(Here, y)
  BY <1>6, <1>7, <1>8, SameModesIsTransitive
<1>12. SameSetUp(Here, y)
  BY <1>6, <1>7, <1>8, SaysSame, SameSetUpIsTransitive
<1>14. y.d.respSize = 0 /\ y.d.cmdDone = IF d.cmdHandler THEN FALSE ELSE d.cmdDone
  BY <1>7, <1>8, <1>61, Zenon DEF SaysTheSame, SameReply
<1>15. /\ y.h.en = IF d.cmdHandler THEN h.en \union {"CMD"} ELSE h.en
       /\ y.h.ris \subseteq h.ris
       /\ d.cmdHandler => "CMD" \notin y.h.ris
  <2>1. y.h.en = f.h.en /\ y.h.ris = f.h.ris BY <1>8 DEF SameIrqs
  <2>2. x.h.en = h.en /\ x.h.ris = h.ris BY <1>1, <1>6 DEF SameIrqs
  <2>3. CASE d.cmdHandler BY <2>1, <2>2, <2>3, <1>7
  <2>4. CASE ~d.cmdHandler BY <2>1, <2>2, <2>4, <1>7
  <2> QED BY <2>3, <2>4
<1>16. Prepared'
  <2>1. y.h.en \union {"CMD"} = h.en \union {"CMD"} BY <1>15
  <2>2. "CMD" \in y.h.en <=> ~y.d.cmdDone
    <3>1. CASE d.cmdHandler BY <3>1, <1>14, <1>15
    <3>2. CASE ~d.cmdHandler
      <4>1. "CMD" \in h.en <=> ~d.cmdDone BY <1>0, <1>2, Zenon DEF Prepared
      <4> QED BY <4>1, <3>2, <1>14, <1>15
    <3> QED BY <3>1, <3>2
  <2>3. ~d.cmdHandler => y.d.cmdDone BY <1>0, <1>2, <1>14, Zenon DEF Prepared
  <2>4. y.d.respSize = IF d.cmdHandler /\ y.d.cmdDone THEN RespSize ELSE 0
    BY <1>14, Zenon
  <2> QED BY <2>1, <2>2, <2>3, <2>4, <1>0, <1>2, <1>4, <1>11, <1>12, PreparedMoves
<1>17. AsSetUp' BY <1>0, <1>4, <1>5, <1>11, <1>12, AsSetUpStays
<1>18. /\ y.d.mode = d.mode /\ d' = y.d /\ y.d.cmdHandler = d.cmdHandler
  BY <1>1, <1>4, <1>11, Zenon DEF BecomesOf, SameModes
<1>19. FrameReady' BY <1>2, <1>18 DEF FrameReady
<1>20. Answers'
  <2>1. ~bus'.sel /\ 0 = At' BY <1>3 DEF At
  <2>2. d.cmdHandler => "CMD" \notin y.h.ris /\ ~y.d.cmdDone BY <1>14, <1>15
  <2>3. Commanded(y, 0)
    <3>1. ~(0 >= CmdSize) BY SpiAssumption, SMT
    <3> QED BY <3>1, <2>2, <1>18, Zenon DEF Commanded
  <2>4. ~(y.d.cmdHandler /\ y.d.cmdDone) BY <2>2, <1>18
  <2>5. f.h.lim = h.lim BY <1>1, <1>11 DEF SameModes
  <2> QED BY <2>1, <2>3, <2>4, <2>5, <1>0, <1>2, <1>4, <1>7, <1>8, AnswersAgain
<1>63. d'.mode = d.mode BY <1>4, <1>11, ModeStays
<1> QED BY <1>63, <1>16, <1>17, <1>19, <1>20, <1>5 DEF Spoken

\* Whatever mss_spi_isr serves, the slave goes on to say what it has to.
LEMMA ServesSpeaks ==
  ASSUME PacketInv, Spoken, IsrServes
  PROVE  Spoken' /\ Served' /\ d'.mode = d.mode /\ LogStays
<1>1. UNCHANGED bus BY DEF IsrServes
<1>2. /\ isr \in 1..6 /\ isr' = 6 + isr /\ NSources = 6
      /\ isr \in 0..2 * NSources /\ isr' \in 0..2 * NSources
  <2>1. NSources = 6 BY SMT DEF NSources, Sources
  <2>2. isr \in 1..6 /\ isr' = 6 + isr BY <2>1, Zenon DEF IsrServes
  <2> QED BY <2>1, <2>2, SMT
<1>3. /\ Clearing("TXDONE")' <=> isr = 2
      /\ Clearing("CMD")' <=> isr = 3
      /\ Clearing("SSEND")' <=> isr = 6
  <2>1. isr' = 8 <=> isr = 2 BY <1>2, SMT
  <2>2. isr' = 9 <=> isr = 3 BY <1>2, SMT
  <2>3. isr' = 12 <=> isr = 6 BY <1>2, SMT
  <2>4. /\ Clearing("TXDONE")' <=> isr' = 8
        /\ Clearing("CMD")' <=> isr' = 9
        /\ Clearing("SSEND")' <=> isr' = 12
    BY <1>2, PlaceIs DEF Clearing
  <2> QED BY <2>1, <2>2, <2>3, <2>4
<1>4. ~Clearing("TXDONE")
  <2>1. isr \in 0..6 BY <1>2, SMT
  <2> QED BY <2>1, ClearsNothing DEF Clearing
<1>5. /\ isr = 1 => isr # 2 /\ isr # 3 /\ isr # 6
      /\ isr = 2 => isr # 3 /\ isr # 6
      /\ isr = 3 => isr # 2 /\ isr # 6
      /\ isr = 4 => isr # 2 /\ isr # 3
      /\ isr = 5 => isr # 2 /\ isr # 3 /\ isr # 6
      /\ isr = 6 => isr # 2 /\ isr # 3
  BY SMT
<1>6. ~Clearing("CMD")' /\ ~Clearing("TXDONE")' => Served' BY DEF Served
<1>7. CASE isr = 1 /\ "RXDONE" \in Pending /\ RxDone
  <2>1. ~Clearing("TXDONE")' /\ ~Clearing("CMD")' /\ ~Clearing("SSEND")' BY <1>3, <1>5, <1>7
  <2> QED BY <2>1, <1>1, <1>4, <1>6, <1>7, RxDoneSpeaks
<1>8. CASE isr = 2 /\ "TXDONE" \in Pending /\ TxDoneIrq
  <2>1. "TXDONE" \in h.ris /\ d.mode \in {"BLOCK", "FRAME"} BY <1>8, ServedIn
  <2>2. Clearing("TXDONE")' /\ ~Clearing("CMD")' /\ ~Clearing("SSEND")' BY <1>3, <1>5, <1>8
  <2>3. CASE d.mode = "BLOCK"
    <3>1. Spoken' /\ (Answering' => ~Starved') /\ d'.mode = d.mode /\ LogStays
      BY <2>2, <2>3, <1>1, <1>8, TxDoneFills
    <3> QED BY <3>1, <2>2 DEF Served
  <2>4. CASE d.mode = "FRAME"
    <3>1. Spoken' /\ d'.mode = d.mode /\ LogStays
      BY <2>1, <2>2, <2>4, <1>1, <1>4, <1>8, TxDoneLoads
    <3> QED BY <3>1, <2>4 DEF Served
  <2> QED BY <2>1, <2>3, <2>4
<1>9. CASE isr = 3 /\ "CMD" \in Pending /\ Cmd
  <2>1. ~Clearing("TXDONE")' /\ ~Clearing("SSEND")' BY <1>3, <1>5, <1>9
  <2>2. Spoken' /\ d'.cmdDone /\ d'.mode = d.mode /\ LogStays BY <2>1, <1>1, <1>9, CmdSpeaks
  <2> QED BY <2>1, <2>2 DEF Served
<1>10. CASE isr = 4 /\ "RXOVFLOW" \in Pending /\ RxOverflow
  <2>1. ~Clearing("TXDONE")' /\ ~Clearing("CMD")' BY <1>3, <1>5, <1>10
  <2> QED BY <2>1, <1>1, <1>6, <1>10, OverflowSpeaks
<1>11. CASE isr = 5 /\ "TXURUN" \in Pending /\ TxUnderrun
  <2>1. "TXURUN" \in h.ris /\ d.mode \in {"BLOCK", "FRAME"} BY <1>11, ServedIn
  <2>2. ~Clearing("TXDONE")' /\ ~Clearing("CMD")' /\ ~Clearing("SSEND")' BY <1>3, <1>5, <1>11
  <2> QED BY <2>1, <2>2, <1>1, <1>6, <1>11, UnderrunRestarts, UnderrunLoads
<1>12. CASE isr = 6 /\ "SSEND" \in Pending /\ SsEnd
  <2>1. ~Clearing("TXDONE")' /\ ~Clearing("CMD")' BY <1>3, <1>5, <1>12
  <2> QED BY <2>1, <1>1, <1>6, <1>12, SsEndSpeaks
<1> QED BY <1>7, <1>8, <1>9, <1>10, <1>11, <1>12, ServesWhich

\* Clearing a source changes nothing of what the slave says, and none that it still needs.
LEMMA ClearsSpeaks ==
  ASSUME PacketInv, Spoken, Served, IsrClears
  PROVE  Spoken' /\ Served' /\ d'.mode = d.mode /\ log'.sent = log.sent /\ log'.with = log.with
         /\ (log.fault => log'.fault)
<1>0. Prepared /\ Answers /\ FrameReady /\ AsSetUp /\ Ends BY DEF Spoken, PacketInv
<1>1. /\ SlaveTypes(Here) /\ Here.d = d /\ Here.h = h /\ At \in Nat /\ Modes
      /\ DOMAIN log = {"sent", "got", "missed", "fault", "with"}
      /\ isr \in 0..2 * NSources /\ bus.t = bus'.t
  BY WithinPacket DEF SlaveSide, IsrClears
<1>2. NSources = 6 BY <1>1, PlaceIs
<1>3. isr > NSources /\ Cleared(isr - NSources) /\ UNCHANGED bus BY DEF IsrClears
<1> DEFINE source == Sources[isr - NSources]
           y == Clear(Here, source)
<1>4. /\ BecomesOf(y)
      /\ log' = [log EXCEPT !.missed = IF source = "RXDONE" THEN h.rx # <<>> ELSE @,
                            !.fault = @ \/ (source = "TXDONE" /\ Starved)]
  BY <1>3 DEF Cleared, Become, BecomesOf
<1>5. /\ log'.sent = log.sent /\ log'.with = log.with
      /\ log'.fault <=> log.fault \/ (source = "TXDONE" /\ Starved)
  <2>1. log'.sent = log.sent /\ log'.with = log.with BY <1>1, <1>4, Zenon
  <2>2. log'.fault = (log.fault \/ (source = "TXDONE" /\ Starved)) BY <1>1, <1>4, Zenon
  <2> QED BY <2>1, <2>2
<1>6. \A s : Clearing(s) <=> source = s BY <1>3 DEF Clearing
<1>7. \A s : ~Clearing(s)'
  <2>1. isr \in 7..12 /\ isr' = After(isr - 6) BY <1>1, <1>2, SMT DEF IsrClears
  <2>2. isr' \in 0..6 BY <1>2, <2>1, SMT DEF After
  <2>3. ~(isr' > NSources) BY <2>2, ClearsNothing
  <2> QED BY <2>3 DEF Clearing
<1> HIDE DEF source
<1>8. DOMAIN Here = {"d", "h"} /\ DOMAIN Here.h = HardwareFields
  BY <1>1 DEF SlaveTypes, SlaveNumbers
<1> HIDE DEF Here
<1>9. /\ SlaveTypes(y) /\ SameModes(Here, y) /\ SaysTheSame(Here, y) /\ y.d = Here.d
      /\ y.h.en = Here.h.en /\ y.h.ris = Here.h.ris \ {source}
  BY <1>1, <1>8, ClearDoes, ClearSays
<1> HIDE DEF y
<1>10. SameSetUp(Here, y) /\ SameReply(Here, y) /\ SameLoad(Here, y) BY <1>9, SaysSame
<1>11. Prepared' BY <1>0, <1>1, <1>4, <1>9, <1>10, PreparedStays
<1>12. /\ d' = d /\ h' = y.h /\ h'.tx = h.tx /\ h'.cnt = h.cnt /\ h'.lim = h.lim
       /\ y.h.ris = h.ris \ {source} /\ y.d = d /\ y.h.lim = h.lim /\ y.h.cnt = h.cnt
       /\ y.h.tx = h.tx
  BY <1>1, <1>4, <1>9, <1>10 DEF BecomesOf, SaysTheSame, SameLoad
<1>13. isr # 0 BY <1>1, <1>2, <1>3, SMT
<1>14. AsSetUp'
  <2>1. bus'.t # 0 BY <1>1, <1>13 DEF Modes
  <2> QED BY <2>1, <1>0, <1>3, <1>5, <1>12, Zenon DEF AsSetUp
<1>15. FrameReady'
  <2>1. SUFFICES ASSUME d.mode = "FRAME", d.txFrame # Zero, ~log'.fault
                 PROVE  /\ (Level(h.tx) + Owed = 1)' /\ "TXURUN" \notin h'.ris
                        /\ \A j \in 1..Level(h'.tx) : h'.tx[j] = d'.txFrame
    BY <1>12 DEF FrameReady
  <2>2. /\ Level(h.tx) + Owed = 1 \/ (h.tx = <<>> /\ Clearing("TXDONE"))
        /\ "TXURUN" \notin h.ris
        /\ \A j \in 1..Level(h.tx) : h.tx[j] = d.txFrame
    BY <2>1, <1>0, <1>5 DEF FrameReady
  <2>3. (Level(h.tx) + Owed = 1)'
    <3>1. CASE source = "TXDONE"
      <4>1. ~Starved /\ Owed = 0 /\ Owed' = 0
        BY <2>1, <3>1, <1>5, <1>6, <1>12 DEF Owed
      <4>2. h.lim = 1 /\ h.cnt = 0 BY <2>1, <1>1 DEF Modes
      <4>3. ~(Level(h.tx) + h.cnt < h.lim) BY <2>1, <4>1 DEF Starved, Level
      <4>4. h.tx # <<>> BY <4>2, <4>3, Empty, SMT
      <4>5. Level(h.tx) + Owed = 1 BY <4>4, <2>2
      <4> QED BY <4>1, <4>5, <1>12
    <3>2. CASE source # "TXDONE"
      <4>1. ~Clearing("TXDONE") /\ ~Clearing("TXDONE")' BY <3>2, <1>6, <1>7
      <4>2. "TXDONE" \in h'.ris <=> "TXDONE" \in h.ris BY <3>2, <1>12
      <4>3. Owed' = Owed BY <4>1, <4>2, Zenon DEF Owed
      <4> QED BY <4>1, <4>3, <2>2, <1>12
    <3> QED BY <3>1, <3>2
  <2>4. "TXURUN" \notin h'.ris BY <2>2, <1>12
  <2> QED BY <2>2, <2>3, <2>4, <1>12
<1>16. ASSUME Answering' PROVE Answers'
  <2>1. Over' => Over
    <3>1. d.mode = "BLOCK" BY <1>12, <1>16 DEF Answering
    <3>2. CASE source = "SSEND" BY <3>1, <3>2, <1>0, <1>6 DEF Ends, Over
    <3>3. CASE source # "SSEND" BY <3>3, <1>3, <1>6, <1>7, <1>12 DEF Over
    <3> QED BY <3>2, <3>3
  <2>2. Answering BY <2>1, <1>3, <1>5, <1>12, <1>16, Zenon DEF Answering
  <2>3. /\ Loaded(Here, At) /\ Fed(Here, At) /\ Commanded(Here, At)
        /\ bus.sel => "TXURUN" \notin h.ris
        /\ d.cmdHandler /\ d.cmdDone => d.resp = log.sent[1]
    BY <2>2, <1>0 DEF Answers
  <2>4. PICK n : n = At OBVIOUS
  <2>5. n = At' /\ n \in Nat BY <2>4, <1>1, <1>3 DEF At
  <2>6. Loaded(y, n) BY <2>3, <2>4, <1>10, StillLoaded
  <2>7. Fed(y, n)
    <3>1. CASE source = "TXDONE"
      <4>1. ~Starved
        <5>1. CASE bus.sel
          <6>1. ~log'.fault BY <5>1, <1>3, <1>16 DEF Answering
          <6> QED BY <6>1, <3>1, <1>5
        <5>2. CASE ~bus.sel
          <6>1. Clearing("TXDONE") BY <3>1, <1>6
          <6>2. d.mode = "BLOCK" BY <2>2 DEF Answering
          <6> QED BY <5>2, <6>1, <6>2, <2>2, Zenon DEF Served
        <5> QED BY <5>1, <5>2
      <4>2. /\ Level(h.tx) \in Nat /\ h.cnt \in Nat /\ h.lim \in Nat
            /\ d.txIdx \in Nat /\ d.txSize \in Nat
        BY <1>1, Counters, WithinPacket
      <4>3. CASE ~(Level(h.tx) + h.cnt < h.lim)
        <5>1. Level(y.h.tx) + y.h.cnt >= y.h.lim BY <4>2, <4>3, <1>12, SMT
        <5> QED BY <5>1 DEF Fed
      <4>4. CASE ~d.cmdDone /\ ~(d.txIdx < d.txSize)
        <5>1. d.txIdx = n + Level(h.tx) \/ n + Level(h.tx) >= d.txSize
          BY <2>6, <1>12 DEF Loaded, Indexed
        <5>2. n + Level(h.tx) >= d.txSize BY <4>2, <4>4, <5>1, <2>5, SMT
        <5> QED BY <4>4, <5>2, <1>12 DEF Fed
      <4> QED BY <4>1, <4>3, <4>4 DEF Starved, Level
    <3>2. CASE source # "TXDONE"
      <4>1. "TXDONE" \in h.ris => "TXDONE" \in y.h.ris BY <3>2, <1>12
      <4> QED BY <4>1, <2>3, <2>4, <1>1, <1>12, Zenon DEF Fed
    <3> QED BY <3>1, <3>2
  <2>8. Commanded(y, n)
    <3>1. CASE source = "CMD"
      <4>1. d.cmdDone
        <5>1. Clearing("CMD") /\ d.mode = "BLOCK" BY <3>1, <1>6, <2>2 DEF Answering
        <5> QED BY <5>1, Zenon DEF Served
      <4> QED BY <4>1, <2>3, <2>4, <1>1, <1>12, Zenon DEF Commanded
    <3>2. CASE source # "CMD"
      <4>1. "CMD" \in h.ris <=> "CMD" \in y.h.ris BY <3>2, <1>12
      <4> QED BY <4>1, <2>3, <2>4, <1>1, <1>12, Zenon DEF Commanded
    <3> QED BY <3>1, <3>2
  <2>9. bus'.sel => "TXURUN" \notin y.h.ris BY <2>3, <1>3, <1>12
  <2>10. y.d.cmdHandler /\ y.d.cmdDone => y.d.resp = log'.sent[1] BY <2>3, <1>5, <1>12
  <2> QED BY <2>5, <2>6, <2>7, <2>8, <2>9, <2>10, <1>4, AnswersOf
<1>17. Answers' BY <1>16 DEF Answers
<1>18. Served' BY <1>7 DEF Served
<1> QED BY <1>5, <1>11, <1>12, <1>14, <1>15, <1>17, <1>18 DEF Spoken

---------------------------------------------------------------------------
(* The set-up calls of the slave.                                          *)

\* Between two transactions, with nothing pending, the slave waits for a command.
LEMMA SettledIs ==
  ASSUME PacketInv, Spoken, NEW mode, Settles(mode), mode \in {"BLOCK", "FRAME"}
  PROVE  /\ ~bus.sel /\ UNCHANGED <<m, bus, log>> /\ Pending = {} /\ d.mode \in {"NONE", mode}
         /\ At = 0 /\ At' = 0 /\ ~bus'.sel /\ log'.fault = log.fault /\ log'.sent = log.sent
         /\ AsSetUp'
         /\ d.mode = "NONE" => bus.t = 0 /\ h.ris = {} /\ d.txSize = 0
         /\ d.mode # "FRAME" /\ d.cmdHandler => ~d.cmdDone /\ d.respSize = 0
                                                /\ "CMD" \in h.en /\ "CMD" \notin h.ris
         /\ d.mode # "FRAME" => d.respSize = 0
         /\ d.mode = "BLOCK" /\ d.txSize > 0 => Loaded(Here, 0)
         /\ isr = 0 /\ isr' = 0 /\ \A s : ~Clearing(s) /\ ~Clearing(s)'
<1>0. Prepared /\ Answers /\ FrameReady /\ AsSetUp BY DEF Spoken
<1>1. SlaveTypes(Here) /\ Here.d = d /\ Here.h = h /\ Modes BY WithinPacket
<1> HIDE DEF Here
<1>2. ~bus.sel /\ UNCHANGED <<m, bus, log>> /\ Pending = {} /\ d.mode \in {"NONE", mode}
  BY DEF Settles, Quiet
<1>3. At = 0 /\ At' = 0 /\ ~bus'.sel BY <1>2 DEF At
<1>4. log'.fault = log.fault /\ log'.sent = log.sent BY <1>2
<1>5. AsSetUp' BY <1>0, <1>2, Zenon DEF AsSetUp
<1>6. d.mode = "NONE" => bus.t = 0 /\ h.ris = {} /\ d.txSize = 0 BY <1>1 DEF Modes
<1>7. d.mode = "BLOCK" => "SSEND" \notin h.ris BY <1>1, <1>2 DEF Modes, Pending
<1>71. isr = 0 /\ isr' = 0 BY DEF Settles, Quiet
<1>72. \A s : ~Clearing(s) /\ ~Clearing(s)'
  <2>1. ~(0 > NSources) BY ClearsNothing
  <2> QED BY <2>1, <1>71 DEF Clearing
<1>8. d.mode = "BLOCK" /\ d.txSize > 0 => Loaded(Here, 0) /\ Commanded(Here, 0)
  BY <1>0, <1>2, <1>3, <1>7, Zenon DEF Answers, Answering, Over
<1>9. ASSUME d.mode # "FRAME", d.cmdHandler
      PROVE  ~d.cmdDone /\ d.respSize = 0 /\ "CMD" \in h.en /\ "CMD" \notin h.ris
  <2>1. ~d.cmdDone
    <3>1. CASE d.mode = "NONE" BY <1>0, <1>9, <3>1, Zenon DEF Prepared
    <3>2. CASE d.mode = "BLOCK"
      <4>1. d.txSize > CmdSize BY <1>0, <1>9, <3>2, Zenon DEF Prepared
      <4>2. d.txSize \in Nat BY <1>1, Counters
      <4>3. d.txSize > 0 /\ ~(0 >= CmdSize) BY <4>1, <4>2, SpiAssumption, SMT
      <4>4. Commanded(Here, 0) BY <1>8, <3>2, <4>3
      <4> QED BY <4>3, <4>4, <1>1, <1>9, Zenon DEF Commanded
    <3> QED BY <3>1, <3>2, <1>2, <1>9
  <2>2. d.respSize = 0 /\ "CMD" \in h.en BY <2>1, <1>0, <1>9, Zenon DEF Prepared
  <2>3. "CMD" \notin h.ris BY <2>2, <1>2 DEF Pending
  <2> QED BY <2>1, <2>2, <2>3
<1>10. d.mode # "FRAME" => d.respSize = 0
  <2>1. CASE d.cmdHandler BY <2>1, <1>9
  <2>2. CASE ~d.cmdHandler BY <2>2, <1>0, Zenon DEF Prepared
  <2> QED BY <2>1, <2>2
<1> QED BY <1>2, <1>3, <1>4, <1>5, <1>6, <1>8, <1>9, <1>10, <1>71, <1>72

\* MSS_SPI_set_slave_block_buffers: the buffer is loaded from its start.
LEMMA BuffersSpeak ==
  ASSUME PacketInv, Spoken, Settles("BLOCK"), NEW size \in TxSizes, d.cmdHandler => size > 0,
         SetSlaveBlockBuffers(size)
  PROVE  Spoken'
<1>0. Prepared /\ Answers /\ FrameReady /\ AsSetUp BY DEF Spoken
<1>1. /\ SlaveTypes(Here) /\ Here.d = d /\ Here.h = h /\ Threshold > 0 /\ Threshold \in Nat
      /\ Threshold <= Depth /\ SlaveSide
  BY WithinPacket
<1>2. /\ DOMAIN d = DriverFields /\ DOMAIN h = HardwareFields
      /\ {d.respIdx, d.respSize} \subseteq Nat /\ d.respIdx <= d.respSize
  BY <1>1 DEF SlaveTypes, SlaveNumbers
<1> HIDE DEF Here
<1>3. /\ ~bus.sel /\ At' = 0 /\ ~bus'.sel /\ AsSetUp' /\ d.mode \in {"NONE", "BLOCK"}
      /\ Pending = {} /\ UNCHANGED <<bus, log>>
      /\ d.mode # "FRAME" /\ d.cmdHandler => ~d.cmdDone /\ d.respSize = 0
                                             /\ "CMD" \in h.en /\ "CMD" \notin h.ris
      /\ d.mode # "FRAME" => d.respSize = 0
  BY SettledIs
<1>4. size \in Nat /\ (size > 0 => size > CmdSize) BY SpiAssumption, SMT
<1> DEFINE cmd == d.cmdHandler
           n == IF cmd THEN Least(Depth, size) ELSE Depth
           loaded == [i \in 1..n |-> IF i <= size THEN <<"tx", i>> ELSE Zero]
           idx == IF cmd /\ size < Depth THEN size + 1 ELSE Depth
           en == (IF cmd THEN h.en ELSE h.en \ {"CMD"})
                 \union (IF size > 0 THEN {"TXDONE"} ELSE {})
                 \union {"SSEND", "RXDONE", "TXURUN", "RXOVFLOW"}
           ris == h.ris \ {"TXDONE", "SSEND", "TXURUN", "RXOVFLOW", "RXDONE"}
<1>5. /\ d' = [d EXCEPT !.mode = "BLOCK", !.cmdDone = ~cmd, !.frameHandler = FALSE,
                        !.blockHandler = TRUE, !.rxIdx = 0,
                        !.txSize = size, !.txIdx = idx]
      /\ h' = [h EXCEPT !.tx = loaded, !.rx = <<>>, !.cnt = 0, !.lim = Threshold,
                        !.auto = size = 0, !.ris = ris, !.en = en]
  BY Zenon DEF SetSlaveBlockBuffers, Become
<1>51. /\ n \in Nat /\ n <= Depth
       /\ n = Depth \/ (cmd /\ n = size)
       /\ idx = n \/ (idx >= size /\ n >= size)
       /\ cmd => n <= size
  BY <1>4, Sizes, SMT DEF Least
<1>52. Level(loaded) = n BY <1>51, Made
<1>53. \A i \in 1..n : loaded[i] = IF i <= size THEN <<"tx", i>> ELSE Zero OBVIOUS
<1>54. /\ "SSEND" \notin ris /\ ris \subseteq h.ris
       /\ size > 0 => "TXDONE" \in en
       /\ "CMD" \in en <=> cmd /\ "CMD" \in h.en
  OBVIOUS
<1> HIDE DEF n, loaded, idx, en, ris
<1>6. /\ d'.mode = "BLOCK" /\ d'.txSize = size /\ d'.txIdx = idx
      /\ d'.respSize = d.respSize /\ d'.respIdx = d.respIdx /\ d'.txFrame = d.txFrame
  BY <1>2, <1>5, Zenon
<1>7. d'.cmdDone = ~cmd /\ d'.cmdHandler = cmd
  <2> DEFINE c == ~cmd
  <2>1. d' = [d EXCEPT !.mode = "BLOCK", !.cmdDone = c, !.frameHandler = FALSE,
                       !.blockHandler = TRUE, !.rxIdx = 0, !.txSize = size, !.txIdx = idx]
    BY <1>5
  <2> HIDE DEF c
  <2>2. d'.cmdDone = c /\ d'.cmdHandler = d.cmdHandler BY <2>1, <1>2, Zenon
  <2> QED BY <2>2 DEF c
<1>8. /\ h'.tx = loaded /\ h'.cnt = 0 /\ h'.lim = Threshold /\ h'.ris = ris /\ h'.en = en
  BY <1>2, <1>5, Zenon
<1>9. h'.auto = (size = 0)
  <2> DEFINE c == size = 0
  <2>1. h' = [h EXCEPT !.tx = loaded, !.rx = <<>>, !.cnt = 0, !.lim = Threshold,
                       !.auto = c, !.ris = ris, !.en = en]
    BY <1>5
  <2> HIDE DEF c
  <2>2. h'.auto = c BY <2>1, <1>2, Zenon
  <2> QED BY <2>2 DEF c
<1>10. d.mode # "FRAME" BY <1>3
<1>11. d.respSize = 0 /\ (cmd => "CMD" \in h.en /\ "CMD" \notin h.ris) BY <1>3, <1>10
<1>12. d.respIdx = 0 BY <1>2, <1>11, SMT
<1>13. Prepared'
  <2>1. /\ "CMD" \in h'.en <=> ~d'.cmdDone
        /\ ~d'.cmdHandler => d'.cmdDone
        /\ ~d'.cmdHandler \/ ~d'.cmdDone => d'.respSize = 0
        /\ d'.cmdHandler /\ d'.cmdDone => d'.respSize = RespSize
    BY <1>6, <1>7, <1>8, <1>11, <1>54
  <2>2. d'.txFrame = Zero BY <1>0, <1>6, <1>10, Zenon DEF Prepared
  <2>3. h'.lim = Threshold /\ h'.cnt < h'.lim BY <1>1, <1>8
  <2>4. d'.txSize > 0 => ~h'.auto /\ "TXDONE" \in h'.en
    <3>1. size > 0 => size # 0 BY <1>4, SMT
    <3> QED BY <3>1, <1>6, <1>8, <1>9, <1>54
  <2>5. d'.cmdHandler => d'.txSize > CmdSize BY <1>4, <1>6, <1>7
  <2>6. d'.mode # "FRAME" /\ d'.mode # "NONE" /\ d'.txSize \in TxSizes BY <1>6
  <2> QED BY <2>1, <2>2, <2>3, <2>4, <2>5, <2>6, Zenon DEF Prepared
<1>14. FrameReady' BY <1>6 DEF FrameReady
<1>15. Answers'
  <2> DEFINE y == Here'
  <2>1. y.d = d' /\ y.h = h' BY DEF Here
  <2>2. BecomesOf(y) BY <2>1 DEF BecomesOf
  <2> HIDE DEF y
  <2>3. 0 + n = n BY <1>51, SMT
  <2>4. Loaded(y, 0)
    <3>1. ASSUME NEW j \in 1..n PROVE loaded[j] = Reply(y, 0 + j)
      <4>1. j \in Nat /\ 0 + j = j BY <1>51, SMT
      <4>2. ~(j <= size) => ~(j <= size + 0) BY <4>1, <1>4, SMT
      <4>3. y.d.txSize = size /\ y.d.respSize = 0 BY <2>1, <1>6, <1>11
      <4> QED BY <4>1, <4>2, <4>3, <1>53 DEF Reply
    <3>2. Holds(y.h.tx, y, 0) BY <3>1, <2>1, <1>8, <1>52 DEF Holds
    <3>3. Least(Less(n, size), 0) = 0 BY <1>4, <1>51, SMT DEF Least, Less
    <3>4. Indexed(y, n)
      <4>1. y.d.txIdx = n \/ (y.d.txIdx >= y.d.txSize /\ n >= y.d.txSize)
        BY <1>51, <1>6, <2>1
      <4>2. y.d.respIdx = Least(Less(n, y.d.txSize), y.d.respSize)
        BY <3>3, <1>6, <1>11, <1>12, <2>1
      <4>3. y.d.cmdDone \/ n <= y.d.txSize BY <1>51, <1>6, <1>7, <2>1
      <4> QED BY <4>1, <4>2, <4>3 DEF Indexed
    <3> QED BY <3>2, <3>4, <2>1, <2>3, <1>8, <1>52 DEF Loaded
  <2>5. Fed(y, 0)
    <3>1. CASE n = Depth
      <4>1. Level(y.h.tx) + y.h.cnt >= y.h.lim
        BY <3>1, <2>1, <1>1, <1>8, <1>52, Sizes, SMT
      <4> QED BY <4>1 DEF Fed
    <3>2. CASE cmd /\ n = size
      <4>1. ~y.d.cmdDone BY <3>2, <2>1, <1>7, Zenon
      <4>2. Level(y.h.tx) = size /\ y.d.txSize = size BY <3>2, <2>1, <1>6, <1>8, <1>52
      <4>3. 0 + Level(y.h.tx) >= y.d.txSize BY <4>2, <1>4, SMT
      <4> QED BY <4>1, <4>3 DEF Fed
    <3> QED BY <3>1, <3>2, <1>51
  <2>6. Commanded(y, 0)
    <3>1. ~(0 >= CmdSize) BY SpiAssumption, SMT
    <3>2. cmd => "CMD" \notin y.h.ris /\ ~y.d.cmdDone BY <2>1, <1>7, <1>8, <1>11, <1>54
    <3> QED BY <3>1, <3>2, <2>1, <1>7, Zenon DEF Commanded
  <2>7. ~(y.d.cmdHandler /\ y.d.cmdDone) BY <2>1, <1>7
  <2> QED BY <2>2, <2>4, <2>5, <2>6, <2>7, <1>3, AnswersOf
<1> QED BY <1>3, <1>13, <1>14, <1>15 DEF Spoken

\* MSS_SPI_set_cmd_handler: the FIFO starts over with the buffer, and waits for the command.
LEMMA HandlerOnSpeaks ==
  ASSUME PacketInv, Spoken, Settles("BLOCK"), d.mode = "BLOCK" => d.txSize > 0,
         SetCmdHandler(TRUE)
  PROVE  Spoken'
<1>0. Prepared /\ Answers /\ FrameReady /\ AsSetUp BY DEF Spoken
<1>1. /\ SlaveTypes(Here) /\ Here.d = d /\ Here.h = h /\ h.cnt \in Nat
  BY WithinPacket
<1>2. DOMAIN Here = {"d", "h"} /\ DOMAIN d = DriverFields /\ DOMAIN h = HardwareFields
  BY <1>1 DEF SlaveTypes, SlaveNumbers
<1>3. /\ At' = 0 /\ ~bus'.sel /\ AsSetUp' /\ d.mode \in {"NONE", "BLOCK"} /\ d.mode # "FRAME"
  <2>1. /\ At' = 0 /\ ~bus'.sel /\ AsSetUp' /\ d.mode \in {"NONE", "BLOCK"}
    BY SettledIs
  <2> QED BY <2>1
<1> DEFINE x == [Here EXCEPT !.d.respSize = 0, !.d.respIdx = 0, !.d.cmdDone = FALSE,
                             !.d.cmdHandler = TRUE]
           r == [x EXCEPT !.d.txIdx = 0]
           f == Flushed(r)
           z == Fill(f)
           y == [z EXCEPT !.h.ris = @ \ {"CMD"}, !.h.en = @ \union {"CMD"}]
<1>4. BecomesOf(y)
  BY Zenon DEF SetCmdHandler, Become, BecomesOf
<1> HIDE DEF Here
<1>5. /\ DOMAIN r = {"d", "h"} /\ r.h = h
      /\ r.d = [d EXCEPT !.respSize = 0, !.respIdx = 0, !.cmdDone = FALSE,
                         !.cmdHandler = TRUE, !.txIdx = 0]
  <2>1. /\ DOMAIN x = {"d", "h"} /\ x.h = h
        /\ x.d = [d EXCEPT !.respSize = 0, !.respIdx = 0, !.cmdDone = FALSE,
                           !.cmdHandler = TRUE]
    BY <1>1, <1>2, Zenon
  <2> HIDE DEF x
  <2>2. DOMAIN r = {"d", "h"} /\ r.h = h /\ r.d = [x.d EXCEPT !.txIdx = 0] BY <2>1, Zenon
  <2> QED BY <2>1, <2>2
<1> HIDE DEF r
<1>6. /\ DOMAIN r.d = DriverFields /\ r.d.txSize = d.txSize /\ r.d.txIdx = 0
      /\ r.d.respSize = 0 /\ r.d.respIdx = 0 /\ r.d.txFrame = d.txFrame
  BY <1>2, <1>5, Zenon
<1>7. r.d.mode = d.mode /\ r.d.rx = d.rx /\ r.d.rxIdx = d.rxIdx BY <1>2, <1>5, Zenon
<1>8. /\ r.d.blockHandler = d.blockHandler /\ r.d.frameHandler = d.frameHandler
      /\ r.d.cmdDone = FALSE /\ r.d.cmdHandler = TRUE
  <2> DEFINE a == FALSE
             b == TRUE
  <2>1. r.d = [d EXCEPT !.respSize = 0, !.respIdx = 0, !.cmdDone = a,
                        !.cmdHandler = b, !.txIdx = 0]
    BY <1>5
  <2> HIDE DEF a, b
  <2>2. /\ r.d.blockHandler = d.blockHandler /\ r.d.frameHandler = d.frameHandler
        /\ r.d.cmdDone = a /\ r.d.cmdHandler = b
    BY <1>2, <2>1, Zenon
  <2> QED BY <2>2 DEF a, b
<1>9. SlaveTypes(r)
  <2>1. r.d.respSize \in Nat /\ r.d.respIdx \in Nat /\ r.d.txIdx \in Nat
        /\ r.d.respIdx <= r.d.respSize
    BY <1>6, SMT
  <2>2. SlaveNumbers(r)
    BY <1>1, <1>5, <1>6, <1>7, <2>1 DEF SlaveTypes, SlaveNumbers
  <2>3. SlaveFlags(r) BY <1>1, <1>8, Zenon DEF SlaveTypes, SlaveFlags
  <2> QED BY <2>2, <2>3 DEF SlaveTypes
<1>10. /\ SlaveTypes(f) /\ f.d = r.d /\ f.h.tx = <<>> /\ SameModes(r, f) /\ SameIrqs(r, f)
  BY <1>9, FlushedDoes
<1>11. f.h.auto = h.auto /\ f.h.cnt = h.cnt
  <2>1. f.h = [r.h EXCEPT !.tx = <<>>, !.rx = <<>>] BY <1>5, Zenon DEF Flushed
  <2> HIDE DEF f
  <2> QED BY <2>1, <1>2, <1>5, Zenon
<1> HIDE DEF f
<1>12. Loaded(f, 0)
  BY <1>6, <1>10, StartsLoaded
<1>13. /\ SlaveTypes(z) /\ SameModes(f, z) /\ SameIrqs(f, z)
       /\ SameSetUp(f, z) /\ SameReply(f, z) /\ z.h.cnt = f.h.cnt
       /\ Loaded(z, 0) /\ Full(z, 0)
  <2>1. 0 \in Nat BY SMT
  <2> QED BY <2>1, <1>6, <1>10, <1>12, FillDoes, FillLoads
<1> HIDE DEF z
<1>14. DOMAIN z = {"d", "h"} /\ DOMAIN z.h = HardwareFields
  BY <1>13 DEF SlaveTypes, SlaveNumbers
<1>15. y.d = z.d /\ y.h = [z.h EXCEPT !.ris = @ \ {"CMD"}, !.en = @ \union {"CMD"}]
       /\ DOMAIN y = {"d", "h"}
  BY <1>14, Zenon
<1> HIDE DEF y
<1>16. /\ y.h.tx = z.h.tx /\ y.h.cnt = z.h.cnt /\ y.h.lim = z.h.lim
       /\ y.h.ris = z.h.ris \ {"CMD"} /\ y.h.en = z.h.en \union {"CMD"}
  BY <1>14, <1>15, Zenon
<1>17. y.h.auto = z.h.auto /\ y.h.rx = z.h.rx /\ DOMAIN y.h = HardwareFields
  BY <1>14, <1>15, Zenon
<1>18. /\ d' = y.d /\ h' = y.h /\ y.d.mode = d.mode /\ y.d.txSize = d.txSize
       /\ y.d.txFrame = d.txFrame /\ y.d.respSize = 0
  BY <1>4, <1>6, <1>7, <1>10, <1>13, <1>15, Zenon
     DEF BecomesOf, SameModes, SameSetUp, SameReply
<1>19. y.d.cmdDone = FALSE /\ y.d.cmdHandler = TRUE
  BY <1>8, <1>10, <1>13, <1>15 DEF SameModes, SameReply
<1>20. /\ y.h.lim = h.lim /\ y.h.cnt = h.cnt /\ y.h.auto \in {h.auto, FALSE}
       /\ y.h.ris = h.ris \ {"CMD"} /\ y.h.en = h.en \union {"CMD"}
  <2>1. y.h.lim = h.lim /\ y.h.cnt = h.cnt
    BY <1>5, <1>10, <1>11, <1>13, <1>16 DEF SameModes
  <2>2. y.h.auto \in {h.auto, FALSE} BY <1>11, <1>13, <1>17 DEF SameSetUp
  <2>3. y.h.ris = h.ris \ {"CMD"} /\ y.h.en = h.en \union {"CMD"}
    BY <1>5, <1>10, <1>13, <1>16 DEF SameIrqs
  <2> QED BY <2>1, <2>2, <2>3
<1>21. d.mode = "BLOCK" => d.txSize > CmdSize
  <2>1. SUFFICES ASSUME d.mode = "BLOCK" PROVE d.txSize > CmdSize OBVIOUS
  <2>2. d.txSize \in TxSizes BY <1>0, <2>1, Zenon DEF Prepared
  <2>3. d.txSize > 0 BY <2>1
  <2> HIDE DEF y, z, f, r, x
  <2>4. TxSizes \subseteq {0} \union {k \in Nat : k > CmdSize} BY SpiAssumption
  <2>5. d.txSize = 0 \/ d.txSize > CmdSize BY <2>2, <2>4
  <2> QED BY <2>3, <2>5, SMT
<1>22. Prepared'
  <2>1. /\ "CMD" \in h'.en /\ ~d'.cmdDone /\ d'.cmdHandler /\ d'.respSize = 0
    BY <1>18, <1>19, <1>20
  <2>2. d'.txFrame = Zero BY <1>0, <1>3, <1>18, Zenon DEF Prepared
  <2>3. ASSUME d.mode = "BLOCK"
        PROVE  /\ h'.lim = Threshold /\ h'.cnt < h'.lim /\ d'.txSize \in TxSizes
               /\ d'.txSize > 0 => ~h'.auto /\ "TXDONE" \in h'.en
               /\ d'.txSize > CmdSize
    <3>1. /\ h.lim = Threshold /\ h.cnt < h.lim /\ d.txSize \in TxSizes
          /\ d.txSize > 0 => ~h.auto /\ "TXDONE" \in h.en
      BY <1>0, <2>3, Zenon DEF Prepared
    <3> QED BY <3>1, <2>3, <1>18, <1>20, <1>21
  <2>4. d'.mode = d.mode BY <1>18
  <2> QED BY <2>1, <2>2, <2>3, <2>4, <1>3, Zenon DEF Prepared
<1>23. FrameReady' BY <1>3, <1>18 DEF FrameReady
<1>24. CASE d.mode = "BLOCK"
  <2>1. SlaveTypes(y)
    <3>1. /\ Sequential(y.h.tx) /\ Level(y.h.tx) <= Depth /\ Sequential(y.h.rx)
          /\ Level(y.h.rx) <= Depth /\ y.h.ris \subseteq ToSet(Sources)
          /\ y.h.en \subseteq ToSet(Sources) /\ y.h.cnt \in Nat /\ y.h.lim \in Nat
      <4>1. "CMD" \in ToSet(Sources) BY SMT DEF Sources, ToSet
      <4>2. SlaveNumbers(z) BY <1>13 DEF SlaveTypes
      <4> QED BY <4>1, <4>2, <1>16, <1>17 DEF SlaveNumbers
    <3> QED BY <3>1, <1>13, <1>15, <1>17, HardwareOnly
  <2>2. SaysTheSame(z, y)
    BY <1>15, <1>16, <1>17, Zenon DEF SaysTheSame, SameSetUp, SameReply, SameLoad
  <2>3. Commanded(y, 0)
    <3>1. ~(0 >= CmdSize) BY SpiAssumption, SMT
    <3>2. "CMD" \notin y.h.ris BY <1>20
    <3> QED BY <3>1, <3>2, <1>19, Zenon DEF Commanded
  <2>4. ~(y.d.cmdHandler /\ y.d.cmdDone) BY <1>19
  <2>5. z.h.lim = h.lim BY <1>16, <1>20
  <2>6. Answers'
    BY <2>1, <2>2, <2>3, <2>4, <2>5, <1>0, <1>3, <1>4, <1>13, <1>24, AnswersAgain
  <2> QED BY <2>6, <1>3, <1>22, <1>23 DEF Spoken
<1>25. CASE d.mode = "NONE"
  <2>1. Answers' BY <1>18, <1>25 DEF Answers, Answering
  <2> QED BY <2>1, <1>3, <1>22, <1>23 DEF Spoken
<1> QED BY <1>3, <1>24, <1>25

\* Taken off, it leaves the FIFO as it is: it holds the buffer, as far as it reaches.
LEMMA HandlerOffSpeaks ==
  ASSUME PacketInv, Spoken, LongEnough, Settles("BLOCK"), d.cmdHandler = TRUE,
         SetCmdHandler(FALSE)
  PROVE  Spoken'
<1>0. Prepared /\ Answers /\ FrameReady /\ AsSetUp BY DEF Spoken
<1>1. /\ SlaveTypes(Here) /\ Here.d = d /\ Here.h = h /\ h.cnt \in Nat
      /\ Threshold \in Nat /\ Threshold <= Depth
  BY WithinPacket
<1>2. DOMAIN Here = {"d", "h"} /\ DOMAIN d = DriverFields /\ DOMAIN h = HardwareFields
  BY <1>1 DEF SlaveTypes, SlaveNumbers
<1>3. /\ At' = 0 /\ ~bus'.sel /\ AsSetUp' /\ d.mode \in {"NONE", "BLOCK"}
      /\ d.mode # "FRAME" /\ d.cmdHandler => ~d.cmdDone /\ d.respSize = 0
                                             /\ "CMD" \in h.en /\ "CMD" \notin h.ris
      /\ d.mode = "BLOCK" /\ d.txSize > 0 => Loaded(Here, 0)
  BY SettledIs
<1>31. d.mode # "FRAME" BY <1>3
<1>32. ~d.cmdDone /\ d.respSize = 0 BY <1>3, <1>31
<1> DEFINE x == [Here EXCEPT !.d.respSize = 0, !.d.respIdx = 0, !.d.cmdDone = TRUE,
                             !.d.cmdHandler = FALSE]
           y == [x EXCEPT !.h.en = @ \ {"CMD"}]
<1>4. BecomesOf(y)
  <2>1. y.d = d' /\ y.h = h' BY Zenon DEF SetCmdHandler, Become
  <2> QED BY <2>1 DEF BecomesOf
<1> HIDE DEF Here
<1>5. /\ y.h = [h EXCEPT !.en = @ \ {"CMD"}]
      /\ y.d = [d EXCEPT !.respSize = 0, !.respIdx = 0, !.cmdDone = TRUE,
                         !.cmdHandler = FALSE]
  <2>1. /\ DOMAIN x = {"d", "h"} /\ x.h = h
        /\ x.d = [d EXCEPT !.respSize = 0, !.respIdx = 0, !.cmdDone = TRUE,
                           !.cmdHandler = FALSE]
    BY <1>1, <1>2, Zenon
  <2> HIDE DEF x
  <2>2. y.d = x.d /\ y.h = [x.h EXCEPT !.en = @ \ {"CMD"}] BY <2>1, Zenon
  <2> QED BY <2>1, <2>2
<1> HIDE DEF y
<1>6. /\ y.d.txSize = d.txSize /\ y.d.txIdx = d.txIdx /\ y.d.txFrame = d.txFrame
      /\ y.d.respSize = 0 /\ y.d.respIdx = 0 /\ y.d.mode = d.mode /\ y.d.resp = d.resp
  BY <1>2, <1>5, Zenon
<1>7. y.d.cmdDone = TRUE /\ y.d.cmdHandler = FALSE
  <2> DEFINE a == TRUE
             b == FALSE
  <2>1. y.d = [d EXCEPT !.respSize = 0, !.respIdx = 0, !.cmdDone = a, !.cmdHandler = b]
    BY <1>5
  <2> HIDE DEF a, b
  <2>2. y.d.cmdDone = a /\ y.d.cmdHandler = b BY <1>2, <2>1, Zenon
  <2> QED BY <2>2 DEF a, b
<1>8. /\ y.h.tx = h.tx /\ y.h.cnt = h.cnt /\ y.h.lim = h.lim /\ y.h.ris = h.ris
      /\ y.h.en = h.en \ {"CMD"}
  <2>1. y.h = [h EXCEPT !.en = @ \ {"CMD"}] BY <1>5
  <2> QED BY <1>2, <2>1, Zenon
<1>9. y.h.auto = h.auto
  <2>1. y.h = [h EXCEPT !.en = @ \ {"CMD"}] BY <1>5
  <2> QED BY <1>2, <2>1, Zenon
<1>10. d' = y.d /\ h' = y.h BY <1>4 DEF BecomesOf
<1>11. Prepared'
  <2>1. "CMD" \notin h'.en /\ d'.cmdDone /\ ~d'.cmdHandler /\ d'.respSize = 0
    BY <1>6, <1>7, <1>8, <1>10
  <2>2. d'.txFrame = Zero BY <1>0, <1>6, <1>10, <1>31, Zenon DEF Prepared
  <2>3. ASSUME d.mode = "BLOCK"
        PROVE  /\ h'.lim = Threshold /\ h'.cnt < h'.lim /\ d'.txSize \in TxSizes
               /\ d'.txSize > 0 => ~h'.auto /\ "TXDONE" \in h'.en
    <3>1. /\ h.lim = Threshold /\ h.cnt < h.lim /\ d.txSize \in TxSizes
          /\ d.txSize > 0 => ~h.auto /\ "TXDONE" \in h.en
      BY <1>0, <2>3, Zenon DEF Prepared
    <3> QED BY <3>1, <1>6, <1>8, <1>9, <1>10
  <2>4. d'.mode = d.mode BY <1>6, <1>10
  <2> QED BY <2>1, <2>2, <2>3, <2>4, <1>31, Zenon DEF Prepared
<1>12. FrameReady' BY <1>6, <1>10, <1>31 DEF FrameReady
<1>13. CASE d.mode = "BLOCK"
  <2>1. d.txSize \in TxSizes /\ d.txSize > CmdSize /\ h.lim = Threshold
    BY <1>0, <1>13, Zenon DEF Prepared
  <2>2. d.txSize \in Nat /\ d.txSize > 0 /\ d.txSize >= Threshold
    <3>1. d.txSize \in Nat BY <1>1, Counters
    <3>2. d.txSize > 0 /\ d.txSize # 0 BY <3>1, <2>1, SpiAssumption, SMT
    <3> QED BY <3>1, <3>2, <2>1 DEF LongEnough
  <2>3. Loaded(Here, 0) BY <1>3, <1>13, <2>2
  <2>4. Level(h.tx) \in Nat /\ 0 + Level(h.tx) = Level(h.tx)
    <3>1. Level(h.tx) \in Nat BY <1>1, Counters
    <3> QED BY <3>1, SMT
  <2>5. /\ \A j \in 1..Level(h.tx) : h.tx[j] = Reply(Here, 0 + j)
        /\ d.txIdx = Level(h.tx) \/ (d.txIdx >= d.txSize /\ Level(h.tx) >= d.txSize)
        /\ d.respIdx = Least(Less(Level(h.tx), d.txSize), d.respSize)
        /\ Level(h.tx) <= d.txSize
    BY <2>3, <2>4, <1>1, <1>32 DEF Loaded, Holds, Indexed
  <2>6. Loaded(y, 0)
    <3>1. \A j \in 1..Level(h.tx) : h.tx[j] = Reply(y, 0 + j)
      BY <2>5, <1>1, <1>6, <1>32, Zenon DEF Reply
    <3>2. Holds(y.h.tx, y, 0) BY <3>1, <1>8 DEF Holds
    <3>3. Least(Less(Level(h.tx), d.txSize), 0) = 0
      BY <2>2, <2>4, SMT DEF Least, Less
    <3>4. Indexed(y, Level(h.tx)) BY <2>5, <3>3, <1>6, <1>7, Zenon DEF Indexed
    <3> QED BY <3>2, <3>4, <2>4, <1>8 DEF Loaded
  <2>7. Fed(y, 0)
    <3>1. Pending = {} /\ At = 0 /\ ~bus.sel /\ ~Clearing("SSEND") BY SettledIs
    <3>2. "TXDONE" \in h.en BY <1>0, <1>13, <2>2, Zenon DEF Prepared
    <3>3. "SSEND" \in h.en BY WithinPacket, <1>13 DEF Modes
    <3>4. "TXDONE" \notin h.ris /\ "SSEND" \notin h.ris BY <3>1, <3>2, <3>3 DEF Pending
    <3>5. Fed(Here, At) BY <3>1, <3>4, <1>0, <1>13, <2>2, Zenon DEF Answers, Answering, Over
    <3>6. Fed(Here, 0) BY <3>1, <3>5, Zenon DEF Fed
    <3>7. Level(h.tx) + h.cnt >= h.lim \/ 0 + Level(h.tx) >= d.txSize
      BY <3>4, <3>6, <1>1 DEF Fed
    <3>8. Level(h.tx) + h.cnt >= h.lim BY <3>7, <2>1, <2>2, <2>4, <1>1, SMT
    <3> QED BY <3>8, <1>8 DEF Fed
  <2>8. Commanded(y, 0) BY <1>7 DEF Commanded
  <2>9. ~(y.d.cmdHandler /\ y.d.cmdDone) BY <1>7
  <2>10. Answers' BY <2>6, <2>7, <2>8, <2>9, <1>3, <1>4, AnswersOf
  <2> QED BY <2>10, <1>3, <1>11, <1>12 DEF Spoken
<1>14. CASE d.mode = "NONE"
  <2>1. Answers' BY <1>6, <1>10, <1>14 DEF Answers, Answering
  <2> QED BY <2>1, <1>3, <1>11, <1>12 DEF Spoken
<1> QED BY <1>3, <1>13, <1>14

\* MSS_SPI_set_frame_rx_handler, before the first transaction: a frame that has been set
\* stays in the FIFO.
LEMMA FrameRxSpeaks ==
  ASSUME PacketInv, Spoken, Settles("FRAME"), bus.t = 0, SetFrameRxHandler
  PROVE  Spoken'
<1>0. Prepared /\ Answers /\ FrameReady /\ AsSetUp BY DEF Spoken
<1>1. /\ SlaveTypes(Here) /\ Here.d = d /\ Here.h = h /\ Modes BY WithinPacket
<1>2. DOMAIN d = DriverFields /\ DOMAIN h = HardwareFields /\ Sequential(h.tx)
  BY <1>1 DEF SlaveTypes, SlaveNumbers
<1>3. /\ ~bus'.sel /\ AsSetUp' /\ d.mode \in {"NONE", "FRAME"} /\ log'.fault = log.fault
      /\ d.mode = "NONE" => d.txSize = 0
      /\ ~Clearing("TXDONE")
  BY SettledIs
<1>31. h.ris = {} BY <1>1 DEF Modes
<1> HIDE DEF Here
<1> DEFINE auto == h.auto \/ h.tx = <<>>
           ris == h.ris \ {"TXURUN", "RXOVFLOW", "RXDONE"}
           en == (h.en \ {"CMD", "SSEND"}) \union {"TXURUN", "RXOVFLOW", "RXDONE"}
<1>4. /\ d' = [d EXCEPT !.blockHandler = FALSE, !.cmdHandler = FALSE, !.frameHandler = TRUE,
                        !.mode = "FRAME"]
      /\ h' = [h EXCEPT !.auto = auto, !.lim = 1, !.ris = ris, !.en = en]
  BY Zenon DEF SetFrameRxHandler
<1>5. ris = {} /\ ("TXDONE" \in h.en => "TXDONE" \in en) BY <1>31
<1> HIDE DEF auto, ris, en
<1>6. d'.mode = "FRAME" /\ d'.txSize = d.txSize /\ d'.txFrame = d.txFrame
  BY <1>2, <1>4, Zenon
<1>7. h'.tx = h.tx /\ h'.ris = ris /\ h'.en = en /\ h'.auto = auto BY <1>2, <1>4, Zenon
<1>8. d.txFrame # Zero => d.mode = "FRAME" BY <1>0, <1>3, Zenon DEF Prepared
<1>9. d.txFrame # Zero => /\ Level(h.tx) + Owed = 1
                          /\ \A j \in 1..Level(h.tx) : h.tx[j] = d.txFrame
                          /\ ~h.auto /\ "TXDONE" \in h.en
  BY <1>0, <1>3, <1>8, Zenon DEF FrameReady, AsSetUp, Prepared
<1>10. Owed = 0 /\ Owed' = 0 BY <1>5, <1>7, <1>31 DEF Owed
<1>11. Level(h.tx) \in Nat /\ (h.tx = <<>> <=> Level(h.tx) = 0) BY <1>2, SequentialIs
<1>12. d.txFrame # Zero => ~auto
  <2>1. SUFFICES ASSUME d.txFrame # Zero PROVE h.tx # <<>>
    BY <1>9, Zenon DEF auto
  <2>2. Level(h.tx) + Owed = 1 BY <2>1, <1>9
  <2>3. Level(h.tx) # 0 BY <2>2, <1>10, <1>11, SMT
  <2> QED BY <2>3, <1>11
<1>13. d'.txSize = 0
  <2>1. d.mode = "FRAME" => d.txSize = 0 BY <1>0, Zenon DEF Prepared
  <2> QED BY <2>1, <1>3, <1>6
<1>14. Prepared'
  <2>1. d'.txFrame # Zero => ~h'.auto /\ "TXDONE" \in h'.en
    BY <1>5, <1>6, <1>7, <1>9, <1>12, Zenon
  <2> QED BY <2>1, <1>6, <1>13, Zenon DEF Prepared
<1>15. FrameReady'
  <2>1. "TXURUN" \notin h'.ris BY <1>5, <1>7
  <2>2. Level(h'.tx) + Owed' = Level(h.tx) + Owed BY <1>7, <1>10
  <2> QED BY <2>1, <2>2, <1>6, <1>7, <1>9, Zenon DEF FrameReady
<1>16. Answers' BY <1>6 DEF Answers, Answering
<1> QED BY <1>3, <1>14, <1>15, <1>16 DEF Spoken

\* MSS_SPI_set_slave_tx_frame: the frame is in the FIFO.
LEMMA TxFrameSpeaks ==
  ASSUME PacketInv, Spoken, Settles("FRAME"), NEW v, SetSlaveTxFrame(v)
  PROVE  Spoken'
<1>1. SlaveTypes(Here) /\ Here.d = d /\ Here.h = h BY WithinPacket
<1>2. DOMAIN d = DriverFields /\ DOMAIN h = HardwareFields
  BY <1>1 DEF SlaveTypes, SlaveNumbers
<1>3. AsSetUp' BY SettledIs
<1> HIDE DEF Here
<1> DEFINE ris == h.ris \ {"TXURUN", "RXOVFLOW", "TXDONE"}
           en == (h.en \ {"CMD", "SSEND"}) \union {"TXDONE", "TXURUN", "RXOVFLOW"}
<1>4. /\ d' = [d EXCEPT !.mode = "FRAME", !.blockHandler = FALSE, !.cmdHandler = FALSE,
                        !.txSize = 0, !.txIdx = 0, !.txFrame = v]
      /\ h' = [h EXCEPT !.auto = FALSE, !.lim = 1, !.tx = <<v>>, !.ris = ris, !.en = en]
  BY Zenon DEF SetSlaveTxFrame
<1>5. "TXURUN" \notin ris /\ "TXDONE" \notin ris /\ "TXDONE" \in en OBVIOUS
<1> HIDE DEF ris, en
<1>6. d'.mode = "FRAME" /\ d'.txSize = 0 /\ d'.txFrame = v BY <1>2, <1>4, Zenon
<1>7. h'.tx = <<v>> /\ h'.ris = ris /\ h'.en = en BY <1>2, <1>4, Zenon
<1>8. ~h'.auto BY <1>2, <1>4, Zenon
<1>9. Prepared' BY <1>5, <1>6, <1>7, <1>8, Zenon DEF Prepared
<1>10. FrameReady'
  <2>1. Level(<<v>>) = 1 /\ <<v>>[1] = v BY Single
  <2>2. Owed' = 0 BY <1>5, <1>7, Zenon DEF Owed
  <2>3. Level(h'.tx) + Owed' = 1 BY <2>1, <2>2, <1>7, SMT
  <2>4. Level(h'.tx) = 1 /\ h'.tx[1] = d'.txFrame BY <2>1, <1>6, <1>7
  <2>5. \A j \in 1..Level(h'.tx) : j = 1 BY <2>4, SMT
  <2> QED BY <2>3, <2>4, <2>5, <1>5, <1>7, Zenon DEF FrameReady
<1>11. Answers' BY <1>6 DEF Answers, Answering
<1> QED BY <1>3, <1>9, <1>10, <1>11 DEF Spoken

\* Whatever the slave is set up for between two transactions.
LEMMA SetUpSpeaks ==
  ASSUME PacketInv, Spoken, LongEnough, Slave
  PROVE  Spoken'
<1>1. CASE SlaveBlock
  <2>1. PICK size \in TxSizes : /\ Settles("BLOCK") /\ SetSlaveBlockBuffers(size)
                                /\ d.cmdHandler => size > 0
    BY <1>1 DEF SlaveBlock
  <2> QED BY <2>1, BuffersSpeak
<1>2. CASE SlaveCmd
  <2>1. PICK on \in BOOLEAN : /\ Settles("BLOCK") /\ SetCmdHandler(on) /\ on # d.cmdHandler
                              /\ (on /\ d.mode = "BLOCK") => d.txSize > 0
    BY <1>2, Zenon DEF SlaveCmd
  <2>2. CASE on = TRUE
    <3>1. SetCmdHandler(TRUE) /\ (d.mode = "BLOCK" => d.txSize > 0) BY <2>1, <2>2
    <3> QED BY <3>1, <2>1, HandlerOnSpeaks
  <2>3. CASE on = FALSE
    <3>1. SetCmdHandler(FALSE) BY <2>1, <2>3
    <3>2. d.cmdHandler \in BOOLEAN
      <4>1. SlaveFlags(Here) /\ Here.d = d BY WithinPacket DEF SlaveTypes
      <4> QED BY <4>1, Zenon DEF SlaveFlags
    <3>3. d.cmdHandler = TRUE BY <3>2, <2>1, <2>3
    <3> QED BY <3>1, <3>3, <2>1, HandlerOffSpeaks
  <2> QED BY <2>2, <2>3
<1>3. CASE SlaveFrameRx
  BY <1>3, FrameRxSpeaks DEF SlaveFrameRx
<1>4. CASE SlaveFrameTx
  <2>1. PICK i \in 1..2 : Settles("FRAME") /\ SetSlaveTxFrame(<<"f", i>>)
    BY <1>4 DEF SlaveFrameTx
  <2> QED BY <2>1, TxFrameSpeaks
<1> QED BY <1>1, <1>2, <1>3, <1>4 DEF Slave

---------------------------------------------------------------------------
(* The bus and the master's selection.                                     *)

\* What a frame on the bus changes at the slave.
LEMMA ShiftIs ==
  ASSUME PacketInv, Shift
  PROVE  /\ bus.sel /\ bus'.sel /\ bus'.n = bus.n + 1 /\ bus'.t = bus.t /\ d' = d
         /\ d.mode \in {"BLOCK", "FRAME"}
         /\ h'.tx = (IF h.tx = <<>> THEN h.tx ELSE Tail(h.tx))
         /\ h'.cnt = (IF h.cnt + 1 = h.lim THEN 0 ELSE h.cnt + 1)
         /\ h'.lim = h.lim /\ h'.en = h.en /\ h'.auto = h.auto
         /\ h'.ris = h.ris \union Raised \union (IF Underrun THEN {"TXURUN"} ELSE {})
                           \union (IF Overrun THEN {"RXOVFLOW"} ELSE {})
         /\ log'.with = log.with /\ log'.sent = Append(log.sent, Head(m.tx))
         /\ ~log'.fault => ~log.fault /\ ~(Underrun /\ ~Quiet)
<1>1. /\ DOMAIN log = {"sent", "got", "missed", "fault", "with"}
      /\ DOMAIN bus = {"sel", "n", "t"}
      /\ SlaveTypes(Here) /\ Here.h = h /\ Modes /\ d.mode \in {"NONE", "BLOCK", "FRAME"}
  BY WithinPacket
<1>2. DOMAIN h = HardwareFields BY <1>1 DEF SlaveTypes, SlaveNumbers
<1>3. bus.sel /\ d' = d BY DEF Shift
<1>4. d.mode \in {"BLOCK", "FRAME"} BY <1>1, <1>3 DEF Modes
<1>5. bus' = [bus EXCEPT !.n = @ + 1] BY DEF Shift
<1>6. bus'.sel = bus.sel /\ bus'.n = bus.n + 1 /\ bus'.t = bus.t BY <1>1, <1>5, Zenon
<1> DEFINE tx == IF h.tx = <<>> THEN h.tx ELSE Tail(h.tx)
           rx == IF Overrun THEN h.rx ELSE Append(h.rx, Head(m.tx))
           cnt == IF h.cnt + 1 = h.lim THEN 0 ELSE h.cnt + 1
           ris == h.ris \union Raised \union (IF Underrun THEN {"TXURUN"} ELSE {})
                        \union (IF Overrun THEN {"RXOVFLOW"} ELSE {})
           fault == log.fault \/ Overrun \/ (Underrun /\ ~Quiet)
<1>7. h' = [h EXCEPT !.tx = tx, !.rx = rx, !.cnt = cnt, !.ris = ris] BY DEF Shift
<1>8. log' = [log EXCEPT !.sent = Append(log.sent, Head(m.tx)), !.fault = fault] BY DEF Shift
<1> HIDE DEF tx, rx, cnt, ris, fault
<1>9. h'.tx = tx /\ h'.cnt = cnt /\ h'.lim = h.lim /\ h'.en = h.en /\ h'.ris = ris
  BY <1>2, <1>7, Zenon
<1>10. h'.auto = h.auto BY <1>2, <1>7, Zenon
<1>11. log'.with = log.with /\ log'.sent = Append(log.sent, Head(m.tx)) /\ log'.fault = fault
  BY <1>1, <1>8, Zenon
<1>12. ~log'.fault => ~log.fault /\ ~(Underrun /\ ~Quiet) BY <1>11 DEF fault
<1> QED BY <1>3, <1>4, <1>6, <1>9, <1>10, <1>11, <1>12 DEF tx, cnt, ris

\* The first frame of the transaction, from which the command is, stays the first.
LEMMA FirstStays ==
  ASSUME PacketInv, Shift, bus.n >= 1, d.mode = "BLOCK"
  PROVE  log'.sent[1] = log.sent[1]
<1>1. bus.n \in Nat /\ Level(log.sent) = bus.n /\ Sequential(log.sent) BY WithinPacket
<1>2. 1 \in 1..Level(log.sent) BY <1>1, SMT
<1>3. PICK e : e = Head(m.tx) OBVIOUS
<1>4. log'.sent = Append(log.sent, e) BY <1>3, ShiftIs
<1>5. Sequential(log.sent) BY <1>1
<1>6. \A i \in 1..Level(log.sent) : Append(log.sent, e)[i] = log.sent[i]
  BY <1>5, Appended
<1> QED BY <1>2, <1>4, <1>6

\* As long as the slave is in time its FIFO is never empty when a frame is shifted: the
\* interrupt that asks for more comes before the last.
LEMMA ShiftIsFed ==
  ASSUME PacketInv, Spoken, Shift, ~log'.fault, d.mode = "BLOCK", d.txSize > 0
  PROVE  /\ h.tx # <<>> /\ Loaded(Here, bus.n) /\ Fed(Here, bus.n) /\ Commanded(Here, bus.n)
         /\ "TXURUN" \notin h.ris /\ ~Underrun
         /\ d.cmdHandler /\ d.cmdDone => d.resp = log.sent[1]
<1>0. Prepared /\ Answers BY DEF Spoken
<1>1. /\ SlaveTypes(Here) /\ Here.d = d /\ Here.h = h /\ bus.n \in Nat /\ h.cnt \in Nat
      /\ h.lim \in Nat
  BY WithinPacket
<1> HIDE DEF Here
<1>2. bus.sel /\ ~log.fault /\ ~(Underrun /\ ~Quiet) BY ShiftIs
<1>3. At = bus.n BY <1>2 DEF At
<1>4. /\ Loaded(Here, bus.n) /\ Fed(Here, bus.n) /\ Commanded(Here, bus.n)
      /\ "TXURUN" \notin h.ris
      /\ d.cmdHandler /\ d.cmdDone => d.resp = log.sent[1]
  <2>1. Answering BY <1>2 DEF Answering
  <2>2. /\ Loaded(Here, At) /\ Fed(Here, At) /\ Commanded(Here, At)
        /\ "TXURUN" \notin h.ris
        /\ d.cmdHandler /\ d.cmdDone => d.resp = log.sent[1]
    BY <2>1, <1>0, <1>2, Zenon DEF Answers
  <2> QED BY <2>2, <1>3
<1>5. ~h.auto /\ "TXDONE" \in h.en /\ h.cnt < h.lim BY <1>0, Zenon DEF Prepared
<1>6. h.tx # <<>>
  <2>1. SUFFICES ASSUME h.tx = <<>> PROVE FALSE OBVIOUS
  <2>2. Underrun BY <2>1, <1>5 DEF Underrun
  <2>3. Pending = {} BY <2>2, <1>2 DEF Quiet
  <2>4. "TXDONE" \notin h.ris BY <2>3, <1>5 DEF Pending
  <2>5. Level(h.tx) = 0 BY <2>1, Empty
  <2>6. ~(Level(h.tx) + h.cnt >= h.lim) BY <2>5, <1>1, <1>5, SMT
  <2>7. ~d.cmdDone /\ bus.n + Level(h.tx) >= d.txSize
    BY <2>4, <2>6, <1>1, <1>4 DEF Fed
  <2>8. d.cmdHandler BY <2>7, <1>0, Zenon DEF Prepared
  <2>9. d.txSize > CmdSize BY <2>8, <1>0, Zenon DEF Prepared
  <2>10. bus.n >= CmdSize
    <3>1. d.txSize \in Nat BY <1>1, Counters
    <3> QED BY <3>1, <2>5, <2>7, <2>9, <1>1, Sizes, SMT
  <2>11. "CMD" \in h.ris BY <2>7, <2>8, <2>10, <1>1, <1>4, Zenon DEF Commanded
  <2>12. "CMD" \in h.en BY <2>7, <1>0, Zenon DEF Prepared
  <2> QED BY <2>3, <2>11, <2>12 DEF Pending
<1>7. ~Underrun BY <1>6 DEF Underrun
<1> QED BY <1>4, <1>6, <1>7

\* The same for the frame of frame mode.
LEMMA ShiftHasFrame ==
  ASSUME PacketInv, Spoken, Shift, ~log'.fault, d.mode = "FRAME", d.txFrame # Zero
  PROVE  /\ h.tx # <<>> /\ Level(h.tx) = 1 /\ h.tx[1] = d.txFrame
         /\ "TXURUN" \notin h.ris /\ ~Underrun
<1>0. Prepared /\ FrameReady BY DEF Spoken
<1>1. SlaveTypes(Here) /\ Here.h = h BY WithinPacket
<1>2. ~log.fault /\ ~(Underrun /\ ~Quiet) BY ShiftIs
<1>3. /\ Level(h.tx) + Owed = 1 \/ (h.tx = <<>> /\ Clearing("TXDONE"))
      /\ "TXURUN" \notin h.ris
      /\ \A j \in 1..Level(h.tx) : h.tx[j] = d.txFrame
  BY <1>0, <1>2, Zenon DEF FrameReady
<1>4. ~h.auto /\ "TXDONE" \in h.en BY <1>0, Zenon DEF Prepared
<1>5. Sequential(h.tx) /\ Level(h.tx) \in Nat BY <1>1, Counters
<1>6. h.tx # <<>>
  <2>1. SUFFICES ASSUME h.tx = <<>> PROVE FALSE OBVIOUS
  <2>2. Underrun BY <2>1, <1>4 DEF Underrun
  <2>3. Pending = {} /\ isr = 0 BY <2>2, <1>2 DEF Quiet
  <2>4. "TXDONE" \notin h.ris BY <2>3, <1>4 DEF Pending
  <2>5. Level(h.tx) = 0 BY <2>1, Empty
  <2>6. Owed = 0 BY <2>4 DEF Owed
  <2>7. ~Clearing("TXDONE")
    <3>1. ~(0 > NSources) BY ClearsNothing
    <3> QED BY <3>1, <2>3 DEF Clearing
  <2>8. Level(h.tx) + Owed = 1 BY <2>7, <1>3
  <2> QED BY <2>5, <2>6, <2>8, SMT
<1>7. Level(h.tx) = 1
  <2>1. Level(h.tx) # 0 BY <1>5, <1>6, SequentialIs
  <2>2. Owed \in {0, 1} BY DEF Owed
  <2>3. Level(h.tx) + Owed = 1 BY <1>3, <1>6
  <2> QED BY <2>1, <2>2, <2>3, <1>5, SMT
<1>8. h.tx[1] = d.txFrame
  <2>1. 1 \in 1..Level(h.tx) BY <1>7, SMT
  <2> QED BY <2>1, <1>3
<1> QED BY <1>3, <1>6, <1>7, <1>8 DEF Underrun

\* A frame on the bus: the rest of what the slave has to say is in the FIFO.
LEMMA ShiftSpeaks ==
  ASSUME PacketInv, Spoken, Shift
  PROVE  Spoken'
<1>0. Prepared /\ Answers /\ FrameReady /\ AsSetUp BY DEF Spoken
<1>1. /\ SlaveTypes(Here) /\ Here.d = d /\ Here.h = h /\ bus.n \in Nat /\ h.cnt \in Nat
      /\ h.lim \in Nat /\ Sequential(log.sent) /\ Modes
  BY WithinPacket
<1> HIDE DEF Here
<1>2. /\ bus.sel /\ bus'.sel /\ bus'.n = bus.n + 1 /\ bus'.t = bus.t /\ d' = d
      /\ d.mode \in {"BLOCK", "FRAME"}
      /\ h'.tx = (IF h.tx = <<>> THEN h.tx ELSE Tail(h.tx))
      /\ h'.cnt = (IF h.cnt + 1 = h.lim THEN 0 ELSE h.cnt + 1)
      /\ h'.lim = h.lim /\ h'.en = h.en /\ h'.auto = h.auto
      /\ h'.ris = h.ris \union Raised \union (IF Underrun THEN {"TXURUN"} ELSE {})
                        \union (IF Overrun THEN {"RXOVFLOW"} ELSE {})
      /\ log'.with = log.with /\ log'.sent = Append(log.sent, Head(m.tx))
      /\ ~log'.fault => ~log.fault /\ ~(Underrun /\ ~Quiet)
  BY ShiftIs
<1>3. Prepared'
  <2>1. d.mode = "BLOCK" => h'.cnt < h'.lim
    <3>1. SUFFICES ASSUME d.mode = "BLOCK" PROVE h'.cnt < h'.lim OBVIOUS
    <3>2. h.cnt < h.lim BY <1>0, <3>1, Zenon DEF Prepared
    <3>3. CASE h.cnt + 1 = h.lim
      <4>1. h'.cnt = 0 /\ h'.lim = h.lim BY <1>2, <3>3
      <4> QED BY <4>1, <3>2, <1>1, SMT
    <3>4. CASE h.cnt + 1 # h.lim
      <4>1. h'.cnt = h.cnt + 1 /\ h'.lim = h.lim BY <1>2, <3>4
      <4> QED BY <4>1, <3>2, <3>4, <1>1, SMT
    <3> QED BY <3>3, <3>4
  <2> QED BY <2>1, <1>0, <1>2, Zenon DEF Prepared
<1>4. AsSetUp'
  <2>1. bus'.t # 0 BY <1>1, <1>2 DEF Modes
  <2> QED BY <2>1, <1>0, <1>2, Zenon DEF AsSetUp
<1>5. h.tx # <<>> =>
        /\ Level(h'.tx) = Level(h.tx) - 1 /\ Level(h.tx) \in Nat /\ Level(h.tx) >= 1
        /\ \A j \in 1..(Level(h.tx) - 1) : h'.tx[j] = h.tx[j + 1]
  <2>1. SUFFICES ASSUME h.tx # <<>>
                 PROVE  /\ Level(h'.tx) = Level(h.tx) - 1 /\ Level(h.tx) \in Nat
                        /\ Level(h.tx) >= 1
                        /\ \A j \in 1..(Level(h.tx) - 1) : h'.tx[j] = h.tx[j + 1]
    OBVIOUS
  <2>2. Sequential(h.tx) /\ Level(h.tx) \in Nat BY <1>1, Counters
  <2>3. h'.tx = Tail(h.tx) BY <2>1, <1>2
  <2> QED BY <2>1, <2>2, <2>3, Behead
<1>6. FrameReady'
  <2>1. SUFFICES ASSUME d'.mode = "FRAME", d'.txFrame # Zero, ~log'.fault
                 PROVE  /\ (Level(h.tx) + Owed = 1 \/ (h.tx = <<>> /\ Clearing("TXDONE")))'
                        /\ "TXURUN" \notin h'.ris
                        /\ \A j \in 1..Level(h'.tx) : h'.tx[j] = d'.txFrame
    BY DEF FrameReady
  <2>2. /\ h.tx # <<>> /\ Level(h.tx) = 1 /\ "TXURUN" \notin h.ris /\ ~Underrun
    BY <2>1, <1>2, ShiftHasFrame
  <2>3. Level(h'.tx) = 0 BY <2>2, <1>5, SMT
  <2>4. h.cnt + 1 = h.lim
    <3>1. h.lim = 1 /\ h.cnt = 0 BY <2>1, <1>1, <1>2 DEF Modes
    <3> QED BY <3>1, SMT
  <2>5. "TXDONE" \in Raised /\ "TXURUN" \notin Raised BY <2>4 DEF Raised
  <2>6. "TXDONE" \in h'.ris /\ "TXURUN" \notin h'.ris BY <2>2, <2>5, <1>2
  <2>7. (Level(h.tx) + Owed = 1 \/ (h.tx = <<>> /\ Clearing("TXDONE")))'
    <3>1. CASE Clearing("TXDONE")'
      <4>1. Sequential(h.tx) /\ Sequential(h'.tx)
        <5>1. Sequential(h.tx) BY <1>1, Counters
        <5>2. h'.tx = Tail(h.tx) BY <2>2, <1>2
        <5> QED BY <5>1, <5>2, <2>2, Behead
      <4>2. h'.tx = <<>> BY <4>1, <2>3, SequentialIs
      <4> QED BY <3>1, <4>2
    <3>2. CASE ~Clearing("TXDONE")'
      <4>1. Owed' = 1 BY <3>2, <2>6, Zenon DEF Owed
      <4>2. Level(h'.tx) + Owed' = 1 BY <2>3, <4>1, SMT
      <4> QED BY <4>2
    <3> QED BY <3>1, <3>2
  <2>9. \A j \in 1..Level(h'.tx) : h'.tx[j] = d'.txFrame BY <2>3, SMT
  <2> QED BY <2>6, <2>7, <2>9
<1>7. ASSUME Answering' PROVE Answers'
  <2>1. d.mode = "BLOCK" /\ d.txSize > 0 /\ ~log'.fault BY <1>2, <1>7 DEF Answering
  <2>2. /\ h.tx # <<>> /\ Loaded(Here, bus.n) /\ Fed(Here, bus.n) /\ Commanded(Here, bus.n)
        /\ "TXURUN" \notin h.ris /\ ~Underrun
        /\ d.cmdHandler /\ d.cmdDone => d.resp = log.sent[1]
    BY <2>1, ShiftIsFed
  <2>3. /\ Level(h'.tx) = Level(h.tx) - 1 /\ Level(h.tx) \in Nat /\ Level(h.tx) >= 1
        /\ \A j \in 1..(Level(h.tx) - 1) : h'.tx[j] = h.tx[j + 1]
    BY <2>2, <1>5
  <2> DEFINE y == Here'
             n == bus.n + 1
  <2>4. y.d = d /\ y.h = h' BY <1>2 DEF Here
  <2>5. BecomesOf(y) BY <2>4, <1>2 DEF BecomesOf
  <2>6. n = At' BY <1>2 DEF At
  <2> HIDE DEF y
  <2>7. n \in Nat /\ n + Level(h'.tx) = bus.n + Level(h.tx) BY <2>3, <1>1, SMT
  <2>8. Loaded(y, n)
    <3>1. /\ \A j \in 1..Level(h.tx) : h.tx[j] = Reply(Here, bus.n + j)
          /\ Indexed(Here, bus.n + Level(h.tx))
      BY <2>2, <1>1 DEF Loaded, Holds
    <3>2. ASSUME NEW j \in 1..Level(h'.tx) PROVE h'.tx[j] = Reply(y, n + j)
      <4>1. /\ j \in 1..(Level(h.tx) - 1) /\ j + 1 \in 1..Level(h.tx)
            /\ bus.n + (j + 1) = n + j
        BY <2>3, <1>1, SMT
      <4>2. h'.tx[j] = h.tx[j + 1] BY <4>1, <2>3
      <4>3. h.tx[j + 1] = Reply(Here, bus.n + (j + 1)) BY <4>1, <3>1
      <4>4. Reply(Here, n + j) = Reply(y, n + j) BY <2>4, <1>1 DEF Reply
      <4> QED BY <4>1, <4>2, <4>3, <4>4
    <3>3. Holds(y.h.tx, y, n) BY <3>2, <2>4 DEF Holds
    <3> HIDE DEF n
    <3>4. Indexed(Here, n + Level(h'.tx)) BY <3>1, <2>7
    <3>5. Indexed(y, n + Level(h'.tx)) BY <3>4, <2>4, <1>1 DEF Indexed
    <3> QED BY <3>3, <3>5, <2>4 DEF Loaded
  <2>9. Fed(y, n)
    <3>1. CASE h.cnt + 1 = h.lim
      <4>1. "TXDONE" \in Raised BY <3>1 DEF Raised
      <4>2. "TXDONE" \in y.h.ris BY <4>1, <2>4, <1>2
      <4> QED BY <4>2 DEF Fed
    <3>2. CASE h.cnt + 1 # h.lim
      <4>1. h'.cnt = h.cnt + 1 /\ h'.lim = h.lim BY <3>2, <1>2
      <4>2. CASE "TXDONE" \in h.ris
        <5>1. "TXDONE" \in y.h.ris BY <4>2, <2>4, <1>2
        <5> QED BY <5>1 DEF Fed
      <4>3. CASE Level(h.tx) + h.cnt >= h.lim
        <5>1. Level(h'.tx) + h'.cnt >= h'.lim BY <4>1, <4>3, <2>3, <1>1, SMT
        <5> QED BY <5>1, <2>4 DEF Fed
      <4>4. CASE ~d.cmdDone /\ bus.n + Level(h.tx) >= d.txSize
        <5>1. n + Level(h'.tx) >= d.txSize BY <4>4, <2>7
        <5> QED BY <5>1, <4>4, <2>4 DEF Fed
      <4> QED BY <4>2, <4>3, <4>4, <2>2, <1>1 DEF Fed
    <3> QED BY <3>1, <3>2
  <2>10. Commanded(y, n)
    <3>1. SUFFICES ASSUME d.cmdHandler
                   PROVE  "CMD" \in h'.ris \/ d.cmdDone <=> n >= CmdSize
      BY <2>4, Zenon DEF Commanded
    <3>2. "CMD" \in h.ris \/ d.cmdDone <=> bus.n >= CmdSize
      BY <3>1, <2>2, <1>1, Zenon DEF Commanded
    <3>3. "CMD" \in h'.ris <=> "CMD" \in h.ris \/ bus.n + 1 = CmdSize
      <4>1. "CMD" \in Raised <=> bus.n + 1 = CmdSize BY DEF Raised
      <4> QED BY <4>1, <1>2
    <3>4. n >= CmdSize <=> bus.n >= CmdSize \/ bus.n + 1 = CmdSize BY <1>1, Sizes, SMT
    <3> QED BY <3>2, <3>3, <3>4, Zenon
  <2>11. "TXURUN" \notin y.h.ris
    <3>1. "TXURUN" \notin Raised BY DEF Raised
    <3> QED BY <3>1, <2>2, <2>4, <1>2
  <2>12. y.d.cmdHandler /\ y.d.cmdDone => y.d.resp = log'.sent[1]
    <3>1. SUFFICES ASSUME d.cmdHandler, d.cmdDone PROVE d.resp = log'.sent[1]
      BY <2>4
    <3>2. d.resp = log.sent[1] BY <3>1, <2>2
    <3>3. bus.n >= CmdSize BY <3>1, <2>2, <1>1, Zenon DEF Commanded
    <3>4. bus.n >= 1 BY <3>3, <1>1, SpiAssumption, SMT
    <3>5. log'.sent[1] = log.sent[1] BY <3>4, <2>1, FirstStays
    <3> QED BY <3>2, <3>5
  <2> QED BY <2>5, <2>6, <2>8, <2>9, <2>10, <2>11, <2>12, AnswersOf
<1>8. Answers' BY <1>7 DEF Answers
<1> QED BY <1>3, <1>4, <1>6, <1>8 DEF Spoken

\* A patient master selects the slave when it has its answer ready.
LEMMA SelectSpeaks ==
  ASSUME PacketInv, Spoken, Select, Patient
  PROVE  Spoken'
<1>0. Prepared /\ Answers /\ FrameReady /\ AsSetUp /\ WireInv BY DEF Spoken, PacketInv
<1>1. Here.d = d /\ Here.h = h /\ Modes BY WithinPacket
<1>2. /\ m.pc = "idle" /\ Pending = {} /\ d' = d /\ h' = h /\ isr = 0 /\ isr' = 0
      /\ bus' = [sel |-> TRUE, n |-> 0, t |-> bus.t + 1]
      /\ log' = [sent |-> IF d.mode = "FRAME" THEN h.rx ELSE <<>>, got |-> <<>>,
                 missed |-> log.missed, fault |-> log.fault /\ d.mode = "FRAME",
                 with |-> [size |-> d.txSize, cmd |-> d.cmdHandler, frame |-> d.txFrame]]
  BY DEF Select, Patient, Quiet
<1>21. \A s : ~Clearing(s) /\ ~Clearing(s)'
  <2>1. ~(0 > NSources) BY ClearsNothing
  <2> QED BY <2>1, <1>2 DEF Clearing
<1>3. ~bus.sel BY <1>0, <1>2 DEF WireInv, MasterSide, Counted
<1>4. bus'.sel /\ bus'.n = 0 BY <1>2
<1>5. log'.fault = (log.fault /\ d.mode = "FRAME") BY <1>2, Zenon
<1>6. log'.with = [size |-> d.txSize, cmd |-> d.cmdHandler, frame |-> d.txFrame]
  BY <1>2, Zenon
<1>7. bus'.t # 0
  <2>1. bus'.t = bus.t + 1 BY <1>2
  <2>2. bus.t \in 0..MaxTrans BY <1>0 DEF WireInv, MasterSide, MasterTypes, MasterNumbers
  <2>3. bus.t \in Nat BY <2>2, Sizes, SMT
  <2> QED BY <2>1, <2>3, SMT
<1>8. Prepared' BY <1>0, <1>2, Zenon DEF Prepared
<1>9. AsSetUp' BY <1>2, <1>6, <1>7, Zenon DEF AsSetUp
<1>10. FrameReady'
  <2>1. Owed' = Owed BY <1>2, <1>21, Zenon DEF Owed
  <2> QED BY <2>1, <1>0, <1>2, <1>5, <1>21, Zenon DEF FrameReady
<1>11. ASSUME Answering' PROVE Answers'
  <2>1. d.mode = "BLOCK" /\ d.txSize > 0 BY <1>2, <1>11 DEF Answering
  <2>2. "SSEND" \notin h.ris /\ "TXURUN" \notin h.ris BY <1>1, <1>2, <2>1 DEF Modes, Pending
  <2>3. Answering BY <1>3, <2>1, <2>2 DEF Answering, Over
  <2>4. At = 0 /\ At' = 0 BY <1>3, <1>4 DEF At
  <2>5. Loaded(Here, At) /\ Fed(Here, At) /\ Commanded(Here, At) BY <1>0, <2>3, Zenon DEF Answers
  <2>6. PICK y : y = Here OBVIOUS
  <2> HIDE DEF Here
  <2>7. y.d = d /\ y.h = h /\ BecomesOf(y) BY <1>1, <1>2, <2>6 DEF BecomesOf
  <2>8. PICK n : n = 0 OBVIOUS
  <2>9. n = At' /\ Loaded(y, n) /\ Fed(y, n) /\ Commanded(y, n) BY <2>4, <2>5, <2>6, <2>8
  <2>10. ~(y.d.cmdHandler /\ y.d.cmdDone)
    <3>1. ~(n >= CmdSize) BY <2>8, SpiAssumption, SMT
    <3> QED BY <3>1, <2>9, Zenon DEF Commanded
  <2> QED BY <2>2, <2>7, <2>9, <2>10, AnswersOf
<1>12. Answers' BY <1>11 DEF Answers
<1> QED BY <1>8, <1>9, <1>10, <1>12 DEF Spoken

\* The end of the transaction takes what is left of the answer.
LEMMA DeselectSpeaks ==
  ASSUME PacketInv, Spoken, Deselect
  PROVE  Spoken' /\ ~Answering'
<1>0. Prepared /\ FrameReady /\ AsSetUp /\ Ends BY DEF Spoken, PacketInv
<1>1. SlaveTypes(Here) /\ Here.h = h /\ DOMAIN bus = {"sel", "n", "t"} BY WithinPacket
<1>2. DOMAIN h = HardwareFields BY <1>1 DEF SlaveTypes, SlaveNumbers
<1>3. /\ bus' = [bus EXCEPT !.sel = FALSE] /\ h' = [h EXCEPT !.ris = @ \union {"SSEND"}]
      /\ d' = d /\ log' = log /\ isr' = isr /\ m.pc = "ready"
  BY DEF Deselect
<1>31. \A s : Clearing(s)' <=> Clearing(s) BY <1>3 DEF Clearing
<1>4. /\ h'.tx = h.tx /\ h'.ris = h.ris \union {"SSEND"} /\ h'.en = h.en /\ h'.lim = h.lim
      /\ h'.cnt = h.cnt
  BY <1>2, <1>3, Zenon
<1>5. h'.auto = h.auto BY <1>2, <1>3, Zenon
<1>6. bus'.t = bus.t /\ ~bus'.sel BY <1>1, <1>3, Zenon
<1>7. Prepared' BY <1>0, <1>3, <1>4, <1>5, Zenon DEF Prepared
<1>8. AsSetUp' BY <1>0, <1>3, <1>6, Zenon DEF AsSetUp
<1>9. FrameReady'
  <2>1. "TXDONE" \in h'.ris <=> "TXDONE" \in h.ris BY <1>4
  <2>2. "TXURUN" \in h'.ris <=> "TXURUN" \in h.ris BY <1>4
  <2>3. Owed' = Owed BY <2>1, <1>31, Zenon DEF Owed
  <2> QED BY <2>2, <2>3, <1>0, <1>3, <1>31, <1>4, Zenon DEF FrameReady
<1>10. ~Answering'
  <2>1. bus.sel BY <1>3 DEF PacketInv, WireInv, MasterSide, Counted
  <2>2. d.mode = "BLOCK" => ~Clearing("SSEND")' BY <1>0, <1>31, <2>1 DEF Ends
  <2> QED BY <2>2, <1>3, <1>4, <1>6 DEF Answering, Over
<1> QED BY <1>7, <1>8, <1>9, <1>10 DEF Spoken, Answers

\* A slave that is not set up has nothing to say.
LEMMA InitSpeaks == Init => Spoken
<1> SUFFICES ASSUME Init PROVE Spoken
  OBVIOUS
<1>1. /\ d.mode = "NONE" /\ ~d.cmdHandler /\ d.cmdDone /\ d.respSize = 0 /\ d.txFrame = Zero
      /\ h.en = {}
  BY DEF Init, DInit, HInit
<1>2. ~bus.sel /\ ~log.fault BY DEF Init
<1>3. Prepared BY <1>1 DEF Prepared
<1>4. AsSetUp BY <1>2 DEF AsSetUp
<1>5. FrameReady BY <1>1 DEF FrameReady
<1>6. Answers BY <1>1 DEF Answers, Answering
<1> QED BY <1>3, <1>4, <1>5, <1>6 DEF Spoken

\* Every step keeps what the slave has to say.
LEMMA SpokenStep ==
  ASSUME PacketInv, Spoken, Served, [Next]_vars, Patient, LongEnough
  PROVE  Spoken' /\ Served'
<1>1. /\ TransferBlock \/ BlockTurn \/ TransferFrame \/ TxDone \/ RxReady \/ Dma
         \/ UNCHANGED vars => UNCHANGED <<d, h, log, bus>> /\ isr' = isr
      /\ IsrStarts \/ IsrSkips => UNCHANGED <<d, h, log, bus>> /\ isr \in 0..6 /\ isr' \in 0..6
  <2>1. TransferBlock \/ BlockTurn \/ TransferFrame \/ TxDone \/ RxReady \/ Dma
        \/ UNCHANGED vars => UNCHANGED <<d, h, log, bus>> /\ isr' = isr
    BY DEF TransferBlock, BlockTurn, TransferFrame, TxDone, RxReady, Dma,
           Disable, SetTransferByteCount, DmaMoves, Enable, DmaDone, vars
  <2>2. NSources = 6 BY SMT DEF NSources, Sources
  <2>3. IsrStarts => UNCHANGED <<d, h, log, bus>> /\ isr = 0 /\ isr' = 1 BY DEF IsrStarts
  <2>4. IsrSkips => UNCHANGED <<d, h, log, bus>> /\ isr \in 1..6 /\ isr' = After(isr)
    BY <2>2 DEF IsrSkips
  <2>5. \A i \in 1..6 : After(i) \in 0..6 /\ i \in 0..6 BY <2>2, SMT DEF After
  <2>6. 0 \in 0..6 /\ 1 \in 0..6 BY SMT
  <2> QED BY <2>1, <2>3, <2>4, <2>5, <2>6
<1>2. ASSUME UNCHANGED <<d, h, log, bus>>, \A s : Clearing(s)' <=> Clearing(s)
      PROVE  Spoken' /\ Served'
  <2>1. Here' = Here /\ At' = At BY <1>2 DEF Here, At
  <2> HIDE DEF Here
  <2>2. Prepared' /\ AsSetUp' BY <1>2, Zenon DEF Spoken, Prepared, AsSetUp
  <2>3. FrameReady'
    <3>1. Owed' = Owed BY <1>2, Zenon DEF Owed
    <3> QED BY <3>1, <1>2, Zenon DEF Spoken, FrameReady
  <2>4. Answering' <=> Answering BY <1>2, Zenon DEF Answering, Over
  <2>5. Answers' BY <1>2, <2>1, <2>4, Zenon DEF Spoken, Answers, Loaded, Holds, Reply,
                                                Indexed, Fed, Commanded
  <2>6. Served' BY <1>2, <2>4, Zenon DEF Served, Starved
  <2> QED BY <2>2, <2>3, <2>5, <2>6 DEF Spoken
<1>3. isr' \in 0..6 => Served'
  <2>1. isr' \in 0..6 => ~(isr' > NSources) BY ClearsNothing
  <2> QED BY <2>1 DEF Served, Clearing
<1>4. CASE UNCHANGED <<d, h, log, bus>> /\ isr' = isr
  <2>1. \A s : Clearing(s)' <=> Clearing(s) BY <1>4 DEF Clearing
  <2> QED BY <2>1, <1>2, <1>4
<1>5. CASE UNCHANGED <<d, h, log, bus>> /\ isr \in 0..6 /\ isr' \in 0..6
  <2>1. ~(isr > NSources) /\ ~(isr' > NSources) BY <1>5, ClearsNothing
  <2>2. \A s : Clearing(s)' <=> Clearing(s) BY <2>1 DEF Clearing
  <2> QED BY <2>2, <1>2, <1>5
<1>6. CASE Slave
  <2>1. isr' = 0
    BY <1>6 DEF Slave, SlaveBlock, SlaveCmd, SlaveFrameRx, SlaveFrameTx, Settles, Quiet
  <2>2. isr' \in 0..6 BY <2>1, SMT
  <2> QED BY <2>2, <1>3, <1>6, SetUpSpeaks
<1>7. CASE IsrServes BY <1>7, ServesSpeaks
<1>8. CASE IsrClears BY <1>8, ClearsSpeaks
<1>9. CASE Shift
  <2>1. d' = d /\ bus'.sel BY <1>9, ShiftIs
  <2>2. isr' = isr BY <1>9 DEF Shift
  <2>3. Served' BY <2>1, <2>2, Zenon DEF Served, Clearing
  <2> QED BY <2>3, <1>9, ShiftSpeaks
<1>10. CASE Select
  <2>1. isr' = 0 BY <1>10 DEF Select, Patient, Quiet
  <2>2. isr' \in 0..6 BY <2>1, SMT
  <2> QED BY <2>2, <1>3, <1>10, SelectSpeaks
<1>11. CASE Deselect
  <2>1. d' = d /\ isr' = isr BY <1>11 DEF Deselect
  <2>2. Spoken' /\ ~Answering' BY <1>11, DeselectSpeaks
  <2>3. Served' BY <2>1, <2>2, Zenon DEF Served, Clearing
  <2> QED BY <2>2, <2>3
<1> QED BY <1>1, <1>4, <1>5, <1>6, <1>7, <1>8, <1>9, <1>10, <1>11, Zenon
        DEF Next, Isr, Master

---------------------------------------------------------------------------
(* What the master hears of it.                                            *)

\* What the slave has to say at a place, and what a master hears, of a given transaction.
Told(mode, with, first, p) ==
  IF mode = "FRAME" THEN with.frame
  ELSE IF p <= with.size THEN <<"tx", p>>
  ELSE IF with.cmd /\ p - with.size <= RespSize THEN <<"resp", first, p - with.size>>
  ELSE Zero
Hears(x, mode, with, first) ==
  /\ x.pc = "block" =>
       \A j \in 1..Level(x.rx) : x.rx[j] = Told(mode, with, first, x.base + x.xfer + j)
  /\ x.pc \in {"txdone", "rxready"} => \A j \in 1..Level(x.rx) : x.rx[j] = with.frame
  /\ x.pc \in {"block", "ready"} =>
       \A i \in 1..Level(x.rd) : x.rd[i] = Told(mode, with, first, x.base + x.w + i)
Tells(with) == with.size > 0 \/ with.frame # Zero

\* Reads, in those terms, of the state and of the next one.
LEMMA ReadsIs ==
  /\ Reads <=> (bus.sel /\ ~log.fault /\ Tells(log.with) =>
                  Hears(m, d.mode, log.with, log.sent[1]))
  /\ Reads' <=> (bus'.sel /\ ~log'.fault /\ Tells(log'.with) =>
                   Hears(m', d'.mode, log'.with, log'.sent[1]))
BY Zenon DEF Reads, HasToSay, Tells, Hears, Said, Told

\* What the proof about the master uses of the types.
LEMMA WithinMaster ==
  ASSUME PacketInv
  PROVE  /\ MasterNumbers /\ DOMAIN m = MasterFields /\ Counted /\ OnTheirWay /\ MasterTypes
         /\ Level(m.rx) \in Nat /\ Sequential(m.rx) /\ Level(m.rx) <= Depth
         /\ Level(m.tx) \in Nat /\ Sequential(m.tx) /\ (m.tx = <<>> <=> Level(m.tx) = 0)
         /\ m.w \in Nat /\ m.r \in Nat /\ m.base \in Nat /\ m.xfer \in Nat
         /\ m.pc \in {"idle", "ready", "block", "txdone", "rxready", "disabled", "started",
                      "dma"}
<1>1. MasterTypes /\ Counted /\ OnTheirWay BY DEF PacketInv, WireInv, MasterSide
<1>2. MasterNumbers BY <1>1 DEF MasterTypes
<1>3. Sequential(m.rx) /\ Sequential(m.tx) BY <1>2 DEF MasterNumbers
<1>4. Level(m.rx) \in Nat /\ Level(m.tx) \in Nat /\ (m.tx = <<>> <=> Level(m.tx) = 0)
  BY <1>3, SequentialIs
<1> QED BY <1>1, <1>2, <1>3, <1>4 DEF MasterNumbers

\* A step of the slave changes nothing of that.
LEMMA HeardStays ==
  ASSUME Heard, UNCHANGED <<m, bus>>, d'.mode = d.mode,
         log'.sent = log.sent, log'.with = log.with, log.fault => log'.fault
  PROVE  Heard'
<1>1. InMode' BY Zenon DEF Heard, InMode
<1>2. Reads'
  <2>1. SUFFICES ASSUME bus'.sel /\ ~log'.fault /\ Tells(log'.with)
                 PROVE  Hears(m', d'.mode, log'.with, log'.sent[1])
    BY ReadsIs
  <2>2. bus.sel /\ ~log.fault /\ Tells(log.with) BY <2>1
  <2>3. Hears(m, d.mode, log.with, log.sent[1]) BY <2>2, ReadsIs DEF Heard
  <2> QED BY <2>3
<1> QED BY <1>1, <1>2 DEF Heard

\* A step of the master that leaves it with nothing received.
LEMMA HeardNothing ==
  ASSUME m'.pc \in {"disabled", "started", "dma", "idle", "ready"},
         m'.pc # "idle" => m'.rd = <<>>
  PROVE  Heard'
<1>1. Sequential(<<>>) /\ Level(<<>>) = 0 BY Empty
<1>2. InMode' BY <1>1, Zenon DEF InMode
<1>3. Hears(m', d'.mode, log'.with, log'.sent[1])
  <2>1. SUFFICES ASSUME m'.pc = "ready", NEW i \in 1..Level(m'.rd) PROVE FALSE
    BY DEF Hears
  <2>2. Level(m'.rd) = 0 BY <2>1, <1>1
  <2> QED BY <2>1, <2>2, SMT
<1>4. Reads' BY <1>3, ReadsIs
<1> QED BY <1>2, <1>4 DEF Heard

\* The loop sends the next frame.
LEMMA SendingKeeps ==
  ASSUME NEW x, NEW n \in Nat, Loops(x, n)
  PROVE  LET y == SendNext(x)
         IN /\ y.pc = x.pc /\ y.rx = x.rx /\ y.rd = x.rd /\ y.xfer = x.xfer /\ y.w = x.w
            /\ y.base = x.base
<1>1. CASE SendNext(x) = x BY <1>1
<1>2. CASE \E e : SendNext(x) = [x EXCEPT !.tx = Append(@, e), !.txi = @ + 1,
                                          !.transit = @ + 1]
  <2>1. PICK e : SendNext(x) = [x EXCEPT !.tx = Append(@, e), !.txi = @ + 1, !.transit = @ + 1]
    BY <1>2
  <2> DEFINE y == SendNext(x)
  <2>2. y = [x EXCEPT !.tx = Append(@, e), !.txi = @ + 1, !.transit = @ + 1] BY <2>1
  <2> HIDE DEF y
  <2>3. y.pc = x.pc /\ y.rx = x.rx /\ y.rd = x.rd /\ y.xfer = x.xfer /\ y.w = x.w
    BY <2>2, SMT DEF Loops
  <2>4. y.base = x.base BY <2>2, SMT DEF Loops
  <2> QED BY <2>3, <2>4 DEF y
<1> QED BY <1>1, <1>2, NextIsSent DEF Loops

\* It receives one, and reads it when it has written.
LEMMA ReceivingHears ==
  ASSUME NEW x, NEW n \in Nat, Loops(x, n), x.xfer < x.w + x.r, Sequential(x.rd),
         Level(x.rd) = Less(x.xfer, x.w)
  PROVE  LET y == Receive(x)
         IN /\ y.pc = "block" /\ Sequential(y.rd) /\ Level(y.rd) = Less(y.xfer, y.w)
            /\ \A mode, with, first :
                 Hears(x, mode, with, first) => Hears(y, mode, with, first)
<1>0. x.pc = "block" BY DEF Loops
<1>1. CASE x.rx = <<>>
  <2>1. Receive(x) = x BY <1>1 DEF Receive
  <2> QED BY <2>1, <1>0
<1>2. CASE x.rx # <<>>
  <2> DEFINE y == Receive(x)
             rd == IF x.xfer >= x.w /\ Len(x.rd) < x.r THEN Append(x.rd, Head(x.rx)) ELSE x.rd
  <2>1. y = [x EXCEPT !.rx = Tail(@), !.xfer = @ + 1, !.transit = @ - 1, !.rd = rd]
    BY <1>2 DEF Receive, Loops
  <2>2. rd = IF x.xfer >= x.w /\ Level(x.rd) < x.r THEN Append(x.rd, Head(x.rx)) ELSE x.rd
    BY DEF Level
  <2> HIDE DEF rd, y
  <2>3. /\ y.pc = "block" /\ y.w = x.w /\ y.xfer = x.xfer + 1 /\ y.base = x.base
        /\ y.rx = Tail(x.rx)
    BY <2>1, SMT DEF Loops
  <2>4. y.rd = rd BY <2>1, SMT DEF Loops
  <2>5. /\ Sequential(x.rx) /\ x.w \in Nat /\ x.r \in Nat /\ x.xfer \in Nat /\ x.base \in Nat
        /\ Level(x.rd) \in Nat /\ Level(x.rx) \in Nat
    BY SequentialIs DEF Loops
  <2>6. /\ Level(y.rx) = Level(x.rx) - 1 /\ Level(x.rx) >= 1 /\ Head(x.rx) = x.rx[1]
        /\ \A j \in 1..(Level(x.rx) - 1) : y.rx[j] = x.rx[j + 1]
    BY <2>3, <2>5, <1>2, Behead
  <2>7. ASSUME NEW mode, NEW with, NEW first, Hears(x, mode, with, first),
               NEW j \in 1..Level(y.rx)
        PROVE  y.rx[j] = Told(mode, with, first, y.base + y.xfer + j)
    <3>1. /\ j \in 1..(Level(x.rx) - 1) /\ j + 1 \in 1..Level(x.rx)
          /\ x.base + x.xfer + (j + 1) = x.base + (x.xfer + 1) + j
      BY <2>5, <2>6, SMT
    <3>2. x.rx[j + 1] = Told(mode, with, first, x.base + x.xfer + (j + 1))
      BY <3>1, <2>7, <1>0, Zenon DEF Hears
    <3> QED BY <3>1, <3>2, <2>3, <2>6
  <2>8. CASE x.xfer >= x.w
    <3>1. Level(x.rd) = x.xfer - x.w BY <2>8, <2>5, SMT DEF Less
    <3>2. Level(x.rd) < x.r BY <3>1, <2>5, SMT
    <3>3. PICK e : e = Head(x.rx) OBVIOUS
    <3>4. rd = Append(x.rd, e) BY <2>2, <2>8, <3>2, <3>3
    <3>5. /\ Sequential(Append(x.rd, e)) /\ Level(Append(x.rd, e)) = Level(x.rd) + 1
          /\ \A i \in 1..Level(x.rd) : Append(x.rd, e)[i] = x.rd[i]
          /\ Append(x.rd, e)[Level(x.rd) + 1] = e
      BY Appended
    <3>6. Sequential(y.rd) /\ Level(y.rd) = Level(x.rd) + 1 BY <3>4, <3>5, <2>4
    <3>7. Less(x.xfer + 1, x.w) = Level(x.rd) + 1 BY <3>1, <2>8, <2>5, SMT DEF Less
    <3>8. Level(y.rd) = Less(y.xfer, y.w) BY <3>6, <3>7, <2>3
    <3>9. ASSUME NEW mode, NEW with, NEW first, Hears(x, mode, with, first),
                 NEW i \in 1..Level(y.rd)
          PROVE  y.rd[i] = Told(mode, with, first, y.base + y.w + i)
      <4>1. i \in 1..Level(x.rd) \/ i = Level(x.rd) + 1 BY <3>6, <2>5, SMT
      <4>2. CASE i \in 1..Level(x.rd)
        <5>1. y.rd[i] = x.rd[i] BY <4>2, <3>4, <3>5, <2>4
        <5>2. x.rd[i] = Told(mode, with, first, x.base + x.w + i)
          BY <4>2, <3>9, <1>0, Zenon DEF Hears
        <5> QED BY <5>1, <5>2, <2>3
      <4>3. CASE i = Level(x.rd) + 1
        <5>1. y.rd[i] = x.rx[1] BY <4>3, <3>3, <3>4, <3>5, <2>4, <2>6
        <5>2. 1 \in 1..Level(x.rx) BY <2>5, <2>6, SMT
        <5>3. x.rx[1] = Told(mode, with, first, x.base + x.xfer + 1)
          BY <5>2, <3>9, <1>0, Zenon DEF Hears
        <5>4. x.base + x.xfer + 1 = x.base + x.w + i BY <4>3, <3>1, <2>5, SMT
        <5> QED BY <5>1, <5>3, <5>4, <2>3
      <4> QED BY <4>1, <4>2, <4>3
    <3>10. ASSUME NEW mode, NEW with, NEW first, Hears(x, mode, with, first)
           PROVE  Hears(y, mode, with, first)
      <4>1. \A j \in 1..Level(y.rx) : y.rx[j] = Told(mode, with, first, y.base + y.xfer + j)
        BY <3>10, <2>7
      <4>2. \A i \in 1..Level(y.rd) : y.rd[i] = Told(mode, with, first, y.base + y.w + i)
        BY <3>10, <3>9
      <4> QED BY <4>1, <4>2, <2>3, Zenon DEF Hears
    <3> QED BY <3>6, <3>8, <3>10, <2>3 DEF y
  <2>9. CASE ~(x.xfer >= x.w)
    <3>1. y.rd = x.rd BY <2>2, <2>4, <2>9
    <3>2. Less(x.xfer, x.w) = 0 /\ Less(x.xfer + 1, x.w) = 0 BY <2>5, <2>9, SMT DEF Less
    <3>3. Level(y.rd) = Less(y.xfer, y.w) /\ Level(y.rd) = 0 BY <3>1, <3>2, <2>3
    <3>4. \A i \in 1..Level(y.rd) : FALSE BY <3>3, SMT
    <3>5. ASSUME NEW mode, NEW with, NEW first, Hears(x, mode, with, first)
          PROVE  Hears(y, mode, with, first)
      <4>1. \A j \in 1..Level(y.rx) : y.rx[j] = Told(mode, with, first, y.base + y.xfer + j)
        BY <3>5, <2>7
      <4>2. \A i \in 1..Level(y.rd) : y.rd[i] = Told(mode, with, first, y.base + y.w + i)
        BY <3>4
      <4> QED BY <4>1, <4>2, <2>3, Zenon DEF Hears
    <3> QED BY <3>1, <3>3, <3>5, <2>3 DEF y
  <2> QED BY <2>8, <2>9
<1> QED BY <1>1, <1>2

\* In block mode, as long as the slave is in time, the frame that it shifts out is the
\* next of what it has to say.
LEMMA NextIsSaid ==
  ASSUME PacketInv, Spoken, Shift, ~log'.fault, d.mode = "BLOCK", Tells(log.with)
  PROVE  /\ h.tx # <<>>
         /\ Head(h.tx) = Told(d.mode, log.with, log'.sent[1], bus.n + 1)
<1>0. Prepared /\ AsSetUp BY DEF Spoken
<1>1. /\ SlaveTypes(Here) /\ Here.d = d /\ Here.h = h /\ bus.n \in Nat
      /\ Level(log.sent) = bus.n /\ Sequential(log.sent)
  BY WithinPacket
<1> HIDE DEF Here
<1>2. bus.sel /\ log'.sent = Append(log.sent, Head(m.tx)) BY ShiftIs
<1>3. log.with = [size |-> d.txSize, cmd |-> d.cmdHandler, frame |-> d.txFrame]
  BY <1>0, <1>2 DEF AsSetUp
<1>4. log.with.size = d.txSize /\ log.with.cmd = d.cmdHandler /\ log.with.frame = d.txFrame
  BY <1>3
<1>5. /\ d.txFrame = Zero
      /\ ~d.cmdHandler \/ ~d.cmdDone => d.respSize = 0
      /\ d.cmdHandler /\ d.cmdDone => d.respSize = RespSize
      /\ ~d.cmdHandler => d.cmdDone
  BY <1>0, Zenon DEF Prepared
<1>6. d.txSize > 0 BY <1>4, <1>5 DEF Tells
<1>7. /\ h.tx # <<>> /\ Loaded(Here, bus.n) /\ Commanded(Here, bus.n)
      /\ d.cmdHandler /\ d.cmdDone => d.resp = log.sent[1]
  BY <1>6, ShiftIsFed
<1>8. d.txSize \in Nat /\ d.respSize \in Nat /\ RespSize \in Nat /\ Sequential(h.tx)
      /\ Level(h.tx) \in Nat
  BY <1>1, Counters, Sizes
<1>9. Level(h.tx) >= 1 /\ Head(h.tx) = h.tx[1] BY <1>7, <1>8, Behead
<1>10. h.tx[1] = Reply(Here, bus.n + 1)
  <2>1. 1 \in 1..Level(h.tx) BY <1>8, <1>9, SMT
  <2>2. \A j \in 1..Level(h.tx) : h.tx[j] = Reply(Here, bus.n + j)
    BY <1>1, <1>7 DEF Loaded, Holds
  <2> QED BY <2>1, <2>2
<1>11. Reply(Here, bus.n + 1) =
         IF bus.n + 1 <= d.txSize THEN <<"tx", bus.n + 1>>
         ELSE IF bus.n + 1 <= d.txSize + d.respSize
                THEN <<"resp", d.resp, (bus.n + 1) - d.txSize>>
         ELSE Zero
  BY <1>1 DEF Reply
<1>12. Told(d.mode, log.with, log'.sent[1], bus.n + 1) =
         IF bus.n + 1 <= d.txSize THEN <<"tx", bus.n + 1>>
         ELSE IF d.cmdHandler /\ (bus.n + 1) - d.txSize <= RespSize
                THEN <<"resp", log'.sent[1], (bus.n + 1) - d.txSize>>
         ELSE Zero
  BY <1>4 DEF Told
<1>13. CASE bus.n + 1 <= d.txSize BY <1>7, <1>9, <1>10, <1>11, <1>12, <1>13
<1>14. CASE ~(bus.n + 1 <= d.txSize)
  <2>1. d.cmdDone
    <3>1. SUFFICES ASSUME ~d.cmdDone PROVE FALSE OBVIOUS
    <3>2. Indexed(Here, bus.n + Level(h.tx)) BY <1>1, <1>7 DEF Loaded
    <3>3. bus.n + Level(h.tx) <= d.txSize BY <3>1, <3>2, <1>1, Zenon DEF Indexed
    <3> QED BY <3>3, <1>1, <1>8, <1>9, <1>14, SMT
  <2>2. CASE d.cmdHandler
    <3>1. d.respSize = RespSize /\ d.resp = log.sent[1] BY <2>1, <2>2, <1>5, <1>7
    <3>2. bus.n >= CmdSize BY <2>1, <2>2, <1>1, <1>7, Zenon DEF Commanded
    <3>3. bus.n >= 1 BY <3>2, <1>1, SpiAssumption, SMT
    <3>4. log'.sent[1] = log.sent[1] BY <3>3, FirstStays
    <3>5. bus.n + 1 <= d.txSize + d.respSize <=> (bus.n + 1) - d.txSize <= RespSize
      BY <3>1, <1>1, <1>8, SMT
    <3> QED BY <3>1, <3>4, <3>5, <2>2, <1>7, <1>9, <1>10, <1>11, <1>12, <1>14, Zenon
  <2>3. CASE ~d.cmdHandler
    <3>1. d.respSize = 0 BY <2>3, <1>5
    <3>2. ~(bus.n + 1 <= d.txSize + d.respSize) BY <3>1, <1>1, <1>8, <1>14, SMT
    <3> QED BY <3>2, <2>3, <1>7, <1>9, <1>10, <1>11, <1>12, <1>14, Zenon
  <2> QED BY <2>2, <2>3
<1> QED BY <1>13, <1>14

\* In frame mode it is the frame.
LEMMA FrameIsSaid ==
  ASSUME PacketInv, Spoken, Shift, ~log'.fault, d.mode = "FRAME", Tells(log.with)
  PROVE  h.tx # <<>> /\ Head(h.tx) = log.with.frame
<1>0. Prepared /\ AsSetUp BY DEF Spoken
<1>1. SlaveTypes(Here) /\ Here.h = h BY WithinPacket
<1>2. bus.sel BY ShiftIs
<1>3. log.with = [size |-> d.txSize, cmd |-> d.cmdHandler, frame |-> d.txFrame]
  BY <1>0, <1>2 DEF AsSetUp
<1>4. log.with.size = d.txSize /\ log.with.frame = d.txFrame BY <1>3
<1>5. d.txSize = 0 BY <1>0, Zenon DEF Prepared
<1>6. d.txFrame # Zero
  <2>1. ~(log.with.size > 0) BY <1>4, <1>5, SMT
  <2> QED BY <2>1, <1>4 DEF Tells
<1>7. h.tx # <<>> /\ h.tx[1] = d.txFrame BY <1>6, ShiftHasFrame
<1>8. Sequential(h.tx) BY <1>1, Counters
<1> QED BY <1>4, <1>7, <1>8, Behead

\* What a frame on the bus changes at the master.
LEMMA ShiftAtMaster ==
  ASSUME PacketInv, Shift
  PROVE  /\ m.tx # <<>> /\ m.pc \in {"block", "txdone", "started", "dma"}
         /\ m'.pc = m.pc /\ m'.w = m.w /\ m'.xfer = m.xfer /\ m'.base = m.base /\ m'.rd = m.rd
         /\ h.tx # <<>> => m'.rx = IF Level(m.rx) < Depth THEN Append(m.rx, Head(h.tx)) ELSE m.rx
<1>1. /\ DOMAIN m = MasterFields /\ Counted
      /\ m.pc \in {"idle", "ready", "block", "txdone", "rxready", "disabled", "started", "dma"}
  BY WithinMaster
<1>2. m.tx # <<>> BY DEF Shift
<1>3. m.pc \in {"block", "txdone", "started", "dma"} BY <1>1, <1>2 DEF Counted
<1> DEFINE in == IF h.tx # <<>> THEN Head(h.tx) ELSE IF h.auto THEN Zero ELSE None
           rx == IF Level(m.rx) < Depth THEN Append(m.rx, in) ELSE m.rx
           left == Less(m.left, 1)
           ovf == m.ovf \/ Level(m.rx) = Depth
<1>4. m' = [m EXCEPT !.tx = Tail(@), !.left = left, !.rx = rx, !.ovf = ovf]
  BY DEF Shift, Level
<1>5. h.tx # <<>> => rx = IF Level(m.rx) < Depth THEN Append(m.rx, Head(h.tx)) ELSE m.rx
  OBVIOUS
<1> HIDE DEF in, rx, left, ovf
<1>6. m'.pc = m.pc /\ m'.w = m.w /\ m'.xfer = m.xfer /\ m'.base = m.base /\ m'.rd = m.rd
  BY <1>1, <1>4, Zenon
<1>7. m'.rx = rx BY <1>1, <1>4, Zenon
<1> QED BY <1>2, <1>3, <1>5, <1>6, <1>7

\* A frame on the bus: the master receives it behind those it has, where it is said.
LEMMA ShiftHears ==
  ASSUME PacketInv, Spoken, Heard, Shift
  PROVE  Heard'
<1>1. /\ m.tx # <<>> /\ m.pc \in {"block", "txdone", "started", "dma"}
      /\ m'.pc = m.pc /\ m'.w = m.w /\ m'.xfer = m.xfer /\ m'.base = m.base /\ m'.rd = m.rd
      /\ h.tx # <<>> => m'.rx = IF Level(m.rx) < Depth THEN Append(m.rx, Head(h.tx)) ELSE m.rx
  BY ShiftAtMaster
<1>2. /\ bus.sel /\ d' = d /\ log'.with = log.with /\ (~log'.fault => ~log.fault)
      /\ log'.sent = Append(log.sent, Head(m.tx))
  BY ShiftIs
<1>3. InMode' BY <1>1, <1>2, Zenon DEF Heard, InMode
<1>4. /\ Counted /\ OnTheirWay /\ Level(m.rx) \in Nat /\ Sequential(m.rx)
      /\ Level(m.rx) <= Depth /\ Level(m.tx) \in Nat /\ (m.tx = <<>> <=> Level(m.tx) = 0)
      /\ m.w \in Nat /\ m.base \in Nat /\ m.xfer \in Nat
  BY WithinMaster
<1>5. bus.n \in Nat /\ Sequential(log.sent) BY WithinPacket
<1>6. ASSUME ~log'.fault, Tells(log'.with)
      PROVE  Hears(m', d'.mode, log'.with, log'.sent[1])
  <2>1. Hears(m, d.mode, log.with, log.sent[1])
    BY <1>2, <1>6, ReadsIs DEF Heard
  <2> DEFINE e == Head(h.tx)
  <2>2. /\ Sequential(Append(m.rx, e)) /\ Level(Append(m.rx, e)) = Level(m.rx) + 1
        /\ \A j \in 1..Level(m.rx) : Append(m.rx, e)[j] = m.rx[j]
        /\ Append(m.rx, e)[Level(m.rx) + 1] = e
    BY <1>4, Appended
  <2> HIDE DEF e
  <2>3. CASE m.pc = "block"
    <3>1. d.mode = "BLOCK" /\ Level(m.rd) = Less(m.xfer, m.w)
      BY <2>3 DEF Heard, InMode
    <3>2. /\ h.tx # <<>> /\ e = Told(d.mode, log.with, log'.sent[1], bus.n + 1)
      BY <3>1, <1>2, <1>6, NextIsSaid DEF e
    <3>3. /\ bus.n + Level(m.tx) = m.base + m.txi /\ m.xfer + m.transit = m.txi
          /\ m.transit = Level(m.tx) + Level(m.rx) /\ m.transit <= InFlight
      BY <2>3, <1>4 DEF Counted, Behind, OnTheirWay
    <3>4. m.txi \in Nat /\ m.transit \in Nat BY WithinMaster DEF MasterNumbers
    <3>5. bus.n = m.base + m.xfer + Level(m.rx) BY <3>3, <3>4, <1>4, <1>5, SMT
    <3>6. Level(m.rx) < Depth BY <3>3, <1>1, <1>4, Sizes, SMT
    <3>7. m'.rx = Append(m.rx, e) BY <3>2, <3>6, <1>1 DEF e
    <3>8. bus.n >= 1 => log'.sent[1] = log.sent[1] BY <3>1, FirstStays
    <3>9. ASSUME NEW j \in 1..Level(m'.rx)
          PROVE  m'.rx[j] = Told(d.mode, log.with, log'.sent[1], m.base + m.xfer + j)
      <4>1. j \in 1..Level(m.rx) \/ j = Level(m.rx) + 1 BY <3>7, <2>2, <1>4, SMT
      <4>2. CASE j \in 1..Level(m.rx)
        <5>1. bus.n >= 1 BY <4>2, <3>5, <1>4, SMT
        <5>2. m.rx[j] = Told(d.mode, log.with, log.sent[1], m.base + m.xfer + j)
          BY <4>2, <2>1, <2>3, Zenon DEF Hears
        <5> QED BY <5>1, <5>2, <4>2, <3>7, <3>8, <2>2
      <4>3. CASE j = Level(m.rx) + 1
        <5>1. m.base + m.xfer + j = bus.n + 1 BY <4>3, <3>5, <1>4, SMT
        <5> QED BY <5>1, <4>3, <3>2, <3>7, <2>2
      <4> QED BY <4>1, <4>2, <4>3
    <3>10. ASSUME NEW i \in 1..Level(m'.rd)
           PROVE  m'.rd[i] = Told(d.mode, log.with, log'.sent[1], m.base + m.w + i)
      <4>1. i \in 1..Level(m.rd) BY <1>1
      <4>2. bus.n >= 1
        <5>1. Less(m.xfer, m.w) \in Nat /\ (Less(m.xfer, m.w) >= 1 => m.xfer >= 1)
          BY <1>4, SMT DEF Less
        <5>2. m.xfer >= 1 BY <5>1, <4>1, <3>1, SMT
        <5> QED BY <5>2, <3>5, <1>4, SMT
      <4>3. m.rd[i] = Told(d.mode, log.with, log.sent[1], m.base + m.w + i)
        BY <4>1, <2>1, <2>3, Zenon DEF Hears
      <4> QED BY <4>2, <4>3, <3>8, <1>1
    <3>11. \A j \in 1..Level(m'.rx) :
              m'.rx[j] = Told(d'.mode, log'.with, log'.sent[1], m'.base + m'.xfer + j)
      BY <3>9, <1>1, <1>2
    <3>12. \A i \in 1..Level(m'.rd) :
              m'.rd[i] = Told(d'.mode, log'.with, log'.sent[1], m'.base + m'.w + i)
      BY <3>10, <1>1, <1>2
    <3>13. m'.pc = "block" BY <2>3, <1>1
    <3> QED BY <3>11, <3>12, <3>13, Zenon DEF Hears
  <2>4. CASE m.pc = "txdone"
    <3>1. d.mode = "FRAME" BY <2>4 DEF Heard, InMode
    <3>2. h.tx # <<>> /\ e = log.with.frame BY <3>1, <1>2, <1>6, FrameIsSaid DEF e
    <3>3. m'.rx = Append(m.rx, e) \/ m'.rx = m.rx BY <3>2, <1>1 DEF e
    <3>4. ASSUME NEW j \in 1..Level(m'.rx) PROVE m'.rx[j] = log.with.frame
      <4>1. \A i \in 1..Level(m.rx) : m.rx[i] = log.with.frame
        BY <2>1, <2>4, Zenon DEF Hears
      <4>2. CASE m'.rx = m.rx BY <4>1, <4>2
      <4>3. CASE m'.rx = Append(m.rx, e)
        <5>1. j \in 1..Level(m.rx) \/ j = Level(m.rx) + 1 BY <4>3, <2>2, <1>4, SMT
        <5> QED BY <5>1, <4>1, <4>3, <3>2, <2>2
      <4> QED BY <3>3, <4>2, <4>3
    <3>5. \A j \in 1..Level(m'.rx) : m'.rx[j] = log'.with.frame BY <3>4, <1>2
    <3>6. m'.pc = "txdone" BY <2>4, <1>1
    <3> QED BY <3>5, <3>6, Zenon DEF Hears
  <2>5. CASE m.pc \in {"started", "dma"} BY <2>5, <1>1 DEF Hears
  <2> QED BY <2>3, <2>4, <2>5, <1>1
<1>7. Reads' BY <1>6, ReadsIs
<1> QED BY <1>3, <1>7 DEF Heard

\* A turn of the loop.
LEMMA TurnHears ==
  ASSUME PacketInv, Heard, BlockTurn
  PROVE  Heard'
<1>1. m.pc = "block" /\ UNCHANGED <<d, bus, log>> BY DEF BlockTurn
<1>2. /\ MasterTypes /\ MasterNumbers /\ Counted /\ OnTheirWay /\ Level(m.rx) \in Nat
      /\ Level(m.tx) \in Nat /\ DOMAIN m = MasterFields
  BY WithinMaster
<1>3. bus.n \in Nat BY WithinPacket
<1>4. Loops(m, bus.n)
  BY <1>1, <1>2, <1>3, SMT DEF Loops, MasterTypes, MasterNumbers, Counted, Behind, OnTheirWay
<1>5. TransferSize(m.w, m.r) = m.w + m.r BY <1>4, NothingWraps DEF Loops
<1>6. d.mode = "BLOCK" /\ Level(m.rd) = Less(m.xfer, m.w) /\ Sequential(m.rd)
  BY <1>1 DEF Heard, InMode
<1>7. CASE m.xfer < m.w + m.r
  <2> DEFINE y == Receive(m)
  <2>1. /\ y.pc = "block" /\ Sequential(y.rd) /\ Level(y.rd) = Less(y.xfer, y.w)
        /\ \A mode, with, first : Hears(m, mode, with, first) => Hears(y, mode, with, first)
    BY <1>3, <1>4, <1>6, <1>7, ReceivingHears
  <2>2. Loops(y, bus.n) BY <1>3, <1>4, ReceivingLoops
  <2>3. m' = y \/ m' = SendNext(y) BY <1>1, <1>5, <1>7 DEF BlockTurn
  <2> HIDE DEF y
  <2>4. /\ m'.pc = y.pc /\ m'.rx = y.rx /\ m'.rd = y.rd /\ m'.xfer = y.xfer /\ m'.w = y.w
        /\ m'.base = y.base
    BY <2>2, <2>3, <1>3, SendingKeeps
  <2>5. InMode' BY <2>1, <2>4, <1>1, <1>6, Zenon DEF InMode
  <2>6. ASSUME Hears(m, d.mode, log.with, log.sent[1])
        PROVE  Hears(m', d.mode, log.with, log.sent[1])
    <3>1. Hears(y, d.mode, log.with, log.sent[1]) BY <2>1, <2>6
    <3> QED BY <3>1, <2>4, Zenon DEF Hears
  <2>7. Reads' BY <2>6, <1>1, ReadsIs DEF Heard
  <2> QED BY <2>5, <2>7 DEF Heard
<1>8. CASE ~(m.xfer < m.w + m.r)
  <2>1. m' = [m EXCEPT !.pc = "ready"] BY <1>1, <1>5, <1>8 DEF BlockTurn
  <2>2. m'.pc = "ready" /\ m'.rd = m.rd /\ m'.w = m.w /\ m'.base = m.base
    BY <2>1, <1>2, Zenon
  <2>3. InMode' BY <2>2, <1>6, Zenon DEF InMode
  <2>4. ASSUME Hears(m, d.mode, log.with, log.sent[1])
        PROVE  Hears(m', d.mode, log.with, log.sent[1])
    BY <2>2, <2>4, <1>1, Zenon DEF Hears
  <2>5. Reads' BY <2>4, <1>1, ReadsIs DEF Heard
  <2> QED BY <2>3, <2>5 DEF Heard
<1> QED BY <1>7, <1>8

\* The start of a block, with nothing received.
LEMMA BlockHears ==
  ASSUME PacketInv, TransferBlock
  PROVE  Heard'
<1>1. bus.n \in Nat /\ DOMAIN m = MasterFields /\ m.ovf \in BOOLEAN
  BY WithinPacket, WithinMaster DEF MasterTypes
<1>2. PICK b \in Blocks :
        /\ d.mode = "BLOCK" /\ UNCHANGED <<d, bus, log>>
        /\ m' = LET size == TransferSize(b.w, b.r)
                    x == MasterRecovered(MasterFlushed(m))
                IN SendNext([x EXCEPT !.pc = "block", !.w = b.w, !.r = b.r, !.txi = 0,
                                      !.xfer = 0, !.transit = 0, !.rd = <<>>,
                                      !.base = bus.n,
                                      !.left = IF size = 0 THEN 1 ELSE size, !.on = TRUE])
  BY DEF TransferBlock
<1>3. b.w \in Nat /\ b.r \in Nat /\ b.w + b.r < Wrap BY SpiAssumption
<1>4. Level(<<>>) = 0 /\ Sequential(<<>>) BY Empty
<1> DEFINE f == MasterFlushed(m)
           x == MasterRecovered(f)
           left == IF TransferSize(b.w, b.r) = 0 THEN 1 ELSE TransferSize(b.w, b.r)
           y == [x EXCEPT !.pc = "block", !.w = b.w, !.r = b.r, !.txi = 0,
                          !.xfer = 0, !.transit = 0, !.rd = <<>>,
                          !.base = bus.n, !.left = left, !.on = TRUE]
<1>5. m' = SendNext(y) BY <1>2
<1>6. DOMAIN x = MasterFields /\ x.rx = <<>>
  <2>1. DOMAIN f = MasterFields /\ f.rx = <<>> /\ f.ovf \in BOOLEAN
    BY <1>1 DEF MasterFlushed
  <2> HIDE DEF f
  <2>2. CASE f.ovf = FALSE BY <2>1, <2>2 DEF MasterRecovered
  <2>3. CASE f.ovf = TRUE BY <2>1, <2>3 DEF MasterRecovered, MasterFlushed
  <2> QED BY <2>1, <2>2, <2>3
<1> HIDE DEF f, x, left
<1>7. /\ DOMAIN y = MasterFields /\ y.pc = "block" /\ y.w = b.w /\ y.r = b.r /\ y.txi = 0
      /\ y.xfer = 0
  BY <1>6, Zenon
<1>8. y.rd = <<>> /\ y.rx = <<>> BY <1>6, Zenon
<1> HIDE DEF y
<1>9. /\ m'.pc = y.pc /\ m'.rx = y.rx /\ m'.rd = y.rd /\ m'.xfer = y.xfer /\ m'.w = y.w
  <2>1. CASE SendNext(y) = y BY <2>1, <1>5
  <2>2. CASE \E e : SendNext(y) = [y EXCEPT !.tx = Append(@, e), !.txi = @ + 1,
                                            !.transit = @ + 1]
    <3>1. PICK e : m' = [y EXCEPT !.tx = Append(@, e), !.txi = @ + 1, !.transit = @ + 1]
      BY <2>2, <1>5
    <3> QED BY <3>1, <1>7, SMT
  <2>3. {y.w, y.r, y.txi} \subseteq Nat /\ y.w + y.r < Wrap BY <1>3, <1>7
  <2> QED BY <2>1, <2>2, <2>3, <1>7, NextIsSent
<1>10. InMode'
  <2>1. Less(m'.xfer, m'.w) = 0 BY <1>3, <1>7, <1>9, SMT DEF Less
  <2>2. Level(m'.rd) = Less(m'.xfer, m'.w) /\ Sequential(m'.rd) BY <2>1, <1>4, <1>8, <1>9
  <2> QED BY <2>2, <1>2, <1>7, <1>9, Zenon DEF InMode
<1>11. Hears(m', d'.mode, log'.with, log'.sent[1])
  <2>1. Level(m'.rx) = 0 /\ Level(m'.rd) = 0 BY <1>4, <1>8, <1>9
  <2>2. \A j \in 1..0 : FALSE BY SMT
  <2> QED BY <2>1, <2>2, Zenon DEF Hears
<1>12. Reads' BY <1>11, ReadsIs
<1> QED BY <1>10, <1>12 DEF Heard

\* A frame of frame mode.
LEMMA FrameHears ==
  ASSUME PacketInv, Heard, TransferFrame \/ TxDone \/ RxReady
  PROVE  Heard'
<1>1. DOMAIN m = MasterFields /\ Sequential(m.rx) /\ Level(m.rx) \in Nat BY WithinMaster
<1>2. Level(<<>>) = 0 /\ Sequential(<<>>) BY Empty
<1>3. CASE TransferFrame
  <2>1. /\ d.mode = "FRAME" /\ UNCHANGED <<d, bus, log>>
        /\ m' = [MasterFlushed(m) EXCEPT !.pc = "txdone", !.left = 1,
                   !.tx = <<Frame(bus.n + 1)>>, !.base = bus.n, !.w = 0, !.rd = <<>>]
    BY <1>3 DEF TransferFrame
  <2>2. m'.pc = "txdone" /\ m'.rx = <<>>
    BY <2>1, <1>1, SMT DEF MasterFlushed
  <2>3. InMode' BY <2>1, <2>2, Zenon DEF InMode
  <2>4. Hears(m', d'.mode, log'.with, log'.sent[1])
    <3>1. \A j \in 1..Level(m'.rx) : FALSE BY <2>2, <1>2, SMT
    <3> QED BY <3>1, <2>2, Zenon DEF Hears
  <2>5. Reads' BY <2>4, ReadsIs
  <2> QED BY <2>3, <2>5 DEF Heard
<1>4. CASE TxDone
  <2>1. m.pc = "txdone" /\ m' = [m EXCEPT !.pc = "rxready"] /\ UNCHANGED <<d, bus, log>>
    BY <1>4 DEF TxDone
  <2>2. m'.pc = "rxready" /\ m'.rx = m.rx BY <2>1, <1>1, Zenon
  <2>3. InMode' BY <2>1, <2>2, Zenon DEF Heard, InMode
  <2>4. ASSUME Hears(m, d.mode, log.with, log.sent[1])
        PROVE  Hears(m', d.mode, log.with, log.sent[1])
    BY <2>1, <2>2, <2>4, Zenon DEF Hears
  <2>5. Reads' BY <2>1, <2>4, ReadsIs DEF Heard
  <2> QED BY <2>3, <2>5 DEF Heard
<1>5. CASE RxReady
  <2> DEFINE e == Head(m.rx)
  <2>1. /\ m.pc = "rxready" /\ m.rx # <<>> /\ UNCHANGED <<d, bus, log>>
        /\ m' = [m EXCEPT !.pc = "ready", !.rd = <<e>>, !.rx = Tail(@)]
    BY <1>5 DEF RxReady
  <2>2. e = m.rx[1] /\ Level(m.rx) >= 1 BY <2>1, <1>1, Behead
  <2> HIDE DEF e
  <2>3. m'.pc = "ready" /\ m'.rd = <<e>> BY <2>1, <1>1, Zenon
  <2>4. Sequential(m'.rd) /\ Level(m'.rd) = 1 /\ m'.rd[1] = e BY <2>3, Single
  <2>5. InMode' BY <2>3, <2>4, Zenon DEF InMode
  <2>6. d.mode = "FRAME" BY <2>1 DEF Heard, InMode
  <2>7. ASSUME Hears(m, d.mode, log.with, log.sent[1])
        PROVE  Hears(m', d.mode, log.with, log.sent[1])
    <3>1. 1 \in 1..Level(m.rx) BY <2>2, <1>1, SMT
    <3>2. e = log.with.frame BY <3>1, <2>1, <2>2, <2>7, Zenon DEF Hears
    <3>3. ASSUME NEW i \in 1..Level(m'.rd)
          PROVE  m'.rd[i] = Told(d.mode, log.with, log.sent[1], m'.base + m'.w + i)
      <4>1. i = 1 BY <2>4, SMT
      <4> QED BY <4>1, <3>2, <2>4, <2>6 DEF Told
    <3> QED BY <3>3, <2>3, Zenon DEF Hears
  <2>8. Reads' BY <2>1, <2>7, ReadsIs DEF Heard
  <2> QED BY <2>5, <2>8 DEF Heard
<1> QED BY <1>3, <1>4, <1>5

\* A transfer by a DMA reads nothing.
LEMMA DmaHears ==
  ASSUME PacketInv, Heard, Dma
  PROVE  Heard'
<1>1. DOMAIN m = MasterFields BY WithinMaster
<1>2. m.pc \in {"disabled", "started", "dma"} => m.rd = <<>> BY DEF Heard, InMode
<1>3. CASE Disable
  <2>1. m' = [m EXCEPT !.pc = "disabled", !.on = FALSE, !.rd = <<>>] BY <1>3 DEF Disable
  <2>2. m'.pc = "disabled" /\ m'.rd = <<>> BY <2>1, <1>1, SMT
  <2> QED BY <2>2, HeardNothing
<1>4. CASE SetTransferByteCount
  <2>1. PICK n \in DmaSizes :
          /\ m.pc = "disabled"
          /\ m' = [m EXCEPT !.pc = "started", !.left = n, !.on = TRUE, !.txi = 0, !.w = n,
                            !.r = 0, !.base = bus.n]
    BY <1>4 DEF SetTransferByteCount
  <2>2. m'.pc = "started" /\ m'.rd = m.rd BY <2>1, <1>1, SMT
  <2> QED BY <2>1, <2>2, <1>2, HeardNothing
<1>5. CASE DmaMoves
  <2>1. /\ m.pc \in {"started", "dma"}
        /\ m' = [m EXCEPT !.tx = Append(@, Frame(m.base + m.txi + 1)), !.txi = @ + 1]
    BY <1>5 DEF DmaMoves
  <2>2. m'.pc = m.pc /\ m'.rd = m.rd BY <2>1, <1>1, SMT
  <2> QED BY <2>1, <2>2, <1>2, HeardNothing
<1>6. CASE Enable
  <2>1. m.pc = "started" /\ m' = [m EXCEPT !.pc = "dma", !.on = TRUE] BY <1>6 DEF Enable
  <2>2. m'.pc = "dma" /\ m'.rd = m.rd BY <2>1, <1>1, SMT
  <2> QED BY <2>1, <2>2, <1>2, HeardNothing
<1>7. CASE DmaDone
  <2>1. m.pc = "dma" /\ m' = [m EXCEPT !.pc = "ready"] BY <1>7 DEF DmaDone
  <2>2. m'.pc = "ready" /\ m'.rd = m.rd BY <2>1, <1>1, SMT
  <2> QED BY <2>1, <2>2, <1>2, HeardNothing
<1> QED BY <1>3, <1>4, <1>5, <1>6, <1>7 DEF Dma

\* Nor has it read anything at either end of a transaction.
LEMMA SelectHears ==
  ASSUME PacketInv, Select \/ Deselect
  PROVE  Heard'
<1>1. DOMAIN m = MasterFields BY WithinMaster
<1> DEFINE x == MasterRecovered(m)
<1>2. DOMAIN x = MasterFields BY <1>1, SMT DEF MasterRecovered, MasterFlushed
<1> HIDE DEF x
<1>3. CASE Select
  <2>1. m' = [x EXCEPT !.pc = "ready", !.on = TRUE, !.left = 1, !.rd = <<>>]
    BY <1>3 DEF Select, x
  <2>2. m'.pc = "ready" /\ m'.rd = <<>> BY <2>1, <1>2, SMT
  <2> QED BY <2>2, HeardNothing
<1>4. CASE Deselect
  <2>1. m' = [x EXCEPT !.pc = "idle"] BY <1>4 DEF Deselect, x
  <2>2. m'.pc = "idle" BY <2>1, <1>2, SMT
  <2> QED BY <2>2, HeardNothing
<1> QED BY <1>3, <1>4

\* The slave is set up when the bus is idle.
LEMMA SetUpHears ==
  ASSUME PacketInv, Slave
  PROVE  Heard'
<1>1. ~bus.sel /\ m' = m
  BY DEF Slave, SlaveBlock, SlaveCmd, SlaveFrameRx, SlaveFrameTx, Settles
<1>2. m.pc = "idle" BY <1>1, WithinMaster DEF Counted
<1> QED BY <1>1, <1>2, HeardNothing

\* Every step keeps what the master has received as what the slave has to say.
LEMMA HeardStep ==
  ASSUME PacketInv, Spoken, Served, Heard, [Next]_vars
  PROVE  Heard'
<1>1. CASE IsrStarts \/ IsrSkips \/ UNCHANGED vars
  <2>1. UNCHANGED <<m, bus, d, log>> BY <1>1 DEF IsrStarts, IsrSkips, vars
  <2> QED BY <2>1, HeardStays
<1>2. CASE IsrServes
  <2>1. UNCHANGED <<m, bus>> BY <1>2 DEF IsrServes
  <2>2. d'.mode = d.mode /\ LogStays BY <1>2, ServesSpeaks
  <2> QED BY <2>1, <2>2, HeardStays DEF LogStays
<1>10. CASE IsrClears
  <2>1. UNCHANGED <<m, bus>> BY <1>10 DEF IsrClears
  <2>2. /\ d'.mode = d.mode /\ log'.sent = log.sent /\ log'.with = log.with
        /\ log.fault => log'.fault
    BY <1>10, ClearsSpeaks
  <2> QED BY <2>1, <2>2, HeardStays
<1>3. CASE Slave BY <1>3, SetUpHears
<1>4. CASE Shift BY <1>4, ShiftHears
<1>5. CASE Select \/ Deselect BY <1>5, SelectHears
<1>6. CASE TransferBlock BY <1>6, BlockHears
<1>7. CASE BlockTurn BY <1>7, TurnHears
<1>8. CASE TransferFrame \/ TxDone \/ RxReady BY <1>8, FrameHears
<1>9. CASE Dma BY <1>9, DmaHears
<1> QED BY <1>1, <1>2, <1>3, <1>4, <1>5, <1>6, <1>7, <1>8, <1>9, <1>10, Zenon
        DEF Next, Isr, Master

\* As long as the master leaves the slave the time it needs, and the slave's buffer is
\* empty or reaches to the first interrupt, the master reads what the slave has to say at
\* that place: its buffer, its response to the command of this transaction, zeros.
THEOREM ReadIsRightHolds ==
  ASSUME Patient, LongEnough
  PROVE  Spec => []ReadIsRight
<1>1. Init => Spoken /\ Served /\ Heard
  <2> SUFFICES ASSUME Init PROVE Spoken /\ Served /\ Heard
    OBVIOUS
  <2>1. Spoken BY InitSpeaks
  <2>2. m.pc = "idle" /\ ~bus.sel BY DEF Init, MInit
  <2>3. InMode /\ Reads BY <2>2, Zenon DEF InMode, Reads
  <2>4. Served BY DEF Init, DInit, Served
  <2> QED BY <2>1, <2>3, <2>4 DEF Heard
<1>2. PacketInv /\ Spoken /\ Served /\ Heard /\ [Next]_vars => Spoken' /\ Served' /\ Heard'
  BY SpokenStep, HeardStep
<1>3. PacketInv /\ Heard => ReadIsRight
  <2> SUFFICES ASSUME PacketInv, Heard, m.pc = "ready", ~log.fault, HasToSay
               PROVE  \A i \in DOMAIN m.rd : m.rd[i] = Said(m.base + m.w + i)
    BY DEF ReadIsRight
  <2>1. bus.sel BY WithinMaster DEF Counted
  <2>2. \A i \in 1..Level(m.rd) : m.rd[i] = Said(m.base + m.w + i)
    BY <2>1, Zenon DEF Heard, Reads
  <2>3. Sequential(m.rd) BY DEF Heard, InMode
  <2>4. DOMAIN m.rd = 1..Level(m.rd) BY <2>3, SequentialIs
  <2> QED BY <2>2, <2>4
<1> QED BY <1>1, <1>2, <1>3, PacketInit, PacketStep, PTL DEF Spec
=============================================================================
