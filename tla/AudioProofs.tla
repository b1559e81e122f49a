---------------------------- MODULE AudioProofs ----------------------------
(***************************************************************************)
(* Proofs about Audio and the layers under it, for every number of devices, *)
(* instances, users, images and blocks.  Agrees, the agreement of the three *)
(* layers, is an invariant of every call of the library (Hbi); Booked adds   *)
(* who has what of it; Boxed relates the step of the driver to the mailbox    *)
(* of the chip, Linked the words of a frame to what they mean (HbiFrame), and *)
(* Built the blocks that were sent to the firmware in the chip.               *)
(***************************************************************************)
EXTENDS Audio, TLAPS, FiniteSetTheorems

---------------------------------------------------------------------------
(* Tables.                                                                  *)

\* The first free slot of a table is free.
LEMMA SlotIsFree ==
  ASSUME NEW t, IsFiniteSet(DOMAIN t)
  PROVE  FreeSlot(t) \notin DOMAIN t /\ FreeSlot(t) \in Nat
<1> DEFINE D == DOMAIN t
           n == Cardinality(D)
           A == 0..n
           Down(i) == {j \in A : j <= i}
           T == {X \in SUBSET A : \E i \in A : i \notin D /\ X = Down(i)}
<1>1. n \in Nat BY FS_CardinalityType
<1>2. IsFiniteSet(A) /\ Cardinality(A) = n + 1 BY <1>1, FS_Interval, SMT
<1>3. PICK k \in A : k \notin D
  <2>1. SUFFICES ASSUME A \subseteq D PROVE FALSE OBVIOUS
  <2>2. Cardinality(A) <= n BY <2>1, FS_Subset
  <2> QED BY <1>1, <1>2, <2>2, SMT
<1>4. T \subseteq FiniteSubsetsOf(A) /\ T # {}
  <2>1. FiniteSubsetsOf(A) = SUBSET A BY <1>2, FS_FiniteSubsetsOfFinite
  <2>2. Down(k) \in T BY <1>3
  <2> QED BY <2>1, <2>2
<1>5. PICK X \in T : \A Y \in T : ~(<<Y, X>> \in StrictSubsetOrdering(A))
  <2> HIDE DEF T
  <2> QED BY <1>4, WFMin, FS_StrictSubsetOrderingWellFounded
<1>6. PICK i \in A : i \notin D /\ X = Down(i) BY <1>5
<1>7. \A j \in 0..i : j < i => j \in D
  <2> SUFFICES ASSUME NEW j \in 0..i, j < i, j \notin D PROVE FALSE
    OBVIOUS
  <2>1. j \in A BY <1>1, <1>6, SMT
  <2>2. Down(j) \in T BY <2>1
  <2>3. Down(j) \subseteq X /\ i \in X /\ i \notin Down(j)
    <3>1. i \in Nat /\ j \in Nat BY <1>1, <1>6, <2>1, SMT
    <3>2. \A y \in A : y <= j => y <= i BY <1>1, <3>1, SMT
    <3>3. i <= i /\ ~(i <= j) BY <3>1, SMT
    <3> QED BY <1>6, <3>2, <3>3
  <2>4. <<Down(j), X>> \in StrictSubsetOrdering(A)
    BY <2>2, <2>3, <1>5, <1>6, <1>2 DEF StrictSubsetOrdering
  <2> QED BY <2>2, <2>4, <1>5
<1> QED
  <2>1. \E x \in A : x \notin D /\ \A j \in 0..x : j < x => j \in D BY <1>6, <1>7
  <2>2. FreeSlot(t) \in A /\ FreeSlot(t) \notin D BY <2>1 DEF FreeSlot
  <2> QED BY <1>1, <2>2, SMT

\* A set of slots has a first one.
LEMMA FirstIsOne ==
  ASSUME NEW S, S \subseteq Nat, S # {}
  PROVE  Min(S) \in S
<1>1. PICK x \in S : \A y \in S : ~(<<y, x>> \in OpToRel(<, Nat))
  BY WFMin, NatLessThanWellFounded, Zenon
<1>2. \A y \in S : x =< y
  <2> TAKE y \in S
  <2>1. OpToRel(<, Nat) = {ss \in Nat \X Nat : ss[1] < ss[2]} BY DEF OpToRel
  <2>2. x \in Nat /\ y \in Nat /\ <<y, x>> \in Nat \X Nat OBVIOUS
  <2>3. ~(y < x) BY <1>1, <2>1, <2>2
  <2> QED BY <2>2, <2>3, SMT
<1>3. \E z \in S : \A y \in S : z =< y BY <1>2
<1> QED BY <1>3 DEF Min

\* An entry more, and an entry less.
HasMore(u, t, i, v) ==
  /\ DOMAIN u = DOMAIN t \cup {i} /\ u[i] = v
  /\ \A j \in DOMAIN t : j # i => u[j] = t[j]
HasLess(u, t, i) == DOMAIN u = DOMAIN t \ {i} /\ \A j \in DOMAIN u : u[j] = t[j]

\* A table with an entry more, or less.
LEMMA Entries ==
  ASSUME NEW t, NEW i, NEW v
  PROVE  HasMore(With(t, i, v), t, i, v) /\ HasLess(Without(t, i), t, i)
BY DEF With, Without, HasMore, HasLess

---------------------------------------------------------------------------
(* The tables of the three layers.                                         *)

UsersOf(inst, d) == {i \in DOMAIN inst : inst[i] = d}

\* Each entry of a table has its one counterpart in the next.
Tied(inst, dev, port, taken) ==
  /\ IsFiniteSet(DOMAIN inst) /\ IsFiniteSet(DOMAIN dev) /\ IsFiniteSet(DOMAIN port)
  /\ \A i \in DOMAIN inst : inst[i] \in DOMAIN dev
  /\ \A d \in DOMAIN dev :
       /\ DOMAIN dev[d] = {"addr", "port", "users"}
       /\ dev[d].users = Cardinality(UsersOf(inst, d)) /\ dev[d].users \in 1..PerDev
       /\ dev[d].port \in DOMAIN port /\ port[dev[d].port] = dev[d].addr
  /\ \A p \in DOMAIN port : \E d \in DOMAIN dev : dev[d].port = p
  /\ \A d, e \in DOMAIN dev :
       dev[d].port = dev[e].port \/ dev[d].addr = dev[e].addr => d = e
  /\ taken = {port[p] : p \in DOMAIN port}

\* HBI_open: one more user of a device.
LEMMA TiedWithUser ==
  ASSUME NEW inst, NEW dev, NEW port, NEW taken, Tied(inst, dev, port, taken),
         NEW i, i \notin DOMAIN inst, NEW d \in DOMAIN dev, dev[d].users < PerDev,
         NEW u, HasMore(u, inst, i, d),
         NEW dev2, DOMAIN dev2 = DOMAIN dev, DOMAIN dev2[d] = {"addr", "port", "users"},
         dev2[d].users = dev[d].users + 1, dev2[d].addr = dev[d].addr,
         dev2[d].port = dev[d].port, \A e \in DOMAIN dev : e # d => dev2[e] = dev[e]
  PROVE  Tied(u, dev2, port, taken)
<1>01. /\ IsFiniteSet(DOMAIN inst) /\ IsFiniteSet(DOMAIN dev) /\ IsFiniteSet(DOMAIN port)
       /\ \A j \in DOMAIN inst : inst[j] \in DOMAIN dev
  BY DEF Tied
<1>02. \A e \in DOMAIN dev :
         /\ DOMAIN dev[e] = {"addr", "port", "users"}
         /\ dev[e].users = Cardinality(UsersOf(inst, e)) /\ dev[e].users \in 1..PerDev
         /\ dev[e].port \in DOMAIN port /\ port[dev[e].port] = dev[e].addr
  BY DEF Tied
<1>03. /\ \A p1 \in DOMAIN port : \E e \in DOMAIN dev : dev[e].port = p1
       /\ taken = {port[p1] : p1 \in DOMAIN port}
  BY DEF Tied
<1>04. \A e, f \in DOMAIN dev : dev[e].port = dev[f].port \/ dev[e].addr = dev[f].addr => e = f
  BY DEF Tied
<1>1. /\ DOMAIN u = DOMAIN inst \cup {i} /\ u[i] = d
      /\ \A j \in DOMAIN inst : u[j] = inst[j]
  BY DEF HasMore
<1>2. IsFiniteSet(DOMAIN u) BY <1>01, <1>1, FS_AddElement
<1>3. \A j \in DOMAIN u : u[j] \in DOMAIN dev2 BY <1>01, <1>1
<1>4. UsersOf(u, d) = UsersOf(inst, d) \cup {i} BY <1>1 DEF UsersOf
<1>5. \A e : e # d => UsersOf(u, e) = UsersOf(inst, e) BY <1>1 DEF UsersOf
<1>6. IsFiniteSet(UsersOf(inst, d)) /\ i \notin UsersOf(inst, d)
  BY <1>01, FS_Subset DEF UsersOf
<1>7. Cardinality(UsersOf(u, d)) = dev[d].users + 1
  BY <1>02, <1>4, <1>6, FS_AddElement
<1>8. dev2[d].users \in 1..PerDev
  <2>1. dev[d].users \in 1..PerDev BY <1>02
  <2> QED BY <2>1, HbiAssumption, SMT
<1>9. \A e \in DOMAIN dev2 :
        /\ DOMAIN dev2[e] = {"addr", "port", "users"}
        /\ dev2[e].users = Cardinality(UsersOf(u, e)) /\ dev2[e].users \in 1..PerDev
        /\ dev2[e].port = dev[e].port /\ dev2[e].addr = dev[e].addr
  <2> TAKE e \in DOMAIN dev2
  <2>1. CASE e = d BY <2>1, <1>7, <1>8
  <2>2. CASE e # d BY <2>2, <1>02, <1>5, Zenon
  <2> QED BY <2>1, <2>2
<1>10. \A e \in DOMAIN dev2 : /\ dev2[e].port \in DOMAIN port
                            /\ port[dev2[e].port] = dev2[e].addr
  BY <1>02, <1>9, Zenon
<1>11. \A p \in DOMAIN port : \E e \in DOMAIN dev2 : dev2[e].port = p
  <2> TAKE p \in DOMAIN port
  <2>1. PICK e \in DOMAIN dev : dev[e].port = p BY <1>03
  <2> QED BY <2>1, <1>9
<1>12. \A e, f \in DOMAIN dev2 :
         dev2[e].port = dev2[f].port \/ dev2[e].addr = dev2[f].addr => e = f
  BY <1>04, <1>9, Zenon
<1> QED BY <1>01, <1>03, <1>2, <1>3, <1>9, <1>10, <1>11, <1>12, Zenon DEF Tied

\* HBI_open: a device of its own, over a port of its own.
LEMMA TiedWithDevice ==
  ASSUME NEW inst, NEW dev, NEW port, NEW taken, Tied(inst, dev, port, taken),
         NEW i, i \notin DOMAIN inst, NEW d, d \notin DOMAIN dev,
         NEW p, p \notin DOMAIN port, NEW slave, slave \notin taken,
         NEW u, HasMore(u, inst, i, d), NEW q, HasMore(q, port, p, slave),
         NEW dev2, DOMAIN dev2 = DOMAIN dev \cup {d},
         DOMAIN dev2[d] = {"addr", "port", "users"},
         dev2[d].users = 1, dev2[d].addr = slave, dev2[d].port = p,
         \A e \in DOMAIN dev : dev2[e] = dev[e]
  PROVE  Tied(u, dev2, q, taken \cup {slave})
<1>01. /\ IsFiniteSet(DOMAIN inst) /\ IsFiniteSet(DOMAIN dev) /\ IsFiniteSet(DOMAIN port)
       /\ \A j \in DOMAIN inst : inst[j] \in DOMAIN dev
  BY DEF Tied
<1>02. \A e \in DOMAIN dev :
         /\ DOMAIN dev[e] = {"addr", "port", "users"}
         /\ dev[e].users = Cardinality(UsersOf(inst, e)) /\ dev[e].users \in 1..PerDev
         /\ dev[e].port \in DOMAIN port /\ port[dev[e].port] = dev[e].addr
  BY DEF Tied
<1>03. /\ \A p1 \in DOMAIN port : \E e \in DOMAIN dev : dev[e].port = p1
       /\ taken = {port[p1] : p1 \in DOMAIN port}
  BY DEF Tied
<1>04. \A e, f \in DOMAIN dev : dev[e].port = dev[f].port \/ dev[e].addr = dev[f].addr => e = f
  BY DEF Tied
<1>1. /\ DOMAIN u = DOMAIN inst \cup {i} /\ u[i] = d
      /\ \A j \in DOMAIN inst : u[j] = inst[j]
      /\ DOMAIN q = DOMAIN port \cup {p} /\ q[p] = slave
      /\ \A j \in DOMAIN port : q[j] = port[j]
  BY DEF HasMore
<1>2. IsFiniteSet(DOMAIN u) /\ IsFiniteSet(DOMAIN dev2) /\ IsFiniteSet(DOMAIN q)
  BY <1>01, <1>1, FS_AddElement
<1>3. \A j \in DOMAIN u : u[j] \in DOMAIN dev2 BY <1>01, <1>1
<1>4. UsersOf(u, d) = {i} BY <1>01, <1>1 DEF UsersOf
<1>5. \A e : e # d => UsersOf(u, e) = UsersOf(inst, e) BY <1>1 DEF UsersOf
<1>6. Cardinality(UsersOf(u, d)) = 1 BY <1>4, FS_Singleton
<1>7. 1 \in 1..PerDev BY HbiAssumption, SMT
<1>8. \A e \in DOMAIN dev : dev2[e] = dev[e] /\ e # d OBVIOUS
<1>9. \A e \in DOMAIN dev2 :
        /\ DOMAIN dev2[e] = {"addr", "port", "users"}
        /\ dev2[e].users = Cardinality(UsersOf(u, e)) /\ dev2[e].users \in 1..PerDev
        /\ dev2[e].port \in DOMAIN q /\ q[dev2[e].port] = dev2[e].addr
  <2> TAKE e \in DOMAIN dev2
  <2>1. CASE e = d BY <2>1, <1>1, <1>6, <1>7
  <2>2. CASE e # d 
    <3>1. e \in DOMAIN dev /\ dev2[e] = dev[e] BY <2>2
    <3>2. dev[e].port \in DOMAIN q /\ q[dev[e].port] = dev[e].addr BY <3>1, <1>02, <1>1
    <3> QED BY <3>1, <3>2, <2>2, <1>02, <1>5, Zenon
  <2> QED BY <2>1, <2>2
<1>10. \A j \in DOMAIN q : \E e \in DOMAIN dev2 : dev2[e].port = j
  <2> TAKE j \in DOMAIN q
  <2>1. CASE j = p BY <2>1
  <2>2. CASE j # p BY <2>2, <1>03, <1>1, <1>8
  <2> QED BY <2>1, <2>2
<1>11. \A e \in DOMAIN dev : dev[e].port # p /\ dev[e].addr # slave
  <2>1. \A j \in DOMAIN port : port[j] \in taken BY <1>03
  <2> QED BY <2>1, <1>02, Zenon
<1>12. \A e, f \in DOMAIN dev2 :
         dev2[e].port = dev2[f].port \/ dev2[e].addr = dev2[f].addr => e = f
  <2> TAKE e, f \in DOMAIN dev2
  <2>1. \A x \in DOMAIN dev2 : x # d => dev2[x].port # p /\ dev2[x].addr # slave
    BY <1>8, <1>11
  <2>3. CASE e = d \/ f = d BY <2>1, <2>3
  <2>2. CASE e # d /\ f # d BY <2>2, <1>04, <1>8, Zenon
  <2> QED BY <2>2, <2>3
<1>13. taken \cup {slave} = {q[j] : j \in DOMAIN q} 
  <2>1. \A j \in DOMAIN q : IF j = p THEN q[j] = slave ELSE j \in DOMAIN port /\ q[j] = port[j]
    BY <1>1
  <2> QED BY <1>03, <1>1, <2>1
<1> QED BY <1>2, <1>3, <1>9, <1>10, <1>12, <1>13, Zenon DEF Tied

\* HBI_close: one user less of a device that has others.
LEMMA TiedLessUser ==
  ASSUME NEW inst, NEW dev, NEW port, NEW taken, Tied(inst, dev, port, taken),
         NEW i \in DOMAIN inst, NEW d, d = inst[i], dev[d].users # 1,
         NEW u, HasLess(u, inst, i),
         NEW dev2, DOMAIN dev2 = DOMAIN dev, DOMAIN dev2[d] = {"addr", "port", "users"},
         dev2[d].users = dev[d].users - 1, dev2[d].addr = dev[d].addr,
         dev2[d].port = dev[d].port, \A e \in DOMAIN dev : e # d => dev2[e] = dev[e]
  PROVE  Tied(u, dev2, port, taken)
<1>01. /\ IsFiniteSet(DOMAIN inst) /\ IsFiniteSet(DOMAIN dev) /\ IsFiniteSet(DOMAIN port)
       /\ \A j \in DOMAIN inst : inst[j] \in DOMAIN dev
  BY DEF Tied
<1>02. \A e \in DOMAIN dev :
         /\ DOMAIN dev[e] = {"addr", "port", "users"}
         /\ dev[e].users = Cardinality(UsersOf(inst, e)) /\ dev[e].users \in 1..PerDev
         /\ dev[e].port \in DOMAIN port /\ port[dev[e].port] = dev[e].addr
  BY DEF Tied
<1>03. /\ \A p1 \in DOMAIN port : \E e \in DOMAIN dev : dev[e].port = p1
       /\ taken = {port[p1] : p1 \in DOMAIN port}
  BY DEF Tied
<1>04. \A e, f \in DOMAIN dev : dev[e].port = dev[f].port \/ dev[e].addr = dev[f].addr => e = f
  BY DEF Tied
<1>1. DOMAIN u = DOMAIN inst \ {i} /\ \A j \in DOMAIN u : u[j] = inst[j]
  BY DEF HasLess
<1>0. d \in DOMAIN dev BY <1>01
<1>2. IsFiniteSet(DOMAIN u) BY <1>01, <1>1, FS_RemoveElement
<1>3. \A j \in DOMAIN u : u[j] \in DOMAIN dev2 BY <1>01, <1>1
<1>4. UsersOf(u, d) = UsersOf(inst, d) \ {i} BY <1>1 DEF UsersOf
<1>5. \A e : e # d => UsersOf(u, e) = UsersOf(inst, e) BY <1>1 DEF UsersOf
<1>6. IsFiniteSet(UsersOf(inst, d)) /\ i \in UsersOf(inst, d)
  BY <1>01, FS_Subset DEF UsersOf
<1>7. Cardinality(UsersOf(u, d)) = dev[d].users - 1
  
  <2>1. Cardinality(UsersOf(inst, d)) = dev[d].users BY <1>0, <1>02
  <2> QED BY <2>1, <1>4, <1>6, FS_RemoveElement
<1>8. dev2[d].users \in 1..PerDev
  <2>1. dev[d].users \in 1..PerDev BY <1>0, <1>02
  <2> QED BY <2>1, HbiAssumption, SMT
<1>9. \A e \in DOMAIN dev2 :
        /\ DOMAIN dev2[e] = {"addr", "port", "users"}
        /\ dev2[e].users = Cardinality(UsersOf(u, e)) /\ dev2[e].users \in 1..PerDev
        /\ dev2[e].port = dev[e].port /\ dev2[e].addr = dev[e].addr
  <2> TAKE e \in DOMAIN dev2
  <2>1. CASE e = d BY <2>1, <1>7, <1>8
  <2>2. CASE e # d BY <2>2, <1>02, <1>5, Zenon
  <2> QED BY <2>1, <2>2
<1>10. \A e \in DOMAIN dev2 : /\ dev2[e].port \in DOMAIN port
                            /\ port[dev2[e].port] = dev2[e].addr
  BY <1>02, <1>9, Zenon
<1>11. \A p \in DOMAIN port : \E e \in DOMAIN dev2 : dev2[e].port = p
  <2> TAKE p \in DOMAIN port
  <2>1. PICK e \in DOMAIN dev : dev[e].port = p BY <1>03
  <2> QED BY <2>1, <1>9
<1>12. \A e, f \in DOMAIN dev2 :
         dev2[e].port = dev2[f].port \/ dev2[e].addr = dev2[f].addr => e = f
  BY <1>04, <1>9, Zenon
<1> QED BY <1>01, <1>03, <1>2, <1>3, <1>9, <1>10, <1>11, <1>12, Zenon DEF Tied

\* HBI_close: the last user, and with it the device and its port.
LEMMA TiedLessDevice ==
  ASSUME NEW inst, NEW dev, NEW port, NEW taken, Tied(inst, dev, port, taken),
         NEW i \in DOMAIN inst, NEW d, d = inst[i], dev[d].users = 1,
         NEW p, p = dev[d].port, NEW u, HasLess(u, inst, i), NEW v, HasLess(v, dev, d),
         NEW q, HasLess(q, port, p)
  PROVE  Tied(u, v, q, taken \ {port[p]})
<1>01. /\ IsFiniteSet(DOMAIN inst) /\ IsFiniteSet(DOMAIN dev) /\ IsFiniteSet(DOMAIN port)
       /\ \A j \in DOMAIN inst : inst[j] \in DOMAIN dev
  BY DEF Tied
<1>02. \A e \in DOMAIN dev :
         /\ DOMAIN dev[e] = {"addr", "port", "users"}
         /\ dev[e].users = Cardinality(UsersOf(inst, e)) /\ dev[e].users \in 1..PerDev
         /\ dev[e].port \in DOMAIN port /\ port[dev[e].port] = dev[e].addr
  BY DEF Tied
<1>03. /\ \A p1 \in DOMAIN port : \E e \in DOMAIN dev : dev[e].port = p1
       /\ taken = {port[p1] : p1 \in DOMAIN port}
  BY DEF Tied
<1>04. \A e, f \in DOMAIN dev : dev[e].port = dev[f].port \/ dev[e].addr = dev[f].addr => e = f
  BY DEF Tied
<1>1. /\ DOMAIN u = DOMAIN inst \ {i} /\ \A j \in DOMAIN u : u[j] = inst[j]
      /\ DOMAIN v = DOMAIN dev \ {d} /\ \A j \in DOMAIN v : v[j] = dev[j]
      /\ DOMAIN q = DOMAIN port \ {p} /\ \A j \in DOMAIN q : q[j] = port[j]
  BY DEF HasLess
<1>0. d \in DOMAIN dev BY <1>01
<1>2. IsFiniteSet(DOMAIN u) /\ IsFiniteSet(DOMAIN v) /\ IsFiniteSet(DOMAIN q)
  BY <1>01, <1>1, FS_RemoveElement
<1>3. UsersOf(inst, d) = {i}
  <2>1. IsFiniteSet(UsersOf(inst, d)) /\ i \in UsersOf(inst, d)
    BY <1>01, FS_Subset DEF UsersOf
  <2>2. Cardinality(UsersOf(inst, d)) = 1 BY <1>0, <1>02
  <2>3. PICK x : UsersOf(inst, d) = {x} BY <2>1, <2>2, FS_Singleton
  <2> QED BY <2>1, <2>3
<1>4. \A j \in DOMAIN u : u[j] \in DOMAIN v 
  <2>1. \A j \in DOMAIN inst : inst[j] = d => j = i BY <1>3 DEF UsersOf
  <2> QED BY <2>1, <1>01, <1>1
<1>5. \A e : e # d => UsersOf(u, e) = UsersOf(inst, e) BY <1>1 DEF UsersOf
<1>6. \A e \in DOMAIN v : e \in DOMAIN dev /\ e # d /\ v[e] = dev[e] BY <1>1
<1>7. \A e \in DOMAIN v : dev[e].port # p /\ dev[e].addr # port[p]
  
  <2>1. port[p] = dev[d].addr BY <1>0, <1>02
  <2> TAKE e \in DOMAIN v
  <2>2. e \in DOMAIN dev /\ e # d BY <1>6
  <2>3. ~(dev[e].port = dev[d].port \/ dev[e].addr = dev[d].addr)
    BY <2>2, <1>0, <1>04, Zenon
  <2> QED BY <2>1, <2>3
<1>8. \A e \in DOMAIN v :
        /\ DOMAIN v[e] = {"addr", "port", "users"}
        /\ v[e].users = Cardinality(UsersOf(u, e)) /\ v[e].users \in 1..PerDev
        /\ v[e].port \in DOMAIN q /\ q[v[e].port] = v[e].addr
  <2> TAKE e \in DOMAIN v
  <2>1. e \in DOMAIN dev /\ e # d /\ v[e] = dev[e] /\ dev[e].port # p BY <1>6, <1>7
  <2>2. dev[e].port \in DOMAIN q BY <1>1, <2>1, <1>02
  <2>3. q[dev[e].port] = port[dev[e].port] BY <1>1, <2>2
  <2> QED BY <2>1, <2>2, <2>3, <1>02, <1>5, Zenon
<1>9. \A j \in DOMAIN q : \E e \in DOMAIN v : v[e].port = j
  <2> TAKE j \in DOMAIN q
  <2>1. j \in DOMAIN port /\ j # p BY <1>1
  <2>2. PICK e \in DOMAIN dev : dev[e].port = j BY <2>1, <1>03
  <2>3. e \in DOMAIN v BY <1>1, <2>1, <2>2
  <2> QED BY <2>2, <2>3, <1>6
<1>10. \A e, f \in DOMAIN v :
         v[e].port = v[f].port \/ v[e].addr = v[f].addr => e = f
  BY <1>04, <1>6, Zenon
<1>11. taken \ {port[p]} = {q[j] : j \in DOMAIN q}
  <2>1. \A j \in DOMAIN q : port[j] # port[p]
    <3> TAKE j \in DOMAIN q
    <3>1. j \in DOMAIN port /\ j # p BY <1>1
    <3>2. PICK e \in DOMAIN dev : dev[e].port = j BY <3>1, <1>03
    <3>3. e \in DOMAIN v BY <1>1, <3>1, <3>2
    <3>4. port[j] = dev[e].addr BY <3>2, <1>02
    <3> QED BY <3>3, <3>4, <1>7
  <2>2. \A j \in DOMAIN q : q[j] = port[j] /\ j \in DOMAIN port BY <1>1
  <2>3. \A j \in DOMAIN port : port[j] # port[p] => j \in DOMAIN q BY <1>1
  <2> QED BY <1>03, <2>1, <2>2, <2>3
<1> QED BY <1>2, <1>4, <1>8, <1>9, <1>10, <1>11, Zenon DEF Tied
---------------------------------------------------------------------------
(* The calls.                                                              *)

Shape(l) ==
  /\ DOMAIN l = {"hbi", "ssl", "hal"}
  /\ DOMAIN l.hbi = {"up", "inits", "insts", "opened", "inst", "dev"}
  /\ DOMAIN l.ssl = {"up", "port"}
  /\ DOMAIN l.hal = {"ready", "taken"}

Counted(h) ==
  /\ h.insts = Cardinality(DOMAIN h.inst) /\ h.insts <= MaxInsts
  /\ h.opened = Cardinality(DOMAIN h.dev) /\ DOMAIN h.dev \subseteq Nat
  /\ h.inits \in Nat /\ h.up \in BOOLEAN
  /\ (h.up <=> h.inits > 0) /\ (~h.up => h.insts = 0)

Agrees(l) ==
  /\ Shape(l)
  /\ Tied(l.hbi.inst, l.hbi.dev, l.ssl.port, l.hal.taken)
  /\ Counted(l.hbi) /\ l.hbi.up = l.ssl.up

\* Nothing is in use.
LEMMA EmptyIsTied ==
  ASSUME NEW inst, NEW dev, NEW port, DOMAIN inst = {}, DOMAIN dev = {}, DOMAIN port = {}
  PROVE  Tied(inst, dev, port, {}) /\ Cardinality(DOMAIN inst) = 0 /\ Cardinality(DOMAIN dev) = 0
BY FS_EmptySet DEF Tied

\* Without a user there is no device, and without a device no port.
LEMMA NoUserNoDevice ==
  ASSUME NEW l, Agrees(l), l.hbi.insts = 0
  PROVE  /\ DOMAIN l.hbi.inst = {} /\ DOMAIN l.hbi.dev = {} /\ DOMAIN l.ssl.port = {}
         /\ l.hbi.opened = 0 /\ l.hal.taken = {}
<1> DEFINE inst == l.hbi.inst  dev == l.hbi.dev  port == l.ssl.port
<1>1. /\ IsFiniteSet(DOMAIN inst) /\ IsFiniteSet(DOMAIN dev)
      /\ \A d \in DOMAIN dev : /\ dev[d].users = Cardinality(UsersOf(inst, d))
                               /\ dev[d].users \in 1..PerDev
  BY DEF Agrees, Tied
<1>2. /\ \A p \in DOMAIN port : \E d \in DOMAIN dev : dev[d].port = p
      /\ l.hal.taken = {port[p] : p \in DOMAIN port}
  BY DEF Agrees, Tied
<1>3. Cardinality(DOMAIN inst) = 0 /\ l.hbi.opened = Cardinality(DOMAIN dev)
  BY DEF Agrees, Counted
<1>4. DOMAIN inst = {} BY <1>1, <1>3, FS_EmptySet
<1>5. DOMAIN dev = {}
  <2>1. SUFFICES ASSUME NEW d \in DOMAIN dev PROVE FALSE OBVIOUS
  <2>2. UsersOf(inst, d) = {} BY <1>4 DEF UsersOf
  <2>3. dev[d].users = 0 /\ dev[d].users \in 1..PerDev BY <1>1, <2>2, FS_EmptySet
  <2> QED BY <2>3, HbiAssumption, SMT
<1> QED BY <1>2, <1>3, <1>4, <1>5, FS_EmptySet

\* A user more of a device in use.
Recounts(dev2, dev, d, n) ==
  /\ DOMAIN dev2 = DOMAIN dev /\ DOMAIN dev2[d] = DOMAIN dev[d]
  /\ dev2[d].users = n /\ dev2[d].addr = dev[d].addr /\ dev2[d].port = dev[d].port
  /\ \A e \in DOMAIN dev : e # d => dev2[e] = dev[e]

\* A user more changes the instances and the number of users of its device, and
\* returns its own instance.
LEMMA NewUserDoes ==
  ASSUME NEW l, Shape(l), NEW d \in DOMAIN l.hbi.dev,
         DOMAIN l.hbi.dev[d] = {"addr", "port", "users"}
  PROVE  LET r == NewUser(l, d)
             k == r.lay
             i == FreeSlot(l.hbi.inst)
         IN /\ r.status = "SUCCESS" /\ r.handle = i
            /\ Shape(k) /\ k.ssl = l.ssl /\ k.hal = l.hal
            /\ k.hbi.up = l.hbi.up /\ k.hbi.inits = l.hbi.inits
            /\ k.hbi.opened = l.hbi.opened /\ k.hbi.insts = l.hbi.insts + 1
            /\ HasMore(k.hbi.inst, l.hbi.inst, i, d)
            /\ Recounts(k.hbi.dev, l.hbi.dev, d, l.hbi.dev[d].users + 1)
<1> DEFINE i == FreeSlot(l.hbi.inst)
           t == With(l.hbi.inst, i, d)
           n == l.hbi.insts + 1
           m == l.hbi.dev[d].users + 1
           k == NewUser(l, d).lay
<1>1. HasMore(t, l.hbi.inst, i, d) BY Entries
<1>2. /\ NewUser(l, d).status = "SUCCESS" /\ NewUser(l, d).handle = i
      /\ k = [l EXCEPT !.hbi.inst = t, !.hbi.insts = n, !.hbi.dev[d].users = m]
  BY DEF NewUser, Result
<1> HIDE DEF i, t, n, m, k
<1>3. /\ Shape(k) /\ k.ssl = l.ssl /\ k.hal = l.hal
      /\ k.hbi.up = l.hbi.up /\ k.hbi.inits = l.hbi.inits
      /\ k.hbi.opened = l.hbi.opened /\ k.hbi.insts = n /\ k.hbi.inst = t
  BY <1>2 DEF Shape
<1>4. k.hbi.dev = [l.hbi.dev EXCEPT ![d].users = m]
  BY <1>2 DEF Shape
<1>5. Recounts(k.hbi.dev, l.hbi.dev, d, m) BY <1>4 DEF Recounts
<1> QED BY <1>1, <1>2, <1>3, <1>5 DEF i, n, m, k

\* hal_open: a slave that has no master yet gets one.
LEMMA HalOpenDoes ==
  ASSUME NEW l, Shape(l), NEW slave
  PROVE  LET o == HalOpen(l, slave)
         IN /\ Shape(o.lay) /\ o.lay.hbi = l.hbi /\ o.lay.ssl = l.ssl
            /\ o.status # "SUCCESS" => o.lay.hal.taken = l.hal.taken
            /\ o.status = "SUCCESS" => /\ slave \notin l.hal.taken /\ o.handle = slave
                                       /\ o.lay.hal.taken = l.hal.taken \cup {slave}
<1> DEFINE r == [l EXCEPT !.hal.ready = @ \cup {slave}]
           m == [r EXCEPT !.hal.taken = @ \cup {slave}]
<1>1. /\ Shape(r) /\ r.hbi = l.hbi /\ r.ssl = l.ssl /\ r.hal.taken = l.hal.taken
  BY DEF Shape
<1>2. /\ Shape(m) /\ m.hbi = l.hbi /\ m.ssl = l.ssl
      /\ m.hal.taken = l.hal.taken \cup {slave}
  <2> HIDE DEF r
  <2> QED BY <1>1 DEF Shape
<1>3. HalOpen(l, slave) \in {Fails(l, "ERROR"), Fails(r, "ERROR"),
                             Result(m, "SUCCESS", slave)}
  BY Zenon DEF HalOpen
<1>4. HalOpen(l, slave).status = "SUCCESS" => slave \notin l.hal.taken
  BY <1>1 DEF HalOpen, Fails, Result
<1> HIDE DEF r, m
<1> QED
  <2>1. CASE HalOpen(l, slave) = Fails(l, "ERROR") BY <2>1 DEF Fails, Result
  <2>2. CASE HalOpen(l, slave) = Fails(r, "ERROR") BY <2>2, <1>1 DEF Fails, Result
  <2>3. CASE HalOpen(l, slave) = Result(m, "SUCCESS", slave)
    BY <2>3, <1>2, <1>4 DEF Fails, Result
  <2> QED BY <1>3, <2>1, <2>2, <2>3

\* SSL_port_open: a free port for a slave that had none.
LEMMA PortOpenDoes ==
  ASSUME NEW l, Shape(l), NEW slave
  PROVE  LET p == PortOpen(l, slave)
             k == p.lay
         IN /\ Shape(k) /\ k.hbi = l.hbi /\ k.ssl.up = l.ssl.up
            /\ p.status # "SUCCESS" => k.ssl = l.ssl /\ k.hal.taken = l.hal.taken
            /\ p.status = "SUCCESS" =>
                 /\ slave \notin l.hal.taken /\ p.handle = FreeSlot(l.ssl.port)
                 /\ HasMore(k.ssl.port, l.ssl.port, p.handle, slave)
                 /\ k.hal.taken = l.hal.taken \cup {slave}
<1> DEFINE o == HalOpen(l, slave)
           i == FreeSlot(l.ssl.port)
           m == [o.lay EXCEPT !.ssl.port = With(@, i, o.handle)]
           p == PortOpen(l, slave)
<1>1. /\ Shape(o.lay) /\ o.lay.hbi = l.hbi /\ o.lay.ssl = l.ssl
      /\ o.status # "SUCCESS" => o.lay.hal.taken = l.hal.taken
      /\ o.status = "SUCCESS" => /\ slave \notin l.hal.taken /\ o.handle = slave
                                 /\ o.lay.hal.taken = l.hal.taken \cup {slave}
  BY HalOpenDoes
<1>2. \/ p = Fails(l, "NOT_INIT") \/ p = Fails(l, "RESOURCE_ERR")
      \/ p = Fails(o.lay, "INTERNAL_ERR") /\ o.status # "SUCCESS"
      \/ p = Result(m, "SUCCESS", i) /\ o.status = "SUCCESS"
  BY DEF PortOpen
<1>3. ASSUME o.status = "SUCCESS"
      PROVE  /\ Shape(m) /\ m.hbi = l.hbi /\ m.ssl.up = l.ssl.up /\ m.hal = o.lay.hal
             /\ m.ssl.port = With(l.ssl.port, i, slave)
  <2> HIDE DEF o, i
  <2> QED BY <1>1, <1>3 DEF Shape
<1>4. HasMore(With(l.ssl.port, i, slave), l.ssl.port, i, slave) BY Entries
<1> HIDE DEF o, i, m, p
<1> QED
  <2>1. CASE p = Fails(l, "NOT_INIT") \/ p = Fails(l, "RESOURCE_ERR")
    BY <2>1 DEF p, Fails, Result
  <2>2. CASE p = Fails(o.lay, "INTERNAL_ERR") /\ o.status # "SUCCESS"
    BY <2>2, <1>1 DEF p, Fails, Result
  <2>3. CASE p = Result(m, "SUCCESS", i) /\ o.status = "SUCCESS"
    BY <2>3, <1>1, <1>3, <1>4 DEF p, i, Result
  <2> QED BY <1>2, <2>1, <2>2, <2>3

\* What HBI_open promises.
Opens(l, slave, o) ==
  /\ Agrees(o.lay) /\ o.lay.hbi.up = l.hbi.up /\ o.lay.hbi.inits = l.hbi.inits
  /\ \A e \in DOMAIN o.lay.hbi.dev :
       \/ o.lay.hbi.dev[e].addr = slave
       \/ \E d \in DOMAIN l.hbi.dev : o.lay.hbi.dev[e].addr = l.hbi.dev[d].addr
  /\ o.status # "SUCCESS" => o.lay.hbi = l.hbi
  /\ o.status = "SUCCESS" =>
       /\ o.handle \notin DOMAIN l.hbi.inst
       /\ DOMAIN o.lay.hbi.inst = DOMAIN l.hbi.inst \cup {o.handle}
       /\ o.lay.hbi.insts = l.hbi.insts + 1

\* HBI_open fails, perhaps with the bus of the slave initialised and no more.
LEMMA FailedOpen ==
  ASSUME NEW l, Agrees(l), NEW slave, NEW k, Shape(k), k.hbi = l.hbi, k.ssl = l.ssl,
         k.hal.taken = l.hal.taken, NEW s, s # "SUCCESS"
  PROVE  Opens(l, slave, Fails(k, s))
<1>1. Agrees(k) BY Zenon DEF Agrees
<1>2. Fails(k, s).lay = k /\ Fails(k, s).status = s BY DEF Fails, Result
<1> QED BY <1>1, <1>2, Zenon DEF Opens

\* The counters after one user more.
LEMMA CountedUser ==
  ASSUME NEW h, Counted(h), h.up, IsFiniteSet(DOMAIN h.inst), h.insts < MaxInsts,
         NEW g, g.up = h.up, g.inits = h.inits, g.insts = h.insts + 1,
         NEW i, i \notin DOMAIN h.inst, DOMAIN g.inst = DOMAIN h.inst \cup {i},
         g.opened = Cardinality(DOMAIN g.dev), DOMAIN g.dev \subseteq Nat
  PROVE  Counted(g)
<1>1. Cardinality(DOMAIN g.inst) = Cardinality(DOMAIN h.inst) + 1
  BY FS_AddElement
<1>2. Cardinality(DOMAIN h.inst) \in Nat BY FS_CardinalityType
<1>3. h.insts + 1 <= MaxInsts
  <2>1. h.insts \in Nat BY <1>2 DEF Counted
  <2> QED BY <2>1, HbiAssumption, SMT
<1> QED BY <1>1, <1>3, Zenon DEF Counted

\* HBI_open of a device in use.
LEMMA OpenForUser ==
  ASSUME NEW l, Agrees(l), l.hbi.up, l.hbi.insts < MaxInsts, NEW slave,
         NEW d \in DOMAIN l.hbi.dev, l.hbi.dev[d].addr = slave,
         l.hbi.dev[d].users < PerDev
  PROVE  Opens(l, slave, NewUser(l, d))
<1> DEFINE inst == l.hbi.inst
           dev  == l.hbi.dev
           i == FreeSlot(inst)
           o == NewUser(l, d)
           k == o.lay
<1>1. /\ Shape(l) /\ Tied(inst, dev, l.ssl.port, l.hal.taken)
      /\ Counted(l.hbi) /\ l.hbi.up = l.ssl.up
  BY DEF Agrees
<1>2. IsFiniteSet(DOMAIN inst) /\ DOMAIN dev[d] = {"addr", "port", "users"}
  BY <1>1 DEF Tied
<1>3. /\ o.status = "SUCCESS" /\ o.handle = i
      /\ Shape(k) /\ k.ssl = l.ssl /\ k.hal = l.hal
      /\ k.hbi.up = l.hbi.up /\ k.hbi.inits = l.hbi.inits
      /\ k.hbi.opened = l.hbi.opened /\ k.hbi.insts = l.hbi.insts + 1
      /\ HasMore(k.hbi.inst, inst, i, d) /\ Recounts(k.hbi.dev, dev, d, dev[d].users + 1)
  BY <1>1, <1>2, NewUserDoes
<1>4. i \notin DOMAIN inst BY <1>2, SlotIsFree
<1> HIDE DEF i, o, k
<1>5. Tied(k.hbi.inst, k.hbi.dev, l.ssl.port, l.hal.taken)
  BY <1>1, <1>2, <1>3, <1>4, TiedWithUser DEF Recounts
<1>6. DOMAIN k.hbi.inst = DOMAIN inst \cup {i} /\ DOMAIN k.hbi.dev = DOMAIN dev
  BY <1>3 DEF HasMore, Recounts
<1>7. k.hbi.opened = Cardinality(DOMAIN k.hbi.dev) /\ DOMAIN k.hbi.dev \subseteq Nat
  BY <1>1, <1>3, <1>6 DEF Counted
<1>8. Counted(k.hbi) BY <1>1, <1>2, <1>3, <1>4, <1>6, <1>7, CountedUser
<1>9. Agrees(k) BY <1>1, <1>3, <1>5, <1>8, Zenon DEF Agrees
<1>10. \A e \in DOMAIN dev : k.hbi.dev[e].addr = dev[e].addr
  BY <1>3, Zenon DEF Recounts
<1> QED BY <1>3, <1>4, <1>6, <1>9, <1>10, Zenon DEF Opens, k, o

\* HBI_open of a device of its own.
LEMMA OpenForDevice ==
  ASSUME NEW l, Agrees(l), l.hbi.up, l.hbi.insts < MaxInsts, NEW slave
  PROVE  Opens(l, slave, NewDevice(l, slave))
<1> DEFINE inst == l.hbi.inst
           dev  == l.hbi.dev
           port == l.ssl.port
           p == PortOpen(l, slave)
           d == FreeSlot(dev)
           new == [addr |-> slave, port |-> p.handle, users |-> 0]
           m == [p.lay EXCEPT !.hbi.dev = With(@, d, new), !.hbi.opened = @ + 1]
           o == NewUser(m, d)
           k == o.lay
           i == FreeSlot(inst)
<1>1. /\ Shape(l) /\ Tied(inst, dev, port, l.hal.taken)
      /\ Counted(l.hbi) /\ l.hbi.up = l.ssl.up
  BY DEF Agrees
<1>2. IsFiniteSet(DOMAIN inst) /\ IsFiniteSet(DOMAIN dev) /\ IsFiniteSet(DOMAIN port)
  BY <1>1 DEF Tied
<1>3. /\ Shape(p.lay) /\ p.lay.hbi = l.hbi /\ p.lay.ssl.up = l.ssl.up
      /\ p.status # "SUCCESS" => p.lay.ssl = l.ssl /\ p.lay.hal.taken = l.hal.taken
      /\ p.status = "SUCCESS" =>
           /\ slave \notin l.hal.taken /\ p.handle = FreeSlot(port)
           /\ HasMore(p.lay.ssl.port, port, p.handle, slave)
           /\ p.lay.hal.taken = l.hal.taken \cup {slave}
  BY <1>1, PortOpenDoes
<1>4. CASE p.status # "SUCCESS"
  <2>1. NewDevice(l, slave) = Fails(p.lay, "INTERNAL_ERR") BY <1>4 DEF NewDevice
  <2> HIDE DEF p
  <2> QED BY <1>3, <1>4, <2>1, FailedOpen
<1>5. CASE p.status = "SUCCESS"
  <2>1. NewDevice(l, slave) = o BY <1>5 DEF NewDevice
  <2>2. d \notin DOMAIN dev /\ d \in Nat /\ i \notin DOMAIN inst /\ p.handle \notin DOMAIN port
    BY <1>2, <1>3, <1>5, SlotIsFree
  <2>3. /\ DOMAIN new = {"addr", "port", "users"}
        /\ new.addr = slave /\ new.port = p.handle /\ new.users = 0
    OBVIOUS
  <2>4. /\ Shape(m) /\ m.ssl = p.lay.ssl /\ m.hal = p.lay.hal
        /\ m.hbi.dev = With(dev, d, new) /\ m.hbi.opened = l.hbi.opened + 1
        /\ m.hbi.inst = inst /\ m.hbi.insts = l.hbi.insts
        /\ m.hbi.up = l.hbi.up /\ m.hbi.inits = l.hbi.inits
    <3> HIDE DEF p, d, new
    <3> QED BY <1>3 DEF Shape
  <2>5. HasMore(m.hbi.dev, dev, d, new)
    <3> HIDE DEF m, d, new
    <3> QED BY <2>4, Entries
  <2> HIDE DEF p, d, new, m
  <2>6. DOMAIN m.hbi.dev = DOMAIN dev \cup {d} /\ m.hbi.dev[d] = new
    BY <2>5 DEF HasMore
  <2>7. /\ o.status = "SUCCESS" /\ o.handle = i
        /\ Shape(k) /\ k.ssl = m.ssl /\ k.hal = m.hal
        /\ k.hbi.up = m.hbi.up /\ k.hbi.inits = m.hbi.inits
        /\ k.hbi.opened = m.hbi.opened /\ k.hbi.insts = m.hbi.insts + 1
        /\ HasMore(k.hbi.inst, m.hbi.inst, i, d)
        /\ Recounts(k.hbi.dev, m.hbi.dev, d, m.hbi.dev[d].users + 1)
    <3>1. d \in DOMAIN m.hbi.dev /\ DOMAIN m.hbi.dev[d] = {"addr", "port", "users"}
      BY <2>3, <2>6
    <3>2. i = FreeSlot(m.hbi.inst) BY <2>4
    <3> HIDE DEF i
    <3> QED BY <2>4, <3>1, <3>2, NewUserDoes
  <2> HIDE DEF i, o, k
  <2>8. /\ DOMAIN k.hbi.dev = DOMAIN dev \cup {d}
        /\ DOMAIN k.hbi.dev[d] = {"addr", "port", "users"}
        /\ k.hbi.dev[d].users = 1 /\ k.hbi.dev[d].addr = slave
        /\ k.hbi.dev[d].port = p.handle
        /\ \A e \in DOMAIN dev : k.hbi.dev[e] = dev[e]
    BY <2>2, <2>3, <2>5, <2>6, <2>7 DEF HasMore, Recounts
  <2>9. Tied(k.hbi.inst, k.hbi.dev, k.ssl.port, k.hal.taken)
    <3>1. HasMore(k.hbi.inst, inst, i, d) BY <2>4, <2>7
    <3>2. HasMore(k.ssl.port, port, p.handle, slave) /\ k.hal.taken = l.hal.taken \cup {slave}
      BY <1>3, <1>5, <2>4, <2>7
    <3>3. slave \notin l.hal.taken BY <1>3, <1>5
    <3>4. Tied(k.hbi.inst, k.hbi.dev, k.ssl.port, l.hal.taken \cup {slave})
      <4> DEFINE dev2 == k.hbi.dev
                 u == k.hbi.inst
                 q == k.ssl.port
                 taken == l.hal.taken
                 j == p.handle
      <4>1. /\ Tied(inst, dev, port, taken) /\ i \notin DOMAIN inst /\ d \notin DOMAIN dev
            /\ j \notin DOMAIN port /\ slave \notin taken
            /\ HasMore(u, inst, i, d) /\ HasMore(q, port, j, slave)
        BY <1>1, <2>2, <3>1, <3>2, <3>3
      <4>2. /\ DOMAIN dev2 = DOMAIN dev \cup {d}
            /\ DOMAIN dev2[d] = {"addr", "port", "users"}
            /\ dev2[d].users = 1 /\ dev2[d].addr = slave /\ dev2[d].port = j
            /\ \A e \in DOMAIN dev : dev2[e] = dev[e]
        BY <2>8
      <4> HIDE DEF inst, dev, port, dev2, u, q, taken, j
      <4>3. Tied(u, dev2, q, taken \cup {slave}) BY <4>1, <4>2, TiedWithDevice
      <4> QED BY <4>3 DEF u, dev2, q, taken
    <3> QED BY <3>2, <3>4
  <2>10. DOMAIN k.hbi.inst = DOMAIN inst \cup {i} BY <2>4, <2>7 DEF HasMore
  <2>11. k.hbi.opened = Cardinality(DOMAIN k.hbi.dev) /\ DOMAIN k.hbi.dev \subseteq Nat
    <3>1. Cardinality(DOMAIN dev \cup {d}) = Cardinality(DOMAIN dev) + 1
      BY <1>2, <2>2, FS_AddElement
    <3>2. l.hbi.opened = Cardinality(DOMAIN dev) /\ DOMAIN dev \subseteq Nat
      BY <1>1 DEF Counted
    <3>3. k.hbi.opened = Cardinality(DOMAIN dev) + 1 BY <2>4, <2>7, <3>2, Zenon
    <3> QED BY <2>2, <2>8, <3>1, <3>2, <3>3
  <2>12. Counted(k.hbi)
    <3>1. /\ k.hbi.up = l.hbi.up /\ k.hbi.inits = l.hbi.inits
          /\ k.hbi.insts = l.hbi.insts + 1
      BY <2>4, <2>7, Zenon
    <3> QED BY <1>1, <1>2, <2>2, <2>10, <2>11, <3>1, CountedUser
  <2>13. k.hbi.up = k.ssl.up BY <1>1, <1>3, <2>4, <2>7, Zenon
  <2>14. Agrees(k) BY <2>7, <2>9, <2>12, <2>13, Zenon DEF Agrees
  <2>15. /\ k.hbi.up = l.hbi.up /\ k.hbi.inits = l.hbi.inits
         /\ k.hbi.insts = l.hbi.insts + 1 /\ o.status = "SUCCESS" /\ o.handle = i
    BY <2>4, <2>7, Zenon
  <2>16. \A e \in DOMAIN k.hbi.dev : \/ k.hbi.dev[e].addr = slave
                                     \/ e \in DOMAIN dev /\ k.hbi.dev[e].addr = dev[e].addr
    BY <2>8, Zenon
  <2> QED BY <2>1, <2>2, <2>10, <2>14, <2>15, <2>16, Zenon DEF Opens, k
<1> QED BY <1>4, <1>5

\* HBI_open keeps the layers together, whatever it returns.
LEMMA OpenDoes ==
  ASSUME NEW l, Agrees(l), NEW slave
  PROVE  Opens(l, slave, HBI_open(l, slave))
<1> DEFINE o == HBI_open(l, slave)
           S == OpenedAt(l, slave)
           d == Min(S)
<1>1. Shape(l) /\ Counted(l.hbi) /\ Tied(l.hbi.inst, l.hbi.dev, l.ssl.port, l.hal.taken)
  BY DEF Agrees
<1>2. Opens(l, slave, Fails(l, "NOT_INIT")) /\ Opens(l, slave, Fails(l, "RESOURCE_ERR"))
  BY <1>1, FailedOpen
<1>3. CASE ~l.hbi.up \/ l.hbi.insts >= MaxInsts
  <2>1. o = Fails(l, "NOT_INIT") \/ o = Fails(l, "RESOURCE_ERR")
    BY <1>3, Zenon DEF HBI_open
  <2> QED BY <1>2, <2>1
<1>4. CASE l.hbi.up /\ ~(l.hbi.insts >= MaxInsts)
  <2>1. l.hbi.insts < MaxInsts
    <3>1. IsFiniteSet(DOMAIN l.hbi.inst) BY <1>1 DEF Tied
    <3>2. l.hbi.insts \in Nat BY <1>1, <3>1, FS_CardinalityType DEF Counted
    <3> QED BY <1>4, <3>2, HbiAssumption, SMT
  <2>2. CASE S # {}
    <3>1. S \subseteq Nat BY <1>1 DEF Counted, OpenedAt
    <3>2. d \in S BY <2>2, <3>1, FirstIsOne
    <3>3. d \in DOMAIN l.hbi.dev /\ l.hbi.dev[d].addr = slave BY <3>2, Zenon DEF OpenedAt
    <3>4. l.hbi.dev[d].users \in 1..PerDev BY <1>1, <3>3 DEF Tied
    <3>5. CASE l.hbi.dev[d].users >= PerDev
      BY <1>2, <1>4, <2>2, <3>5 DEF HBI_open
    <3>6. CASE ~(l.hbi.dev[d].users >= PerDev)
      <4>1. l.hbi.dev[d].users < PerDev BY <3>4, <3>6, HbiAssumption, SMT
      <4>2. Opens(l, slave, NewUser(l, d))
        <5> HIDE DEF d
        <5> QED BY <1>4, <2>1, <3>3, <4>1, OpenForUser
      <4>3. o = NewUser(l, d) BY <1>4, <2>2, <3>6 DEF HBI_open
      <4> QED BY <4>2, <4>3
    <3> QED BY <3>5, <3>6
  <2>3. CASE S = {}
    <3>1. o = Fails(l, "RESOURCE_ERR") \/ o = NewDevice(l, slave)
      BY <1>4, <2>3 DEF HBI_open
    <3>2. Opens(l, slave, NewDevice(l, slave)) BY <1>4, <2>1, OpenForDevice
    <3> QED BY <1>2, <3>1, <3>2
  <2> QED BY <2>2, <2>3
<1> QED BY <1>3, <1>4

\* SSL_port_close and hal_close: the port of a device that is open can be closed.
LEMMA PortCloseDoes ==
  ASSUME NEW l, Shape(l), l.ssl.up, NEW p \in DOMAIN l.ssl.port
  PROVE  LET c == PortClose(l, p)
             k == c.lay
         IN /\ c.status = "SUCCESS" /\ Shape(k) /\ k.hbi = l.hbi /\ k.ssl.up = l.ssl.up
            /\ HasLess(k.ssl.port, l.ssl.port, p)
            /\ k.hal.taken = l.hal.taken \ {l.ssl.port[p]}
<1> DEFINE left  == l.hal.taken \ {l.ssl.port[p]}
           ports == Without(l.ssl.port, p)
           k == PortClose(l, p).lay
<1>1. /\ PortClose(l, p).status = "SUCCESS"
      /\ k = [l EXCEPT !.hal.taken = left, !.ssl.port = ports]
  BY DEF PortClose, Result
<1>2. HasLess(ports, l.ssl.port, p) BY Entries
<1> HIDE DEF left, ports, k
<1>3. /\ Shape(k) /\ k.hbi = l.hbi /\ k.ssl.up = l.ssl.up /\ k.ssl.port = ports
      /\ k.hal.taken = left
  BY <1>1 DEF Shape
<1> QED BY <1>1, <1>2, <1>3 DEF k, left

\* The counters after one user less.
LEMMA CountedLess ==
  ASSUME NEW h, Counted(h), IsFiniteSet(DOMAIN h.inst), NEW i \in DOMAIN h.inst,
         NEW g, g.up = h.up, g.inits = h.inits, g.insts = h.insts - 1,
         DOMAIN g.inst = DOMAIN h.inst \ {i},
         g.opened = Cardinality(DOMAIN g.dev), DOMAIN g.dev \subseteq Nat
  PROVE  Counted(g) /\ h.up
<1>1. /\ Cardinality(DOMAIN g.inst) = Cardinality(DOMAIN h.inst) - 1
      /\ Cardinality(DOMAIN h.inst) \in Nat
  BY FS_RemoveElement, FS_CardinalityType
<1>2. Cardinality(DOMAIN h.inst) # 0 BY FS_EmptySet
<1>3. h.up BY <1>2, Zenon DEF Counted
<1>4. h.insts - 1 <= MaxInsts
  <2>1. h.insts \in Nat /\ h.insts <= MaxInsts BY <1>1 DEF Counted
  <2> QED BY <2>1, HbiAssumption, SMT
<1> QED BY <1>1, <1>3, <1>4, Zenon DEF Counted

\* What HBI_close promises of a handle in use.
Closes(l, h, c) ==
  /\ Agrees(c.lay) /\ c.lay.hbi.up = l.hbi.up /\ c.lay.hbi.inits = l.hbi.inits
  /\ DOMAIN c.lay.hbi.inst = DOMAIN l.hbi.inst \ {h}
  /\ c.lay.hbi.insts = l.hbi.insts - 1
  /\ \A e \in DOMAIN c.lay.hbi.dev :
       e \in DOMAIN l.hbi.dev /\ c.lay.hbi.dev[e].addr = l.hbi.dev[e].addr

\* HBI_close while the device has other users.
LEMMA CloseForUser ==
  ASSUME NEW l, Agrees(l), NEW h \in DOMAIN l.hbi.inst,
         NEW d, d = l.hbi.inst[h], l.hbi.dev[d].users # 1
  PROVE  Closes(l, h, HBI_close(l, h))
<1> DEFINE inst == l.hbi.inst
           dev  == l.hbi.dev
           c == HBI_close(l, h)
           k == c.lay
           t == Without(inst, h)
           m == [l EXCEPT !.hbi.inst = t, !.hbi.insts = @ - 1]
<1>1. /\ Shape(l) /\ Tied(inst, dev, l.ssl.port, l.hal.taken)
      /\ Counted(l.hbi) /\ l.hbi.up = l.ssl.up
  BY DEF Agrees
<1>2. IsFiniteSet(DOMAIN inst) /\ d \in DOMAIN dev /\ DOMAIN dev[d] = {"addr", "port", "users"}
  BY <1>1 DEF Tied
<1>3. HasLess(t, inst, h) BY Entries
<1>4. l.hbi.up
  <2>1. Cardinality(DOMAIN inst) # 0 BY <1>2, FS_EmptySet
  <2> QED BY <1>1, <2>1, Zenon DEF Counted
<1>5. k = [m EXCEPT !.hbi.dev[d].users = @ - 1]
  BY <1>4 DEF HBI_close, BadHandle, Result, LessUser
<1>6. /\ Shape(m) /\ m.ssl = l.ssl /\ m.hal = l.hal
      /\ m.hbi.inst = t /\ m.hbi.insts = l.hbi.insts - 1
      /\ m.hbi.dev = dev /\ m.hbi.opened = l.hbi.opened
      /\ m.hbi.up = l.hbi.up /\ m.hbi.inits = l.hbi.inits
  <2> HIDE DEF t
  <2> QED BY <1>1 DEF Shape
<1> HIDE DEF m, t, k
<1>7. /\ Shape(k) /\ k.ssl = m.ssl /\ k.hal = m.hal
      /\ k.hbi.inst = m.hbi.inst /\ k.hbi.insts = m.hbi.insts
      /\ k.hbi.opened = m.hbi.opened
      /\ k.hbi.up = m.hbi.up /\ k.hbi.inits = m.hbi.inits
      /\ k.hbi.dev = [m.hbi.dev EXCEPT ![d].users = @ - 1]
  BY <1>5, <1>6 DEF Shape
<1>8. Recounts(k.hbi.dev, dev, d, dev[d].users - 1)
  BY <1>2, <1>6, <1>7 DEF Recounts
<1>9. Tied(k.hbi.inst, k.hbi.dev, k.ssl.port, k.hal.taken)
  <2>1. HasLess(k.hbi.inst, inst, h) BY <1>3, <1>6, <1>7
  <2>2. k.ssl.port = l.ssl.port /\ k.hal.taken = l.hal.taken BY <1>6, <1>7
  <2>3. Tied(k.hbi.inst, k.hbi.dev, l.ssl.port, l.hal.taken)
    BY <1>1, <1>2, <1>8, <2>1, TiedLessUser DEF Recounts
  <2> QED BY <2>2, <2>3
<1>10. DOMAIN k.hbi.inst = DOMAIN inst \ {h} /\ DOMAIN k.hbi.dev = DOMAIN dev
  BY <1>3, <1>6, <1>7, <1>8 DEF HasLess, Recounts
<1>11. /\ k.hbi.up = l.hbi.up /\ k.hbi.inits = l.hbi.inits
       /\ k.hbi.insts = l.hbi.insts - 1 /\ k.hbi.opened = l.hbi.opened
       /\ k.hbi.up = k.ssl.up
  BY <1>1, <1>6, <1>7, Zenon
<1>12. k.hbi.opened = Cardinality(DOMAIN k.hbi.dev) /\ DOMAIN k.hbi.dev \subseteq Nat
  BY <1>1, <1>10, <1>11 DEF Counted
<1>13. Counted(k.hbi) BY <1>1, <1>2, <1>10, <1>11, <1>12, CountedLess
<1>14. Agrees(k) BY <1>7, <1>9, <1>11, <1>13, Zenon DEF Agrees
<1>15. \A e \in DOMAIN k.hbi.dev : e \in DOMAIN dev /\ k.hbi.dev[e].addr = dev[e].addr
  BY <1>8, <1>10, Zenon DEF Recounts
<1> QED BY <1>10, <1>11, <1>14, <1>15, Zenon DEF Closes, k

\* HBI_close by the last user, which closes the port and its master too.
LEMMA CloseForDevice ==
  ASSUME NEW l, Agrees(l), NEW h \in DOMAIN l.hbi.inst,
         NEW d, d = l.hbi.inst[h], l.hbi.dev[d].users = 1
  PROVE  Closes(l, h, HBI_close(l, h))
<1> DEFINE inst == l.hbi.inst
           dev  == l.hbi.dev
           port == l.ssl.port
           p == dev[d].port
           c == PortClose(l, p)
           t == Without(inst, h)
           v == Without(dev, d)
           m == LessUser(c.lay, h)
           k == HBI_close(l, h).lay
<1>1. /\ Shape(l) /\ Tied(inst, dev, port, l.hal.taken)
      /\ Counted(l.hbi) /\ l.hbi.up = l.ssl.up
  BY DEF Agrees
<1>2. /\ IsFiniteSet(DOMAIN inst) /\ IsFiniteSet(DOMAIN dev) /\ d \in DOMAIN dev
      /\ p \in DOMAIN port
  BY <1>1 DEF Tied
<1>3. HasLess(t, inst, h) /\ HasLess(v, dev, d) BY Entries
<1>4. l.hbi.up
  <2>1. Cardinality(DOMAIN inst) # 0 BY <1>2, FS_EmptySet
  <2> QED BY <1>1, <2>1, Zenon DEF Counted
<1>5. /\ c.status = "SUCCESS" /\ Shape(c.lay) /\ c.lay.hbi = l.hbi
      /\ c.lay.ssl.up = l.ssl.up /\ HasLess(c.lay.ssl.port, port, p)
      /\ c.lay.hal.taken = l.hal.taken \ {port[p]}
  <2> HIDE DEF p
  <2> QED BY <1>1, <1>2, <1>4, PortCloseDoes
<1>6. k = [m EXCEPT !.hbi.dev = v, !.hbi.opened = @ - 1]
  <2>1. PortClose(l, l.hbi.dev[d].port).status = "SUCCESS" BY <1>5
  <2>2. HBI_close(l, h) = Result(LessDevice(LessUser(c.lay, h), d), "SUCCESS", None)
    BY <1>4, <2>1 DEF HBI_close, BadHandle
  <2>3. k = LessDevice(m, d) BY <2>2 DEF Result
  <2>4. m.hbi.dev = dev
    <3> HIDE DEF c
    <3> QED BY <1>5 DEF Shape, LessUser
  <2> HIDE DEF m, k
  <2> QED BY <2>3, <2>4 DEF LessDevice
<1> HIDE DEF c, p
<1>7. /\ Shape(m) /\ m.ssl = c.lay.ssl /\ m.hal = c.lay.hal
      /\ m.hbi.inst = t /\ m.hbi.insts = l.hbi.insts - 1
      /\ m.hbi.dev = dev /\ m.hbi.opened = l.hbi.opened
      /\ m.hbi.up = l.hbi.up /\ m.hbi.inits = l.hbi.inits
  BY <1>5 DEF Shape, LessUser
<1> HIDE DEF m, t, v, k
<1>8. /\ Shape(k) /\ k.ssl = m.ssl /\ k.hal = m.hal
      /\ k.hbi.inst = m.hbi.inst /\ k.hbi.insts = m.hbi.insts
      /\ k.hbi.opened = m.hbi.opened - 1 /\ k.hbi.dev = v
      /\ k.hbi.up = m.hbi.up /\ k.hbi.inits = m.hbi.inits
  BY <1>6, <1>7 DEF Shape
<1>9. Tied(k.hbi.inst, k.hbi.dev, k.ssl.port, k.hal.taken)
  <2>1. HasLess(k.hbi.inst, inst, h) /\ HasLess(k.hbi.dev, dev, d) BY <1>3, <1>7, <1>8
  <2>2. HasLess(k.ssl.port, port, p) /\ k.hal.taken = l.hal.taken \ {port[p]}
    BY <1>5, <1>7, <1>8
  <2>3. Tied(k.hbi.inst, k.hbi.dev, k.ssl.port, l.hal.taken \ {port[p]})
    BY <1>1, <2>1, <2>2, TiedLessDevice DEF p
  <2> QED BY <2>2, <2>3
<1>10. DOMAIN k.hbi.inst = DOMAIN inst \ {h} /\ DOMAIN k.hbi.dev = DOMAIN dev \ {d}
  BY <1>3, <1>7, <1>8 DEF HasLess
<1>11. /\ k.hbi.up = l.hbi.up /\ k.hbi.inits = l.hbi.inits
       /\ k.hbi.insts = l.hbi.insts - 1 /\ k.hbi.opened = l.hbi.opened - 1
       /\ k.hbi.up = k.ssl.up
  BY <1>1, <1>5, <1>7, <1>8, Zenon
<1>12. k.hbi.opened = Cardinality(DOMAIN k.hbi.dev) /\ DOMAIN k.hbi.dev \subseteq Nat
  <2>1. Cardinality(DOMAIN dev \ {d}) = Cardinality(DOMAIN dev) - 1
    BY <1>2, FS_RemoveElement
  <2>2. l.hbi.opened = Cardinality(DOMAIN dev) /\ DOMAIN dev \subseteq Nat
    BY <1>1 DEF Counted
  <2>3. k.hbi.opened = Cardinality(DOMAIN dev) - 1 BY <1>11, <2>2, Zenon
  <2> QED BY <1>10, <2>1, <2>2, <2>3
<1>13. Counted(k.hbi) BY <1>1, <1>2, <1>10, <1>11, <1>12, CountedLess
<1>14. Agrees(k) BY <1>8, <1>9, <1>11, <1>13, Zenon DEF Agrees
<1>15. \A e \in DOMAIN k.hbi.dev : e \in DOMAIN dev /\ k.hbi.dev[e].addr = dev[e].addr
  BY <1>3, <1>8, <1>10 DEF HasLess
<1> QED BY <1>10, <1>11, <1>14, <1>15, Zenon DEF Closes, k

\* HBI_close gives back what the handle had, and of any other handle does nothing.
LEMMA CloseDoes ==
  ASSUME NEW l, Agrees(l), NEW h
  PROVE  LET c == HBI_close(l, h)
         IN /\ h \in DOMAIN l.hbi.inst => Closes(l, h, c)
            /\ h \notin DOMAIN l.hbi.inst => c.lay = l
            /\ Agrees(c.lay)
<1>1. ASSUME h \in DOMAIN l.hbi.inst PROVE Closes(l, h, HBI_close(l, h))
  <2>1. l.hbi.dev[l.hbi.inst[h]].users = 1 \/ l.hbi.dev[l.hbi.inst[h]].users # 1
    OBVIOUS
  <2> QED BY <1>1, <2>1, CloseForUser, CloseForDevice
<1>2. ASSUME h \notin DOMAIN l.hbi.inst PROVE HBI_close(l, h).lay = l
  BY <1>2 DEF HBI_close, BadHandle, Fails, Result
<1>3. Closes(l, h, HBI_close(l, h)) => Agrees(HBI_close(l, h).lay) BY DEF Closes
<1> QED BY <1>1, <1>2, <1>3

\* SSL_init and HBI_init: a first initialisation starts from empty tables.
LEMMA InitDoes ==
  ASSUME NEW l, Agrees(l)
  PROVE  LET k == HBI_init(l).lay
         IN /\ Agrees(k) /\ k.hbi.up /\ k.hbi.inits = l.hbi.inits + 1
            /\ k.hbi.insts = l.hbi.insts /\ DOMAIN k.hbi.inst = DOMAIN l.hbi.inst
            /\ \A d \in DOMAIN k.hbi.dev :
                 d \in DOMAIN l.hbi.dev /\ k.hbi.dev[d].addr = l.hbi.dev[d].addr
<1> DEFINE k == HBI_init(l).lay
<1>1. /\ Shape(l) /\ Tied(l.hbi.inst, l.hbi.dev, l.ssl.port, l.hal.taken)
      /\ Counted(l.hbi) /\ l.hbi.up = l.ssl.up
  BY DEF Agrees
<1>2. CASE l.hbi.up
  <2>1. k = [l EXCEPT !.hbi.inits = @ + 1] BY <1>2 DEF HBI_init, Result
  <2> HIDE DEF k
  <2>2. /\ Shape(k) /\ k.ssl = l.ssl /\ k.hal = l.hal /\ k.hbi.up = l.hbi.up
        /\ k.hbi.inits = l.hbi.inits + 1 /\ k.hbi.insts = l.hbi.insts
        /\ k.hbi.opened = l.hbi.opened /\ k.hbi.inst = l.hbi.inst /\ k.hbi.dev = l.hbi.dev
    BY <1>1, <2>1 DEF Shape
  <2>3. l.hbi.inits + 1 \in Nat /\ l.hbi.inits + 1 > 0
    <3>1. l.hbi.inits \in Nat BY <1>1 DEF Counted
    <3> QED BY <3>1, SMT
  <2>4. Counted(k.hbi) BY <1>1, <1>2, <2>2, <2>3, Zenon DEF Counted
  <2>5. Agrees(k) BY <1>1, <2>2, <2>4, Zenon DEF Agrees
  <2> QED BY <1>2, <2>2, <2>5 DEF k
<1>3. CASE ~l.hbi.up
  <2> DEFINE m == [l EXCEPT !.ssl = [up |-> TRUE, port |-> Nothing],
                            !.hal = [ready |-> {}, taken |-> {}]]
             new == [up |-> TRUE, inits |-> 1, insts |-> 0, opened |-> 0,
                     inst |-> Nothing, dev |-> Nothing]
  <2>1. k = [m EXCEPT !.hbi = new]
    <3>1. ~l.ssl.up BY <1>1, <1>3
    <3>2. SSL_init(l) = m BY <3>1 DEF SSL_init
    <3> HIDE DEF m
    <3> QED BY <1>3, <3>2 DEF HBI_init, Result
  <2>2. DOMAIN Nothing = {} BY DEF Nothing
  <2>3. l.hbi.insts = 0 /\ l.hbi.inits = 0
    <3>1. l.hbi.inits \in Nat /\ ~(l.hbi.inits > 0) /\ l.hbi.insts = 0
      BY <1>1, <1>3, Zenon DEF Counted
    <3> QED BY <3>1, SMT
  <2>4. DOMAIN l.hbi.inst = {} BY <2>3, NoUserNoDevice
  <2>5. /\ DOMAIN m = {"hbi", "ssl", "hal"}
        /\ DOMAIN m.ssl = {"up", "port"} /\ m.ssl.up = TRUE /\ m.ssl.port = Nothing
        /\ DOMAIN m.hal = {"ready", "taken"} /\ m.hal.taken = {}
    BY <1>1 DEF Shape
  <2>6. /\ DOMAIN new = {"up", "inits", "insts", "opened", "inst", "dev"}
        /\ new.up = TRUE /\ new.inits = 1 /\ new.insts = 0 /\ new.opened = 0
        /\ new.inst = Nothing /\ new.dev = Nothing
    OBVIOUS
  <2> HIDE DEF m, new, k
  <2>7. k.hbi = new /\ k.ssl = m.ssl /\ k.hal = m.hal /\ Shape(k)
    BY <2>1, <2>5, <2>6 DEF Shape
  <2>8. Tied(Nothing, Nothing, Nothing, {}) /\ Cardinality(DOMAIN Nothing) = 0
    BY <2>2, EmptyIsTied
  <2>9. Counted(new)
    <3>1. 0 <= MaxInsts /\ 1 \in Nat /\ 1 > 0 BY HbiAssumption, SMT
    <3> QED BY <2>2, <2>6, <2>8, <3>1 DEF Counted
  <2>10. Agrees(k) BY <2>5, <2>6, <2>7, <2>8, <2>9, Zenon DEF Agrees
  <2> QED BY <2>2, <2>3, <2>4, <2>6, <2>7, <2>10 DEF k
<1> QED BY <1>1, <1>2, <1>3, Zenon DEF Counted

\* HBI_term: one initialisation less; the last one needs that nobody is left.
LEMMA TermDoes ==
  ASSUME NEW l, Agrees(l)
  PROVE  LET k == HBI_term(l).lay
         IN /\ Agrees(k)
            /\ k.hbi.insts = l.hbi.insts /\ k.hbi.inst = l.hbi.inst /\ k.hbi.dev = l.hbi.dev
            /\ l.hbi.inits = 0 => k.hbi.inits = 0
            /\ l.hbi.inits > 1 \/ (l.hbi.inits = 1 /\ l.hbi.insts = 0) =>
                 k.hbi.inits = l.hbi.inits - 1
<1> DEFINE k == HBI_term(l).lay
<1>1. /\ Shape(l) /\ Tied(l.hbi.inst, l.hbi.dev, l.ssl.port, l.hal.taken)
      /\ Counted(l.hbi) /\ l.hbi.up = l.ssl.up
  BY DEF Agrees
<1>2. /\ l.hbi.inits \in Nat /\ l.hbi.up \in BOOLEAN /\ (l.hbi.up <=> l.hbi.inits > 0)
      /\ ~l.hbi.up => l.hbi.insts = 0
  BY <1>1 DEF Counted
<1>3. CASE ~l.hbi.up
  <2>1. k = l BY <1>3 DEF HBI_term, Result
  <2>2. l.hbi.inits = 0 BY <1>2, <1>3, SMT
  <2>3. ~(0 > 1) BY SMT
  <2> QED BY <2>1, <2>2, <2>3
<1>4. CASE l.hbi.up /\ l.hbi.inits > 1
  <2>1. k = [l EXCEPT !.hbi.inits = @ - 1] BY <1>4 DEF HBI_term, Result
  <2> HIDE DEF k
  <2>2. /\ Shape(k) /\ k.ssl = l.ssl /\ k.hal = l.hal /\ k.hbi.up = l.hbi.up
        /\ k.hbi.inits = l.hbi.inits - 1 /\ k.hbi.insts = l.hbi.insts
        /\ k.hbi.opened = l.hbi.opened /\ k.hbi.inst = l.hbi.inst /\ k.hbi.dev = l.hbi.dev
    BY <1>1, <2>1 DEF Shape
  <2>3. l.hbi.inits - 1 \in Nat /\ l.hbi.inits - 1 > 0 /\ l.hbi.inits # 0 BY <1>2, <1>4, SMT
  <2>4. Counted(k.hbi) BY <1>1, <1>4, <2>2, <2>3, Zenon DEF Counted
  <2>5. Agrees(k) BY <1>1, <2>2, <2>4, Zenon DEF Agrees
  <2> QED BY <2>2, <2>3, <2>5 DEF k
<1>5. CASE l.hbi.up /\ ~(l.hbi.inits > 1) /\ l.hbi.insts # 0
  <2>1. k = l BY <1>5 DEF HBI_term, Fails, Result
  <2> QED BY <1>2, <1>5, <2>1
<1>6. CASE l.hbi.up /\ ~(l.hbi.inits > 1) /\ l.hbi.insts = 0
  <2>1. /\ DOMAIN l.hbi.inst = {} /\ DOMAIN l.ssl.port = {} /\ l.hbi.opened = 0
    BY <1>6, NoUserNoDevice
  <2> DEFINE t == [l EXCEPT !.ssl.up = FALSE]
  <2>2. SSL_term(l) = Result(t, "OK", None) BY <1>1, <1>6, <2>1 DEF SSL_term
  <2>3. SSL_term(l).status = "OK" /\ SSL_term(l).lay = t BY <2>2 DEF Result
  <2>4. /\ Shape(t) /\ t.hbi = l.hbi /\ t.ssl.port = l.ssl.port /\ t.hal = l.hal
        /\ t.ssl.up = FALSE
    BY <1>1 DEF Shape
  <2> HIDE DEF t
  <2>5. k = [t EXCEPT !.hbi.up = FALSE, !.hbi.inits = @ - 1]
    BY <1>6, <2>1, <2>3 DEF HBI_term, Result
  <2> HIDE DEF k
  <2>6. /\ Shape(k) /\ k.ssl = t.ssl /\ k.hal = l.hal /\ k.hbi.up = FALSE
        /\ k.hbi.inits = l.hbi.inits - 1 /\ k.hbi.insts = l.hbi.insts
        /\ k.hbi.opened = l.hbi.opened /\ k.hbi.inst = l.hbi.inst /\ k.hbi.dev = l.hbi.dev
    BY <2>4, <2>5 DEF Shape
  <2>7. l.hbi.inits = 1 /\ l.hbi.inits - 1 = 0 BY <1>2, <1>6, SMT
  <2>8. 0 \in Nat /\ ~(0 > 0) BY SMT
  <2>9. Counted(k.hbi) BY <1>1, <1>6, <2>6, <2>7, <2>8, Zenon DEF Counted
  <2>10. Agrees(k) BY <1>1, <2>4, <2>6, <2>9, Zenon DEF Agrees
  <2> QED BY <2>6, <2>7, <2>10 DEF k
<1> QED BY <1>2, <1>3, <1>4, <1>5, <1>6

---------------------------------------------------------------------------
(* The layers agree.                                                       *)

\* The agreement of the calls is the one of the property.
LEMMA AgreesIsMeant ==
  ASSUME Agrees(lay)
  PROVE  LayersAgree
<1> DEFINE h == lay.hbi
           s == lay.ssl
           D == DOMAIN h.dev
           P == DOMAIN s.port
           f == [d \in D |-> h.dev[d].port]
<1>1. Tied(h.inst, h.dev, s.port, lay.hal.taken) /\ Counted(h) /\ h.up = s.up
  BY DEF Agrees
<1>2. /\ IsFiniteSet(D)
      /\ \A d \in D : h.dev[d].port \in P
      /\ \A p \in P : \E d \in D : h.dev[d].port = p
      /\ \A d, e \in D : h.dev[d].port = h.dev[e].port => d = e
  BY <1>1 DEF Tied
<1>3. Cardinality(P) = Cardinality(D)
  <2>1. f \in [D -> P] /\ \A d \in D : f[d] = h.dev[d].port BY <1>2
  <2> HIDE DEF f, D, P
  <2>2. f \in Surjection(D, P) BY <1>2, <2>1 DEF Surjection
  <2>3. f \in Injection(D, P) BY <1>2, <2>1 DEF Injection, IsInjective
  <2> QED BY <1>2, <2>2, <2>3, FS_Surjection
<1>4. {h.dev[d].port : d \in D} = P BY <1>2
<1>5. /\ \A i \in DOMAIN h.inst : h.inst[i] \in D
      /\ \A d \in D :
           /\ h.dev[d].users = Cardinality({i \in DOMAIN h.inst : h.inst[i] = d})
           /\ h.dev[d].users \in 1..PerDev
           /\ h.dev[d].port \in P /\ s.port[h.dev[d].port] = h.dev[d].addr
      /\ {s.port[p] : p \in P} = lay.hal.taken
  BY <1>1 DEF Tied, UsersOf
<1>6. /\ h.insts = Cardinality(DOMAIN h.inst) /\ h.insts <= MaxInsts
      /\ h.opened = Cardinality(D)
      /\ (h.up <=> h.inits > 0) /\ (~h.up => h.insts = 0)
  BY <1>1 DEF Counted
<1> QED BY <1>1, <1>3, <1>4, <1>5, <1>6, Zenon DEF LayersAgree

\* Every state of the layers is reached by the calls.
Reached(l, k) ==
  \/ k = l \/ k = HBI_init(l).lay \/ k = HBI_term(l).lay
  \/ k = HBI_open(l, Slave).lay \/ \E h : k = HBI_close(l, h).lay

\* Each call keeps the layers in agreement.
LEMMA ReachedAgrees ==
  ASSUME NEW l, Agrees(l), NEW k, Reached(l, k)
  PROVE  Agrees(k)
<1>1. Agrees(HBI_init(l).lay) BY InitDoes
<1>2. Agrees(HBI_term(l).lay) BY TermDoes
<1>3. Agrees(HBI_open(l, Slave).lay) BY OpenDoes DEF Opens
<1>4. \A h : Agrees(HBI_close(l, h).lay) BY CloseDoes
<1> QED BY <1>1, <1>2, <1>3, <1>4, Zenon DEF Reached

\* So does the end of a function.
LEMMA ClosedOnceAgrees ==
  ASSUME NEW l, Agrees(l)
  PROVE  Agrees(ClosedOnce(l))
<1>1. Agrees(HBI_close(l, audio.handle).lay) BY CloseDoes
<1> QED BY <1>1, TermDoes DEF ClosedOnce

\* What a command or a step of a function does to the layers and to the caller.
Going == UNCHANGED <<lay, audio>> /\ cpu'.fn = cpu.fn

\* The records of the model have their fields.
Shaped ==
  /\ DOMAIN cpu = {"fn", "at", "cmd", "now", "i"}
  /\ DOMAIN audio = {"handle", "usable"} /\ audio.usable \in BOOLEAN
  /\ other \in [Others -> {None, "init", "open"}]
  /\ DOMAIN chip = {"app", "ram", "images", "flag", "reg", "result"}
  /\ DOMAIN chip.result = {"of", "val"}
  /\ DOMAIN link = {"page", "done", "meant"}

\* Giving a command changes nothing but the state of the function.
LEMMA GivesGoes ==
  ASSUME Shaped, NEW cmd, Gives(cmd)
  PROVE  Going /\ DOMAIN cpu' = DOMAIN cpu
BY DEF Shaped, Gives, Going

\* When a command returns, the function ends or goes on without a call of the library.
LEMMA SucceedsGoes ==
  ASSUME Shaped, Succeeds
  PROVE  EndsOpen \/ EndsClosed \/ (Going /\ DOMAIN cpu' = DOMAIN cpu)
<1>1. CASE BlockSent
  <2>1. \/ cpu' = [cpu EXCEPT !.i = @ + 1, !.at = "mode"] /\ UNCHANGED <<lay, audio>>
        \/ Gives("LOAD_FWR_COMPLETE")
    BY <1>1, Zenon DEF BlockSent
  <2> QED BY <2>1, GivesGoes DEF Shaped, Going
<1>2. CASE cpu' = [cpu EXCEPT !.at = "config"] /\ UNCHANGED <<lay, audio>>
  BY <1>2 DEF Shaped, Going
<1>3. CASE Gives("START_FWR") BY <1>3, GivesGoes
<1>4. CASE EndsOpen \/ EndsClosed BY <1>4
<1> QED BY <1>1, <1>2, <1>3, <1>4 DEF Succeeds

\* Each step of a command.
LEMMA CommandGoes ==
  ASSUME Shaped, Count \/ Config \/ Command
  PROVE  /\ cpu.at # "idle" /\ UNCHANGED other
         /\ EndsOpen \/ EndsClosed \/ (Going /\ DOMAIN cpu' = DOMAIN cpu)
<1> DEFINE Goes == EndsOpen \/ EndsClosed \/ (Going /\ DOMAIN cpu' = DOMAIN cpu)
<1>1. \A x : cpu' = [cpu EXCEPT !.at = x] /\ UNCHANGED <<lay, audio>> => Goes
  BY DEF Shaped, Going
<1>2. Failing => Goes BY DEF Failing
<1>3. Succeeds => Goes BY SucceedsGoes
<1>4. cpu' = InBootMode(cpu) /\ UNCHANGED <<lay, audio>> => Goes
  <2>1. InBootMode(cpu) \in {[cpu EXCEPT !.at = "send"], [cpu EXCEPT !.at = "acquire"]}
    BY DEF InBootMode
  <2> QED BY <1>1, <2>1
<1>5. FlashReady => Goes BY DEF FlashReady, Shaped, Going
<1>6. CASE Count
  <2>1. cpu.at = "count" /\ UNCHANGED other BY <1>6, Zenon DEF Count
  <2>2. CASE EndsOpen BY <2>1, <2>2
  <2>3. CASE /\ cpu' = [cpu EXCEPT !.at = "mode", !.cmd = "LOAD_FWR_FROM_HOST"]
             /\ UNCHANGED <<lay, audio>>
    BY <2>1, <2>3 DEF Shaped, Going
  <2> QED BY <1>6, <2>2, <2>3 DEF Count
<1> HIDE DEF Goes
<1>7. CASE Config BY <1>7 DEF Config, Goes
<1>8. CASE CheckMode
  <2>1. \/ cpu' = InBootMode(cpu) /\ UNCHANGED <<lay, audio>>
        \/ Failing
        \/ cpu' = [cpu EXCEPT !.at = "reset"] /\ UNCHANGED <<lay, audio>>
    BY <1>8 DEF CheckMode
  <2>2. cpu.at = "mode" /\ UNCHANGED other BY <1>8, Zenon DEF CheckMode
  <2> QED BY <1>1, <1>2, <1>4, <2>1, <2>2 DEF Goes
<1>9. CASE Reset
  <2>1. \/ cpu' = InBootMode(cpu) /\ UNCHANGED <<lay, audio>>
        \/ Failing
    BY <1>9, Zenon DEF Reset
  <2>2. cpu.at = "reset" /\ UNCHANGED other BY <1>9, Zenon DEF Reset
  <2> QED BY <1>2, <1>4, <2>1, <2>2 DEF Goes
<1>10. CASE SendBlock
  <2>1. cpu.at = "send" /\ UNCHANGED other /\ Succeeds BY <1>10, Zenon DEF SendBlock
  <2> QED BY <1>3, <2>1 DEF Goes
<1>11. CASE WriteParam
  <2>1. /\ cpu.at = "param" /\ UNCHANGED other
        /\ cpu' = [cpu EXCEPT !.at = "acquire"] /\ UNCHANGED <<lay, audio>>
    BY <1>11, Zenon DEF WriteParam
  <2> QED BY <1>1, <2>1 DEF Goes
<1>12. CASE Issue
  <2>1. /\ cpu.at = "acquire" /\ UNCHANGED other /\ UNCHANGED <<lay, audio>>
        /\ \E x : cpu' = [cpu EXCEPT !.at = x]
    BY <1>12, Zenon DEF Issue
  <2> QED BY <1>1, <2>1 DEF Goes
<1>13. CASE GiveUp
  <2>1. cpu.at \in {"acquire", "await"} /\ UNCHANGED other /\ Failing
    BY <1>13, Zenon DEF GiveUp
  <2> QED BY <1>2, <2>1 DEF Goes
<1>14. CASE Awaited
  <2>1. /\ cpu.at = "await" /\ UNCHANGED other /\ UNCHANGED <<lay, audio>>
        /\ cpu' = [cpu EXCEPT !.at = "result"]
    BY <1>14, Zenon DEF Awaited
  <2> QED BY <1>1, <2>1 DEF Goes
<1>15. CASE CheckResult
  <2>1. cpu.at = "result" /\ UNCHANGED other BY <1>15, Zenon DEF CheckResult
  <2>2. Failing \/ FlashReady \/ Succeeds BY <1>15 DEF CheckResult
  <2> QED BY <1>2, <1>3, <1>5, <2>1, <2>2 DEF Goes
<1> QED
  BY <1>6, <1>7, <1>8, <1>9, <1>10, <1>11, <1>12, <1>13, <1>14, <1>15, Zenon DEF Command

\* How a function ends, and how the others of its steps leave the records.
LEMMA EndsShaped ==
  ASSUME Shaped, NEW l, NEW u \in BOOLEAN, EndsWith(l, u)
  PROVE  /\ DOMAIN cpu' = {"fn", "at", "cmd", "now", "i"}
         /\ DOMAIN audio' = {"handle", "usable"} /\ audio'.usable = u
         /\ audio'.handle = audio.handle /\ lay' = l
         /\ cpu' = Idle /\ cpu'.fn = None /\ cpu'.at = "idle" /\ cpu'.cmd = None
         /\ cpu'.now = None /\ cpu'.i = 0
BY DEF Shaped, EndsWith, Idle

\* However a function ends or goes on, the records keep their fields.
LEMMA EndingShaped ==
  ASSUME Shaped, EndsOpen \/ EndsClosed \/ (Going /\ DOMAIN cpu' = DOMAIN cpu)
  PROVE  /\ DOMAIN cpu' = {"fn", "at", "cmd", "now", "i"}
         /\ DOMAIN audio' = {"handle", "usable"} /\ audio'.usable \in BOOLEAN
<1>1. CASE EndsOpen
  <2>1. audio.usable \in BOOLEAN BY DEF Shaped
  <2> QED BY <1>1, <2>1, EndsShaped DEF EndsOpen
<1>2. CASE EndsClosed BY <1>2, EndsShaped DEF EndsClosed
<1>3. CASE Going /\ DOMAIN cpu' = DOMAIN cpu BY <1>3 DEF Going, Shaped
<1> QED BY <1>1, <1>2, <1>3

\* What Call does, by function.
LEMMA CallWithGoes ==
  ASSUME Shaped, NEW fn, NEW cmd, CallWith(fn, cmd)
  PROVE  \/ ~Reaches(lay, audio.handle) /\ UNCHANGED <<lay, cpu, audio>>
         \/ /\ Reaches(lay, audio.handle) /\ UNCHANGED <<lay, audio>>
            /\ DOMAIN cpu' = {"fn", "at", "cmd", "now", "i"}
            /\ cpu'.fn = fn /\ cpu'.at = "mode" /\ cpu'.cmd = cmd /\ cpu'.i = 0
            /\ cpu'.now = IF cmd \in OverFlash THEN "HOST_FLASH_INIT" ELSE HostCmd[cmd]
<1>1. CASE ~Reaches(lay, audio.handle) BY <1>1 DEF CallWith
<1>2. CASE Reaches(lay, audio.handle)
  <2>1. /\ cpu' = [fn |-> fn, at |-> "mode", cmd |-> cmd, i |-> 0,
                   now |-> IF cmd \in OverFlash THEN "HOST_FLASH_INIT" ELSE HostCmd[cmd]]
        /\ UNCHANGED <<lay, audio>>
    BY <1>2, Zenon DEF CallWith
  <2> QED BY <1>2, <2>1
<1> QED BY <1>1, <1>2

\* TW_Audio_Init and TW_Audio_Erase.
LEMMA OpenFirstGoes ==
  ASSUME Shaped, NEW fn, OpenFirst(fn)
  PROVE  \/ /\ Opened(lay).status # "SUCCESS"
            /\ EndsWith(HBI_term(Opened(lay).lay).lay, audio.usable)
         \/ /\ Opened(lay).status = "SUCCESS" /\ lay' = Opened(lay).lay
            /\ DOMAIN audio' = {"handle", "usable"} /\ audio'.usable = TRUE
            /\ audio'.handle = Opened(lay).handle
            /\ DOMAIN cpu' = {"fn", "at", "cmd", "now", "i"} /\ cpu'.fn = fn /\ cpu'.i = 0
            /\ IF fn = "Init" THEN cpu'.at = "count" /\ cpu'.cmd = None /\ cpu'.now = None
               ELSE /\ cpu'.at = "mode" /\ cpu'.cmd = "ERASE_WHOLE_FLASH"
                    /\ cpu'.now = "HOST_FLASH_INIT"
<1> DEFINE o == Opened(lay)
<1> HIDE DEF o
<1>1. CASE o.status # "SUCCESS" BY <1>1 DEF OpenFirst, o
<1>2. CASE o.status = "SUCCESS"
  <2>1. /\ lay' = o.lay
        /\ audio' = [audio EXCEPT !.handle = o.handle, !.usable = TRUE]
        /\ cpu' = IF fn = "Init" THEN [Idle EXCEPT !.fn = fn, !.at = "count"]
                  ELSE [Idle EXCEPT !.fn = fn, !.at = "mode", !.cmd = "ERASE_WHOLE_FLASH",
                                    !.now = "HOST_FLASH_INIT"]
    BY <1>2, Zenon DEF OpenFirst, o
  <2>2. DOMAIN audio' = {"handle", "usable"} /\ audio'.usable = TRUE /\ audio'.handle = o.handle
    BY <2>1 DEF Shaped
  <2>3. /\ DOMAIN cpu' = {"fn", "at", "cmd", "now", "i"} /\ cpu'.fn = fn /\ cpu'.i = 0
        /\ IF fn = "Init" THEN cpu'.at = "count" /\ cpu'.cmd = None /\ cpu'.now = None
           ELSE /\ cpu'.at = "mode" /\ cpu'.cmd = "ERASE_WHOLE_FLASH"
                /\ cpu'.now = "HOST_FLASH_INIT"
    BY <2>1 DEF Idle
  <2> QED BY <1>2, <2>1, <2>2, <2>3 DEF o
<1> QED BY <1>1, <1>2 DEF o

\* The ways in which a call starts.
Starts(fn) ==
  \/ fn \in {"Init", "Erase"} /\ OpenFirst(fn)
  \/ fn = "SF2I2S" /\ ~Reaches(lay, audio.handle) /\ EndsWith(ClosedOnce(lay), FALSE)
  \/ fn \in {"DeInit", "Loopback", "SF2I2S"} /\ CallWith(fn, FirstCommand[fn])

\* A call starts in one of these ways, between two calls.
LEMMA CallStarts ==
  ASSUME NEW fn \in Functions, Call(fn)
  PROVE  Starts(fn) /\ cpu = Idle /\ UNCHANGED <<other, chip, link>>
         /\ (fn # "Init" => Alone \/ (fn # "Erase" /\ audio.usable))
<1>1. cpu = Idle /\ UNCHANGED <<other, chip, link>>
      /\ (fn # "Init" => Alone \/ (fn # "Erase" /\ audio.usable))
  BY Zenon DEF Call
<1>2. CASE fn \in {"Init", "Erase"}
  <2>1. fn # "SF2I2S" BY <1>2
  <2> QED BY <1>1, <1>2, <2>1 DEF Call, Starts
<1>3. CASE fn = "SF2I2S" /\ ~Reaches(lay, audio.handle)
  BY <1>1, <1>3 DEF Call, Starts
<1>4. CASE fn = "SF2I2S" /\ Reaches(lay, audio.handle)
  BY <1>1, <1>4 DEF Call, Starts
<1>5. CASE fn \in {"DeInit", "Loopback"}
  BY <1>1, <1>5 DEF Call, Starts
<1> QED BY <1>2, <1>3, <1>4, <1>5 DEF Functions

\* The chip.
ChipShaped(c) ==
  /\ DOMAIN c = {"app", "ram", "images", "flag", "reg", "result"}
  /\ DOMAIN c.result = {"of", "val"}

\* A chip after a reset from outside.
LEMMA PoweredOnIs ==
  ASSUME NEW n
  PROVE  LET c == PoweredOn(n)
         IN /\ ChipShaped(c) /\ c.app = (n > 0) /\ c.ram = (IF n > 0 THEN Image ELSE {})
            /\ c.images = n /\ c.flag = None /\ c.reg = "IDLE" /\ c.result.of = None
BY DEF PoweredOn, ChipShaped

\* What each step does to the chip.
LEMMA ChipReset ==
  ASSUME ChipShaped(chip), Reset
  PROVE  \/ /\ ChipShaped(chip') /\ chip'.app = FALSE /\ chip'.ram = chip.ram
            /\ chip'.images = chip.images /\ chip'.flag = None /\ chip'.reg = "IDLE"
            /\ chip'.result.of = None
            /\ cpu' = InBootMode(cpu) /\ UNCHANGED <<lay, audio>>
         \/ Failing /\ UNCHANGED chip
<1>1. CASE /\ chip' = [chip EXCEPT !.app = FALSE, !.flag = None, !.reg = "IDLE",
                                   !.result = [of |-> None, val |-> "D3D3"]]
           /\ cpu' = InBootMode(cpu) /\ UNCHANGED <<lay, audio>>
  BY <1>1 DEF ChipShaped
<1>2. CASE Failing /\ UNCHANGED chip BY <1>2
<1> QED BY <1>1, <1>2 DEF Reset

\* tw_boot_write.
LEMMA ChipSent ==
  ASSUME ChipShaped(chip), SendBlock
  PROVE  /\ ChipShaped(chip')
         /\ chip'.ram = (IF chip.app THEN {} ELSE chip.ram \cup {cpu.i + 1})
         /\ chip'.app = chip.app /\ chip'.images = chip.images /\ chip'.flag = chip.flag
         /\ chip'.reg = chip.reg /\ chip'.result = chip.result
BY DEF ChipShaped, SendBlock

\* The parameter of a command.
LEMMA ChipParam ==
  ASSUME ChipShaped(chip), WriteParam
  PROVE  /\ ChipShaped(chip') /\ chip'.app = chip.app /\ chip'.ram = chip.ram
         /\ chip'.images = chip.images /\ chip'.flag = chip.flag /\ chip'.reg = chip.reg
         /\ chip'.result = [of |-> "param", val |-> Param[cpu.now]]
BY DEF ChipShaped, WriteParam

\* tw_wr_cmdreg.
LEMMA ChipIssued ==
  ASSUME ChipShaped(chip), Issue
  PROVE  /\ ChipShaped(chip') /\ chip'.app = chip.app /\ chip'.ram = chip.ram
         /\ chip'.images = chip.images /\ chip'.result = chip.result /\ chip'.reg = cpu.now
         /\ chip'.flag = IF cpu.cmd = "SLEEP" THEN "APP_HOST_CMD" ELSE "HOST_CMD"
BY DEF ChipShaped, Issue

\* The chip executes the command in its mailbox, or fails to.
LEMMA ChipExecuted ==
  ASSUME ChipShaped(chip), Execute
  PROVE  /\ ChipShaped(chip') /\ chip'.flag = None /\ chip'.reg = "IDLE"
         /\ chip'.result.of = chip.reg /\ chip'.result.val \in {"ok", "bad"}
         /\ \/ chip'.app = chip.app /\ chip'.ram = chip.ram
            \/ chip.reg = "FWR_GO" /\ chip.ram # {} /\ chip'.app = TRUE /\ chip'.ram = chip.ram
            \/ chip'.app = chip.app /\ chip'.ram = Image
<1> DEFINE After(c, val) == [c EXCEPT !.flag = None, !.reg = "IDLE",
                                      !.result = [of |-> chip.reg, val |-> val]]
<1>1. \A c, val : ChipShaped(c) =>
        /\ ChipShaped(After(c, val)) /\ After(c, val).flag = None /\ After(c, val).reg = "IDLE"
        /\ After(c, val).result.of = chip.reg /\ After(c, val).result.val = val
        /\ After(c, val).app = c.app /\ After(c, val).ram = c.ram
  BY DEF ChipShaped
<1>2. /\ ChipShaped(Executed(chip))
      /\ \/ Executed(chip).app = chip.app /\ Executed(chip).ram = chip.ram
         \/ chip.reg = "FWR_GO" /\ Executed(chip).app = TRUE /\ Executed(chip).ram = chip.ram
         \/ Executed(chip).app = chip.app /\ Executed(chip).ram = Image
  BY DEF ChipShaped, Executed
<1>3. CanExecute(chip) /\ chip.reg = "FWR_GO" => chip.ram # {} BY DEF CanExecute
<1>4. PICK val \in {"ok", "bad"} :
        /\ val = "ok" => CanExecute(chip)
        /\ chip' = After(IF val = "ok" THEN Executed(chip) ELSE chip, val)
  BY DEF Execute
<1> HIDE DEF After
<1>5. CASE val = "ok" BY <1>1, <1>2, <1>3, <1>4, <1>5
<1>6. CASE val = "bad" BY <1>1, <1>4, <1>6
<1> QED BY <1>4, <1>5, <1>6

\* The records keep their fields.
LEMMA ShapedStep ==
  ASSUME Shaped, [Next]_vars
  PROVE  Shaped'
<1> DEFINE CpuOk   == DOMAIN cpu' = {"fn", "at", "cmd", "now", "i"}
           AudioOk == DOMAIN audio' = {"handle", "usable"} /\ audio'.usable \in BOOLEAN
           OtherOk == other' \in [Others -> {None, "init", "open"}]
           ChipOk  == ChipShaped(chip')
           LinkOk  == DOMAIN link' = {"page", "done", "meant"}
<1>0. /\ UNCHANGED cpu => CpuOk
      /\ UNCHANGED audio => AudioOk
      /\ UNCHANGED other => OtherOk
      /\ UNCHANGED chip => ChipOk
      /\ UNCHANGED link => LinkOk
      /\ ChipShaped(chip)
  BY DEF Shaped, ChipShaped
<1>00. SUFFICES CpuOk /\ AudioOk /\ OtherOk /\ ChipOk /\ LinkOk BY DEF Shaped, ChipShaped
<1>01. \A v : link' = [link EXCEPT !.page = v] => LinkOk BY DEF Shaped
<1>02. ASSUME NEW l, NEW u \in BOOLEAN, EndsWith(l, u) PROVE CpuOk /\ AudioOk
  BY <1>02, EndsShaped
<1>03. EndsOpen \/ EndsClosed \/ (Going /\ DOMAIN cpu' = DOMAIN cpu) => CpuOk /\ AudioOk
  BY EndingShaped
<1> HIDE DEF CpuOk, AudioOk, OtherOk, ChipOk, LinkOk
<1>1. ASSUME NEW fn \in Functions, Call(fn) PROVE CpuOk /\ AudioOk /\ OtherOk /\ ChipOk /\ LinkOk
  <2>1. Starts(fn) /\ UNCHANGED <<other, chip, link>> BY <1>1, CallStarts, Zenon
  <2>2. CASE OpenFirst(fn)
    <3>1. audio.usable \in BOOLEAN BY DEF Shaped
    <3> QED BY <1>0, <1>02, <2>1, <2>2, <3>1, OpenFirstGoes DEF CpuOk, AudioOk
  <2>3. CASE EndsWith(ClosedOnce(lay), FALSE) BY <1>0, <1>02, <2>1, <2>3
  <2>4. CASE CallWith(fn, FirstCommand[fn])
    BY <1>0, <2>1, <2>4, CallWithGoes DEF CpuOk
  <2> QED BY <2>1, <2>2, <2>3, <2>4 DEF Starts
<1>2. ASSUME NEW cmd \in Direct, CallDirect(cmd)
      PROVE CpuOk /\ AudioOk /\ OtherOk /\ ChipOk /\ LinkOk
  <2>1. CallWith("Direct", cmd) /\ UNCHANGED <<other, chip, link>> BY <1>2 DEF CallDirect
  <2> QED BY <1>0, <2>1, CallWithGoes DEF CpuOk
<1>3. ASSUME NEW a \in Accesses, Access(a)
      PROVE CpuOk /\ AudioOk /\ OtherOk /\ ChipOk /\ LinkOk
  <2>1. /\ UNCHANGED <<lay, cpu, audio, other, chip>>
        /\ link' = [page |-> Sent(a).page, done |-> Sent(a).done, meant |-> Meant(a)]
    BY <1>3, Zenon DEF Access
  <2>2. LinkOk BY <2>1 DEF LinkOk
  <2> QED BY <1>0, <2>1, <2>2
<1>4. CASE Sleep
  <2>1. CpuOk BY <1>4 DEF Sleep, CpuOk
  <2>2. UNCHANGED <<audio, other, chip, link>> BY <1>4 DEF Sleep
  <2> QED BY <1>0, <2>1, <2>2
<1>5. CASE HardReset
  <2>1. /\ chip' = PoweredOn(chip.images) /\ link' = [link EXCEPT !.page = 0]
        /\ UNCHANGED <<lay, cpu, audio, other>>
    BY <1>5, Zenon DEF HardReset
  <2>2. ChipOk BY <2>1, PoweredOnIs DEF ChipOk
  <2> QED BY <1>0, <1>01, <2>1, <2>2
<1>6. CASE Count \/ Config \/ Command
  <2>1. CpuOk /\ AudioOk /\ OtherOk BY <1>0, <1>03, <1>6, CommandGoes
  <2>2. ChipOk /\ LinkOk
    <3>1. CASE Count \/ CheckMode \/ GiveUp \/ Awaited \/ CheckResult
      <4>1. UNCHANGED <<chip, link>>
        BY <3>1, Zenon DEF Count, CheckMode, GiveUp, Awaited, CheckResult
      <4> QED BY <1>0, <4>1
    <3>2. CASE Config
      <4>1. /\ UNCHANGED <<other, chip>>
            /\ link' = [link EXCEPT !.page = Receives(@, Frame(ConfigWrite)).page]
        BY <3>2, Zenon DEF Config
      <4> QED BY <1>0, <1>01, <4>1
    <3>3. CASE Reset
      <4>1. UNCHANGED link BY <3>3, Zenon DEF Reset
      <4> QED BY <1>0, <3>3, <4>1, ChipReset DEF ChipOk
    <3>4. CASE SendBlock
      <4>1. PICK p : link' = [link EXCEPT !.page = p] BY <3>4, Zenon DEF SendBlock
      <4> QED BY <1>0, <1>01, <3>4, <4>1, ChipSent DEF ChipOk
    <3>5. CASE WriteParam
      <4>1. UNCHANGED link BY <3>5, Zenon DEF WriteParam
      <4> QED BY <1>0, <3>5, <4>1, ChipParam DEF ChipOk
    <3>6. CASE Issue
      <4>1. UNCHANGED link BY <3>6, Zenon DEF Issue
      <4> QED BY <1>0, <3>6, <4>1, ChipIssued DEF ChipOk
    <3> QED BY <1>6, <3>1, <3>2, <3>3, <3>4, <3>5, <3>6, Zenon DEF Command
  <2> QED BY <2>1, <2>2
<1>7. CASE Execute
  <2>1. UNCHANGED <<lay, cpu, audio, other, link>> BY <1>7, Zenon DEF Execute
  <2> QED BY <1>0, <1>7, <2>1, ChipExecuted DEF ChipOk
<1>8. ASSUME NEW o \in Others, OtherInit(o) \/ OtherOpen(o) \/ OtherClose(o) \/ OtherTerm(o)
      PROVE CpuOk /\ AudioOk /\ OtherOk /\ ChipOk /\ LinkOk
  <2>1. /\ UNCHANGED <<cpu, audio, chip, link>>
        /\ \E v \in {None, "init", "open", other[o]} : other' = [other EXCEPT ![o] = v]
    BY <1>8, Zenon DEF OtherInit, OtherOpen, OtherClose, OtherTerm
  <2>2. OtherOk BY <2>1 DEF OtherOk, Shaped
  <2> QED BY <1>0, <2>1, <2>2
<1>9. CASE UNCHANGED vars BY <1>0, <1>9, Zenon DEF vars
<1> QED
  BY <1>1, <1>2, <1>3, <1>4, <1>5, <1>6, <1>7, <1>8, <1>9, Zenon DEF Next

\* Nothing is open at first.
LEMMA AgreesInitially ==
  ASSUME LayersInit
  PROVE  /\ Agrees(lay) /\ lay.hbi.inits = 0 /\ lay.hbi.insts = 0
         /\ DOMAIN lay.hbi.dev = {}
<1> DEFINE h == [up |-> FALSE, inits |-> 0, insts |-> 0, opened |-> 0,
                 inst |-> Nothing, dev |-> Nothing]
<1>1. /\ DOMAIN lay = {"hbi", "ssl", "hal"} /\ lay.hbi = h
      /\ DOMAIN lay.ssl = {"up", "port"} /\ lay.ssl.up = FALSE /\ lay.ssl.port = Nothing
      /\ DOMAIN lay.hal = {"ready", "taken"} /\ lay.hal.taken = {}
  BY DEF LayersInit
<1>2. /\ DOMAIN h = {"up", "inits", "insts", "opened", "inst", "dev"}
      /\ h.up = FALSE /\ h.inits = 0 /\ h.insts = 0 /\ h.opened = 0
      /\ h.inst = Nothing /\ h.dev = Nothing
  OBVIOUS
<1>3. DOMAIN Nothing = {} BY DEF Nothing
<1> HIDE DEF h
<1>4. Tied(Nothing, Nothing, Nothing, {}) /\ Cardinality(DOMAIN Nothing) = 0
  BY <1>3, EmptyIsTied
<1>5. Counted(h)
  <2>1. 0 <= MaxInsts /\ 0 \in Nat /\ ~(0 > 0) BY HbiAssumption, SMT
  <2> QED BY <1>2, <1>3, <1>4, <2>1 DEF Counted
<1>6. Agrees(lay)
  <2>1. Shape(lay) BY <1>1, <1>2 DEF Shape
  <2> QED BY <1>1, <1>2, <1>4, <1>5, <2>1, Zenon DEF Agrees
<1> QED BY <1>1, <1>2, <1>3, <1>6

\* Every step keeps the layers in agreement: whatever a function returns, it leaves
\* them as one of the calls does.
LEMMA AgreesStep ==
  ASSUME Shaped, Agrees(lay), [Next]_vars
  PROVE  Agrees(lay')
<1>1. Agrees(ClosedOnce(lay)) BY ClosedOnceAgrees
<1>2. Agrees(Closed) BY <1>1, ClosedOnceAgrees DEF Closed
<1>3. Agrees(Opened(lay).lay) /\ Agrees(HBI_term(Opened(lay).lay).lay)
  <2>1. Agrees(HBI_init(lay).lay) BY InitDoes
  <2>2. Agrees(Opened(lay).lay) BY <2>1, OpenDoes DEF Opened, Opens
  <2> QED BY <2>2, TermDoes
<1>4. \A k : Reached(lay, k) => Agrees(k) BY ReachedAgrees
<1>5. ASSUME NEW fn \in Functions, Call(fn) PROVE Agrees(lay')
  <2>1. Starts(fn) BY <1>5, CallStarts
  <2>2. CASE OpenFirst(fn)
    <3>1. lay' = Opened(lay).lay \/ lay' = HBI_term(Opened(lay).lay).lay
      BY <2>2, OpenFirstGoes DEF EndsWith
    <3> QED BY <1>3, <3>1
  <2>3. CASE EndsWith(ClosedOnce(lay), FALSE) BY <1>1, <2>3 DEF EndsWith
  <2>4. CASE CallWith(fn, FirstCommand[fn])
    <3>1. lay' = lay BY <2>4, CallWithGoes
    <3> QED BY <3>1
  <2> QED BY <2>1, <2>2, <2>3, <2>4 DEF Starts
<1>6. ASSUME NEW cmd \in Direct, CallDirect(cmd) PROVE Agrees(lay')
  <2>1. lay' = lay BY <1>6, CallWithGoes DEF CallDirect
  <2> QED BY <2>1
<1>7. CASE Count \/ Config \/ Command
  <2>1. EndsOpen \/ EndsClosed \/ Going BY <1>7, CommandGoes
  <2>2. lay' = lay \/ lay' = Closed BY <2>1, Zenon DEF EndsOpen, EndsClosed, EndsWith, Going
  <2> QED BY <1>2, <2>2
<1>8. ASSUME NEW o \in Others, OtherInit(o) \/ OtherOpen(o) \/ OtherClose(o) \/ OtherTerm(o)
      PROVE Agrees(lay')
  <2>1. Reached(lay, lay')
    BY <1>8, Zenon DEF OtherInit, OtherOpen, OtherClose, OtherTerm, Reached
  <2> QED BY <1>4, <2>1
<1>9. CASE \/ \E a \in Accesses : Access(a)
           \/ Sleep \/ HardReset \/ Execute \/ UNCHANGED vars
  <2>1. lay' = lay BY <1>9, Zenon DEF Access, Sleep, HardReset, Execute, vars
  <2> QED BY <2>1
<1> QED BY <1>5, <1>6, <1>7, <1>8, <1>9, Zenon DEF Next

\* The records have their fields at first.
LEMMA ShapedInitially == Init => Shaped
<1> SUFFICES ASSUME Init PROVE Shaped OBVIOUS
<1>1. /\ DOMAIN cpu = {"fn", "at", "cmd", "now", "i"}
      /\ DOMAIN audio = {"handle", "usable"} /\ audio.usable \in BOOLEAN
      /\ other \in [Others -> {None, "init", "open"}]
      /\ DOMAIN link = {"page", "done", "meant"}
  BY DEF Init, Idle
<1>2. PICK n \in 0..MaxImages : chip = PoweredOn(n) BY DEF Init
<1>3. ChipShaped(chip) BY <1>2, PoweredOnIs
<1> QED BY <1>1, <1>3 DEF Shaped, ChipShaped

\* The records that hbi.c, ssl.c and hal_spi.c keep of what is open agree in every
\* state, for any number of devices, instances, users per device and callers: no
\* count drifts, no port outlives its device and no master its port.
THEOREM LayersAgreeHolds == Spec => []LayersAgree
<1>1. Init => Shaped /\ Agrees(lay)
  <2>1. Init => LayersInit BY DEF Init
  <2> QED BY <2>1, ShapedInitially, AgreesInitially
<1>2. (Shaped /\ Agrees(lay)) /\ [Next]_vars => (Shaped /\ Agrees(lay))'
  BY ShapedStep, AgreesStep
<1>3. Shaped /\ Agrees(lay) => LayersAgree BY AgreesIsMeant
<1> QED BY <1>1, <1>2, <1>3, PTL DEF Spec

---------------------------------------------------------------------------
(* Nothing leaks.                                                          *)

\* n initialisations and m instances, all of them of the chip.
Books(l, n, m) ==
  /\ Agrees(l) /\ l.hbi.inits = n /\ l.hbi.insts = m
  /\ \A d \in DOMAIN l.hbi.dev : l.hbi.dev[d].addr = Slave

\* HBI_init books one initialisation more.
LEMMA BooksInit ==
  ASSUME NEW l, NEW n, NEW m, Books(l, n, m)
  PROVE  LET k == HBI_init(l).lay
         IN Books(k, n + 1, m) /\ DOMAIN k.hbi.inst = DOMAIN l.hbi.inst
<1> DEFINE k == HBI_init(l).lay
<1>1. /\ Agrees(l) /\ l.hbi.inits = n /\ l.hbi.insts = m
      /\ \A d \in DOMAIN l.hbi.dev : l.hbi.dev[d].addr = Slave
  BY DEF Books
<1>2. /\ Agrees(k) /\ k.hbi.inits = l.hbi.inits + 1
      /\ k.hbi.insts = l.hbi.insts /\ DOMAIN k.hbi.inst = DOMAIN l.hbi.inst
      /\ \A d \in DOMAIN k.hbi.dev :
           d \in DOMAIN l.hbi.dev /\ k.hbi.dev[d].addr = l.hbi.dev[d].addr
  BY <1>1, InitDoes
<1> HIDE DEF k
<1>3. Books(k, n + 1, m) BY <1>1, <1>2, Zenon DEF Books
<1> QED BY <1>2, <1>3 DEF k

\* HBI_open books one instance more, or nothing.
LEMMA BooksOpen ==
  ASSUME NEW l, NEW n, NEW m, Books(l, n, m)
  PROVE  LET o == HBI_open(l, Slave)
         IN /\ o.status = "SUCCESS" =>
                 /\ Books(o.lay, n, m + 1)
                 /\ DOMAIN o.lay.hbi.inst = DOMAIN l.hbi.inst \cup {o.handle}
            /\ o.status # "SUCCESS" =>
                 Books(o.lay, n, m) /\ DOMAIN o.lay.hbi.inst = DOMAIN l.hbi.inst
<1> DEFINE o == HBI_open(l, Slave)
<1>1. /\ Agrees(l) /\ l.hbi.inits = n /\ l.hbi.insts = m
      /\ \A d \in DOMAIN l.hbi.dev : l.hbi.dev[d].addr = Slave
  BY DEF Books
<1>2. Opens(l, Slave, o) BY <1>1, OpenDoes
<1> HIDE DEF o
<1>3. /\ Agrees(o.lay) /\ o.lay.hbi.inits = l.hbi.inits
      /\ \A e \in DOMAIN o.lay.hbi.dev : o.lay.hbi.dev[e].addr = Slave
  BY <1>1, <1>2, Zenon DEF Opens
<1>4. o.status = "SUCCESS" => /\ o.lay.hbi.insts = l.hbi.insts + 1
                              /\ DOMAIN o.lay.hbi.inst = DOMAIN l.hbi.inst \cup {o.handle}
  BY <1>2, Zenon DEF Opens
<1>5. o.status # "SUCCESS" => o.lay.hbi = l.hbi BY <1>2, Zenon DEF Opens
<1>6. o.status = "SUCCESS" => Books(o.lay, n, m + 1)
  BY <1>1, <1>3, <1>4, Zenon DEF Books
<1>7. o.status # "SUCCESS" => Books(o.lay, n, m) /\ DOMAIN o.lay.hbi.inst = DOMAIN l.hbi.inst
  BY <1>1, <1>3, <1>5, Zenon DEF Books
<1> QED BY <1>4, <1>6, <1>7 DEF o

\* HBI_close books one instance less, or nothing.
LEMMA BooksClose ==
  ASSUME NEW l, NEW n, NEW m, Books(l, n, m), NEW h
  PROVE  LET k == HBI_close(l, h).lay
         IN /\ h \in DOMAIN l.hbi.inst =>
                 Books(k, n, m - 1) /\ DOMAIN k.hbi.inst = DOMAIN l.hbi.inst \ {h}
            /\ h \notin DOMAIN l.hbi.inst => k = l
<1> DEFINE c == HBI_close(l, h)
<1>1. /\ Agrees(l) /\ l.hbi.inits = n /\ l.hbi.insts = m
      /\ \A d \in DOMAIN l.hbi.dev : l.hbi.dev[d].addr = Slave
  BY DEF Books
<1>2. /\ h \in DOMAIN l.hbi.inst => Closes(l, h, c)
      /\ h \notin DOMAIN l.hbi.inst => c.lay = l
  BY <1>1, CloseDoes
<1> HIDE DEF c
<1>3. Closes(l, h, c) => /\ Agrees(c.lay) /\ c.lay.hbi.inits = n /\ c.lay.hbi.insts = m - 1
                         /\ DOMAIN c.lay.hbi.inst = DOMAIN l.hbi.inst \ {h}
                         /\ \A e \in DOMAIN c.lay.hbi.dev : c.lay.hbi.dev[e].addr = Slave
  BY <1>1 DEF Closes
<1>4. Closes(l, h, c) => Books(c.lay, n, m - 1) BY <1>3, Zenon DEF Books
<1> QED BY <1>2, <1>3, <1>4 DEF c

\* HBI_term books one initialisation less, while there is one that nobody needs.
LEMMA BooksTerm ==
  ASSUME NEW l, NEW n \in Nat, NEW m, Books(l, n, m)
  PROVE  LET k == HBI_term(l).lay
         IN /\ k.hbi.inst = l.hbi.inst
            /\ n = 0 => Books(k, 0, m)
            /\ n > 1 \/ (n = 1 /\ m = 0) => Books(k, n - 1, m)
<1> DEFINE k == HBI_term(l).lay
<1>1. /\ Agrees(l) /\ l.hbi.inits = n /\ l.hbi.insts = m
      /\ \A d \in DOMAIN l.hbi.dev : l.hbi.dev[d].addr = Slave
  BY DEF Books
<1>2. /\ Agrees(k)
      /\ k.hbi.insts = l.hbi.insts /\ k.hbi.inst = l.hbi.inst /\ k.hbi.dev = l.hbi.dev
      /\ l.hbi.inits = 0 => k.hbi.inits = 0
      /\ l.hbi.inits > 1 \/ (l.hbi.inits = 1 /\ l.hbi.insts = 0) =>
           k.hbi.inits = l.hbi.inits - 1
  BY <1>1, TermDoes
<1> HIDE DEF k
<1>3. n = 0 => Books(k, 0, m) BY <1>1, <1>2, Zenon DEF Books
<1>4. n > 1 \/ (n = 1 /\ m = 0) => Books(k, n - 1, m) BY <1>1, <1>2, Zenon DEF Books
<1> QED BY <1>2, <1>3, <1>4 DEF k

\* With one instance to a device the chip has one user at most.
LEMMA OneUser ==
  ASSUME PerDev = 1, NEW l, NEW n, NEW m, Books(l, n, m)
  PROVE  m \in {0, 1}
<1> DEFINE inst == l.hbi.inst
           dev  == l.hbi.dev
<1>1. /\ Agrees(l) /\ l.hbi.inits = n /\ l.hbi.insts = m
      /\ \A d \in DOMAIN dev : dev[d].addr = Slave
  BY DEF Books
<1>2. Tied(inst, dev, l.ssl.port, l.hal.taken) /\ m = Cardinality(DOMAIN inst)
  BY <1>1 DEF Agrees, Counted
<1>3. /\ \A i \in DOMAIN inst : inst[i] \in DOMAIN dev
      /\ \A d \in DOMAIN dev : /\ dev[d].users = Cardinality(UsersOf(inst, d))
                               /\ dev[d].users \in 1..PerDev
      /\ \A d, e \in DOMAIN dev : dev[d].addr = dev[e].addr => d = e
  BY <1>2 DEF Tied
<1>4. CASE DOMAIN inst = {} BY <1>2, <1>4, FS_EmptySet
<1>5. CASE DOMAIN inst # {}
  <2>1. PICK i \in DOMAIN inst : TRUE BY <1>5
  <2> DEFINE d == inst[i]
  <2>2. d \in DOMAIN dev BY <1>3
  <2>3. \A j \in DOMAIN inst : inst[j] = d BY <1>1, <1>3, <2>2
  <2>4. UsersOf(inst, d) = DOMAIN inst BY <2>3 DEF UsersOf
  <2>5. m \in 1..1 BY <1>2, <1>3, <2>2, <2>4
  <2> QED BY <2>5, SMT
<1> QED BY <1>4, <1>5

Users   == {o \in Others : other[o] # None}
Openers == {o \in Others : other[o] = "open"}
OneIf(b) == IF b THEN 1 ELSE 0

\* Between calls and in them, the library's books are those of its users.
Booked ==
  /\ Books(lay, Cardinality(Users) + OneIf(audio.usable),
                Cardinality(Openers) + OneIf(audio.usable))
  /\ audio.usable => audio.handle \in DOMAIN lay.hbi.inst
  /\ cpu # Idle => audio.usable
  /\ cpu.fn = "Erase" => Alone

\* The other users are finitely many, and who has opened the device has initialised
\* the library.
LEMMA Counts ==
  ASSUME Shaped
  PROVE  /\ IsFiniteSet(Users) /\ IsFiniteSet(Openers)
         /\ Cardinality(Users) \in Nat /\ Cardinality(Openers) \in Nat
         /\ Openers \subseteq Users
         /\ Cardinality(Users) = 0 => Cardinality(Openers) = 0
         /\ Alone => Cardinality(Users) = 0
<1>1. IsFiniteSet(Others) BY AudioAssumption
<1>2. IsFiniteSet(Users) /\ IsFiniteSet(Openers)
  BY <1>1, FS_Subset DEF Users, Openers
<1>3. Openers \subseteq Users BY DEF Users, Openers, None
<1>4. Alone => Users = {} BY DEF Alone, Users
<1>5. Cardinality(Users) = 0 => Openers = {} BY <1>2, <1>3, FS_EmptySet
<1> QED BY <1>2, <1>3, <1>4, <1>5, FS_EmptySet, FS_CardinalityType

\* A device that the caller holds can be reached.
LEMMA HeldIsReached ==
  ASSUME NEW l, Agrees(l), NEW h \in DOMAIN l.hbi.inst
  PROVE  Reaches(l, h)
<1>1. /\ Tied(l.hbi.inst, l.hbi.dev, l.ssl.port, l.hal.taken) /\ Counted(l.hbi)
      /\ l.hbi.up = l.ssl.up
  BY DEF Agrees
<1>2. /\ IsFiniteSet(DOMAIN l.hbi.inst) /\ l.hbi.inst[h] \in DOMAIN l.hbi.dev
      /\ l.hbi.dev[l.hbi.inst[h]].port \in DOMAIN l.ssl.port
  BY <1>1 DEF Tied
<1>3. l.hbi.up
  <2>1. Cardinality(DOMAIN l.hbi.inst) # 0 BY <1>2, FS_EmptySet
  <2> QED BY <1>1, <2>1, Zenon DEF Counted
<1> QED BY <1>1, <1>2, <1>3, Zenon DEF Reaches, BadHandle, PortWorks

\* With the books in order nothing leaks.
LEMMA BookedIsMeant ==
  ASSUME Booked
  PROVE  NothingLeaks
<1>1. /\ Agrees(lay)
      /\ lay.hbi.inits = Cardinality(Users) + OneIf(audio.usable)
      /\ audio.usable => audio.handle \in DOMAIN lay.hbi.inst
  BY Zenon DEF Booked, Books
<1>2. audio.usable => Reaches(lay, audio.handle) BY <1>1, HeldIsReached
<1> QED BY <1>1, <1>2, Zenon DEF NothingLeaks, Users, OneIf

\* The books are in order at first.
LEMMA BookedInitially ==
  ASSUME Init
  PROVE  Booked
<1>1. /\ LayersInit /\ cpu = Idle /\ audio.usable = FALSE /\ \A o \in Others : other[o] = None
  BY DEF Init
<1>2. Users = {} /\ Openers = {} BY <1>1 DEF Users, Openers, None
<1>3. Cardinality(Users) + OneIf(audio.usable) = 0 /\ Cardinality(Openers) + OneIf(audio.usable) = 0
  BY <1>1, <1>2, FS_EmptySet DEF OneIf
<1>4. Books(lay, 0, 0) BY <1>1, AgreesInitially DEF Books
<1>5. cpu.fn # "Erase" BY <1>1 DEF Idle, None
<1> QED BY <1>1, <1>3, <1>4, <1>5 DEF Booked

\* Nothing that Booked is about changes but the state of the function.
LEMMA BookedStill ==
  ASSUME Booked, UNCHANGED <<lay, audio, other>>,
         cpu' # Idle => audio.usable,
         cpu'.fn = "Erase" => cpu.fn = "Erase"
  PROVE  Booked'
<1>1. Users' = Users /\ Openers' = Openers BY DEF Users, Openers
<1>2. Alone' <=> Alone BY DEF Alone
<1> QED BY <1>1, <1>2, Zenon DEF Booked

\* What is left when a function gives back what it has.
LEMMA BooksClosedOnce ==
  ASSUME PerDev = 1, Shaped, Booked, audio.usable
  PROVE  /\ Books(ClosedOnce(lay), Cardinality(Users), 0) /\ Cardinality(Openers) = 0
         /\ audio.handle \notin DOMAIN ClosedOnce(lay).hbi.inst
<1> DEFINE n == Cardinality(Users)
           m == Cardinality(Openers)
           k == HBI_close(lay, audio.handle).lay
<1>1. n \in Nat /\ m \in Nat /\ (n = 0 => m = 0) BY Counts
<1>2. Books(lay, n + 1, m + 1) /\ audio.handle \in DOMAIN lay.hbi.inst
  BY DEF Booked, OneIf
<1> HIDE DEF n, m
<1>3. m = 0
  <2>1. m + 1 \in {0, 1} BY <1>2, OneUser
  <2> QED BY <1>1, <2>1, SMT
<1>4. Books(k, n + 1, 0) /\ DOMAIN k.hbi.inst = DOMAIN lay.hbi.inst \ {audio.handle}
  <2>1. PICK x, y : x = n + 1 /\ y = m + 1 OBVIOUS
  <2>2. Books(lay, x, y) BY <1>2, <2>1
  <2>3. Books(k, x, y - 1) /\ DOMAIN k.hbi.inst = DOMAIN lay.hbi.inst \ {audio.handle}
    BY <1>2, <2>2, BooksClose
  <2>4. y - 1 = 0 BY <1>3, <2>1, SMT
  <2> QED BY <2>1, <2>3, <2>4, Zenon
<1> HIDE DEF k
<1>6. Books(HBI_term(k).lay, n, 0) /\ HBI_term(k).lay.hbi.inst = k.hbi.inst
  <2>1. PICK x : x = n + 1 OBVIOUS
  <2>2. x \in Nat /\ (x > 1 \/ x = 1) /\ x - 1 = n BY <1>1, <2>1, SMT
  <2>3. Books(k, x, 0) BY <1>4, <2>1
  <2>4. Books(HBI_term(k).lay, x - 1, 0) /\ HBI_term(k).lay.hbi.inst = k.hbi.inst
    BY <2>2, <2>3, BooksTerm
  <2> QED BY <2>2, <2>4, Zenon
<1>7. ClosedOnce(lay) = HBI_term(k).lay BY DEF ClosedOnce, k
<1> QED BY <1>3, <1>4, <1>6, <1>7 DEF n, m

\* Giving back what one does not have does nothing.
LEMMA BooksClosedAgain ==
  ASSUME NEW l, NEW m, Books(l, 0, m), audio.handle \notin DOMAIN l.hbi.inst
  PROVE  Books(ClosedOnce(l), 0, m)
<1>1. HBI_close(l, audio.handle).lay = l BY BooksClose
<1> QED BY <1>1, BooksTerm DEF ClosedOnce

\* A function that ends closes what it had, if it says that it did.
LEMMA BookedEnds ==
  ASSUME PerDev = 1, Shaped, Booked, cpu # Idle, UNCHANGED other, EndsOpen \/ EndsClosed
  PROVE  Booked'
<1> DEFINE n == Cardinality(Users)
           m == Cardinality(Openers)
<1>1. audio.usable /\ audio.usable \in BOOLEAN BY DEF Booked, Shaped
<1>2. Users' = Users /\ Openers' = Openers /\ n \in Nat /\ m \in Nat
  BY Counts DEF Users, Openers
<1>3. cpu' = Idle /\ cpu'.fn # "Erase"
  <2>1. cpu' = Idle BY DEF EndsOpen, EndsClosed, EndsWith
  <2> QED BY <2>1 DEF Idle, None
<1>4. CASE EndsOpen
  <2>1. UNCHANGED lay /\ audio'.usable = audio.usable /\ audio'.handle = audio.handle
    BY <1>1, <1>4, EndsShaped DEF EndsOpen
  <2> QED BY <1>2, <1>3, <2>1 DEF Booked
<1>5. CASE EndsClosed
  <2>1. lay' = Closed /\ audio'.usable = FALSE BY <1>5, EndsShaped DEF EndsClosed
  <2>2. /\ Books(ClosedOnce(lay), n, 0) /\ m = 0
        /\ audio.handle \notin DOMAIN ClosedOnce(lay).hbi.inst
    BY <1>1, BooksClosedOnce
  <2>3. Books(Closed, n, m)
    <3>1. CASE cpu.fn = "Erase"
      <4>1. n = 0 BY <3>1, Counts DEF Booked
      <4> QED BY <2>2, <3>1, <4>1, BooksClosedAgain DEF Closed
    <3>2. CASE cpu.fn # "Erase" BY <2>2, <3>2 DEF Closed
    <3> QED BY <3>1, <3>2
  <2>4. n + OneIf(audio'.usable) = n /\ m + OneIf(audio'.usable) = m
    BY <1>2, <2>1 DEF OneIf
  <2> QED BY <1>2, <1>3, <2>1, <2>3, <2>4 DEF Booked
<1> QED BY <1>4, <1>5

\* A function that opens the device: it has it, or all is as it was.
LEMMA BookedOpens ==
  ASSUME PerDev = 1, Shaped, Booked, cpu = Idle, UNCHANGED other,
         NEW fn, OpenFirst(fn), fn = "Erase" => Alone
  PROVE  Booked'
<1> DEFINE n == Cardinality(Users)
           m == Cardinality(Openers)
           l == HBI_init(lay).lay
           o == Opened(lay)
<1>1. n \in Nat /\ m \in Nat /\ (n = 0 => m = 0) BY Counts
<1>2. audio.usable \in BOOLEAN /\ OneIf(audio.usable) \in {0, 1}
  BY DEF Shaped, OneIf
<1>3. Users' = Users /\ Openers' = Openers /\ (Alone' <=> Alone)
  BY DEF Users, Openers, Alone
<1>4. PICK N, M : N = n + OneIf(audio.usable) /\ M = m + OneIf(audio.usable) OBVIOUS
<1>5. Books(lay, N, M) /\ (audio.usable => audio.handle \in DOMAIN lay.hbi.inst)
  BY <1>4 DEF Booked
<1>6. N \in Nat /\ M \in Nat /\ N + 1 \in Nat /\ N + 1 - 1 = N
  BY <1>1, <1>2, <1>4, SMT
<1>7. Books(l, N + 1, M) /\ DOMAIN l.hbi.inst = DOMAIN lay.hbi.inst
  BY <1>5, BooksInit
<1>8. o = HBI_open(l, Slave) BY DEF Opened
<1> HIDE DEF l, o, n, m
<1>9. CASE o.status # "SUCCESS"
  <2>1. Books(o.lay, N + 1, M) /\ DOMAIN o.lay.hbi.inst = DOMAIN l.hbi.inst
    <3>1. PICK x : x = N + 1 OBVIOUS
    <3> QED BY <1>7, <1>8, <1>9, <3>1, BooksOpen
  <2>2. N + 1 > 1 \/ (N + 1 = 1 /\ M = 0) BY <1>1, <1>2, <1>4, SMT
  <2>3. Books(HBI_term(o.lay).lay, N, M) /\ HBI_term(o.lay).lay.hbi.inst = o.lay.hbi.inst
    <3>1. PICK x : x = N + 1 OBVIOUS
    <3>2. x \in Nat /\ x - 1 = N /\ (x > 1 \/ (x = 1 /\ M = 0)) BY <1>6, <2>2, <3>1
    <3>3. Books(o.lay, x, M) BY <2>1, <3>1
    <3>4. Books(HBI_term(o.lay).lay, x - 1, M) /\ HBI_term(o.lay).lay.hbi.inst = o.lay.hbi.inst
      BY <3>2, <3>3, BooksTerm
    <3> QED BY <3>2, <3>4, Zenon
  <2>4. EndsWith(HBI_term(o.lay).lay, audio.usable)
    BY <1>9, OpenFirstGoes DEF o
  <2>5. /\ lay' = HBI_term(o.lay).lay /\ audio'.usable = audio.usable
        /\ audio'.handle = audio.handle /\ cpu' = Idle /\ cpu'.fn = None
    BY <1>2, <2>4, EndsShaped
  <2>6. Books(lay', N, M) BY <2>3, <2>5
  <2>7. audio'.usable => audio'.handle \in DOMAIN lay'.hbi.inst
    BY <1>5, <1>7, <2>1, <2>3, <2>5
  <2>8. cpu'.fn # "Erase" BY <2>5 DEF None
  <2> QED BY <1>3, <1>4, <2>5, <2>6, <2>7, <2>8 DEF Booked, n, m
<1>10. CASE o.status = "SUCCESS"
  <2>1. Books(o.lay, N + 1, M + 1) /\ DOMAIN o.lay.hbi.inst = DOMAIN l.hbi.inst \cup {o.handle}
    <3>1. PICK x : x = N + 1 OBVIOUS
    <3> QED BY <1>7, <1>8, <1>10, <3>1, BooksOpen
  <2>2. M + 1 \in {0, 1}
    <3>1. PICK x, y : x = N + 1 /\ y = M + 1 OBVIOUS
    <3> QED BY <2>1, <3>1, OneUser
  <2>3. /\ lay' = o.lay /\ audio'.usable = TRUE /\ audio'.handle = o.handle /\ cpu'.fn = fn
    BY <1>10, OpenFirstGoes DEF o
  <2>4. n + OneIf(audio'.usable) = N + 1 /\ m + OneIf(audio'.usable) = M + 1
    <3>1. OneIf(audio.usable) = 0 BY <1>1, <1>2, <1>4, <2>2, SMT
    <3>2. OneIf(audio'.usable) = 1 BY <2>3 DEF OneIf
    <3> QED BY <1>1, <1>4, <3>1, <3>2, SMT
  <2>5. Books(lay', n + OneIf(audio'.usable), m + OneIf(audio'.usable))
    BY <2>1, <2>3, <2>4, Zenon
  <2> QED BY <1>3, <2>1, <2>3, <2>5 DEF Booked, n, m
<1> QED BY <1>9, <1>10

\* Another user, between calls.
OtherDoes(o) == OtherInit(o) \/ OtherOpen(o) \/ OtherClose(o) \/ OtherTerm(o)

\* Another user keeps the books in order.
LEMMA OtherBooks ==
  ASSUME PerDev = 1, Shaped, Booked, NEW o \in Others, OtherDoes(o)
  PROVE  Booked'
<1> DEFINE n == Cardinality(Users)
           m == Cardinality(Openers)
           u == OneIf(audio.usable)
<1>1. n \in Nat /\ m \in Nat /\ (n = 0 => m = 0) BY Counts
<1>2. u \in {0, 1} BY DEF OneIf
<1>3. UNCHANGED <<cpu, audio>> /\ cpu = Idle /\ cpu'.fn # "Erase"
  <2>1. UNCHANGED <<cpu, audio>> /\ cpu = Idle
    BY DEF OtherDoes, OtherInit, OtherOpen, OtherClose, OtherTerm
  <2> QED BY <2>1 DEF Idle, None
<1>4. PICK N, M : N = n + u /\ M = m + u OBVIOUS
<1>5. Books(lay, N, M) /\ (audio.usable => audio.handle \in DOMAIN lay.hbi.inst)
  BY <1>4 DEF Booked
<1>6. N \in Nat /\ M \in Nat BY <1>1, <1>2, <1>4, SMT
<1>7. IsFiniteSet(Users) /\ IsFiniteSet(Openers) BY Counts
<1>8. other \in [Others -> {None, "init", "open"}] BY DEF Shaped
<1>9. ASSUME NEW N2, NEW M2, Books(lay', N2, M2),
             N2 = Cardinality(Users') + u, M2 = Cardinality(Openers') + u,
             audio.usable => audio.handle \in DOMAIN lay'.hbi.inst
      PROVE  Booked'
  <2>1. audio'.usable = audio.usable /\ audio'.handle = audio.handle BY <1>3
  <2> QED BY <1>3, <1>9, <2>1 DEF Booked
<1>10. CASE OtherInit(o)
  <2>1. other[o] = None /\ lay' = HBI_init(lay).lay /\ other' = [other EXCEPT ![o] = "init"]
    BY <1>10, Zenon DEF OtherInit
  <2>2. Users' = Users \cup {o} /\ o \notin Users /\ Openers' = Openers
    BY <1>8, <2>1 DEF Users, Openers, None
  <2>3. Cardinality(Users') = n + 1 BY <1>7, <2>2, FS_AddElement
  <2>4. Books(lay', N + 1, M) /\ DOMAIN lay'.hbi.inst = DOMAIN lay.hbi.inst
    BY <1>5, <2>1, BooksInit
  <2> HIDE DEF n, m, u
  <2>5. N + 1 = Cardinality(Users') + u BY <1>1, <1>2, <1>4, <2>3, SMT
  <2>6. M = Cardinality(Openers') + u BY <1>4, <2>2 DEF m
  <2> QED BY <1>5, <1>9, <2>4, <2>5, <2>6
<1>11. CASE OtherTerm(o)
  <2>1. other[o] = "init" /\ lay' = HBI_term(lay).lay /\ other' = [other EXCEPT ![o] = None]
    BY <1>11, Zenon DEF OtherTerm
  <2>2. Users' = Users \ {o} /\ o \in Users /\ Openers' = Openers /\ o \notin Openers
    BY <1>8, <2>1 DEF Users, Openers, None
  <2>3. Cardinality(Users') = n - 1 /\ n # 0 BY <1>7, <2>2, FS_RemoveElement, FS_EmptySet
  <2>4. n = 1 => m = 0
    <3>1. ASSUME n = 1 PROVE m = 0
      <4>1. PICK x : Users = {x} BY <1>7, <3>1, FS_Singleton
      <4>2. Openers \subseteq Users BY Counts
      <4>3. Openers = {} BY <2>2, <4>1, <4>2
      <4> QED BY <4>3, FS_EmptySet
    <3> QED BY <3>1
  <2> HIDE DEF n, m, u
  <2>5. N > 1 \/ (N = 1 /\ M = 0) BY <1>1, <1>2, <1>4, <2>3, <2>4, SMT
  <2>6. Books(lay', N - 1, M) /\ lay'.hbi.inst = lay.hbi.inst
    BY <1>5, <1>6, <2>1, <2>5, BooksTerm
  <2>7. N - 1 = Cardinality(Users') + u BY <1>1, <1>2, <1>4, <2>3, SMT
  <2>8. M = Cardinality(Openers') + u BY <1>4, <2>2 DEF m
  <2> QED BY <1>5, <1>9, <2>6, <2>7, <2>8
<1>12. CASE OtherOpen(o)
  <2> DEFINE r == HBI_open(lay, Slave)
  <2>1. /\ other[o] = "init" /\ lay' = r.lay
        /\ other' = [other EXCEPT ![o] = IF r.status = "SUCCESS" THEN "open" ELSE @]
    BY <1>12, Zenon DEF OtherOpen
  <2>2. /\ r.status = "SUCCESS" =>
             /\ Books(r.lay, N, M + 1)
             /\ DOMAIN r.lay.hbi.inst = DOMAIN lay.hbi.inst \cup {r.handle}
        /\ r.status # "SUCCESS" =>
             Books(r.lay, N, M) /\ DOMAIN r.lay.hbi.inst = DOMAIN lay.hbi.inst
    BY <1>5, BooksOpen
  <2> HIDE DEF r
  <2>3. CASE r.status = "SUCCESS"
    <3>1. other' = [other EXCEPT ![o] = "open"] BY <2>1, <2>3
    <3>2. Users' = Users /\ Openers' = Openers \cup {o} /\ o \notin Openers
      BY <1>8, <2>1, <3>1 DEF Users, Openers, None
    <3>3. Cardinality(Openers') = m + 1 BY <1>7, <3>2, FS_AddElement
    <3>4. N = Cardinality(Users') + u BY <1>4, <3>2
    <3> HIDE DEF n, m, u
    <3>5. M + 1 = Cardinality(Openers') + u BY <1>1, <1>2, <1>4, <3>3, SMT
    <3> QED BY <1>5, <1>9, <2>1, <2>2, <2>3, <3>4, <3>5
  <2>4. CASE r.status # "SUCCESS"
    <3>1. other' = other BY <1>8, <2>1, <2>4
    <3>2. Users' = Users /\ Openers' = Openers BY <3>1 DEF Users, Openers
    <3>3. N = Cardinality(Users') + u /\ M = Cardinality(Openers') + u BY <1>4, <3>2
    <3> HIDE DEF n, m, u
    <3> QED BY <1>5, <1>9, <2>1, <2>2, <2>4, <3>3
  <2> QED BY <2>3, <2>4
<1>13. CASE OtherClose(o)
  <2>1. /\ other[o] = "open" /\ other' = [other EXCEPT ![o] = "init"]
        /\ \E h \in DOMAIN lay.hbi.inst : /\ audio.usable => h # audio.handle
                                          /\ lay' = HBI_close(lay, h).lay
    BY <1>13, Zenon DEF OtherClose
  <2>2. PICK h \in DOMAIN lay.hbi.inst : /\ audio.usable => h # audio.handle
                                         /\ lay' = HBI_close(lay, h).lay
    BY <2>1
  <2>3. Users' = Users /\ Openers' = Openers \ {o} /\ o \in Openers
    BY <1>8, <2>1 DEF Users, Openers, None
  <2>4. Cardinality(Openers') = m - 1 BY <1>7, <2>3, FS_RemoveElement
  <2>5. N = Cardinality(Users') + u BY <1>4, <2>3
  <2>6. Books(lay', N, M - 1) /\ DOMAIN lay'.hbi.inst = DOMAIN lay.hbi.inst \ {h}
    BY <1>5, <2>2, BooksClose
  <2> HIDE DEF n, m, u
  <2>7. M - 1 = Cardinality(Openers') + u BY <1>1, <1>2, <1>4, <2>4, SMT
  <2> QED BY <1>5, <1>9, <2>2, <2>5, <2>6, <2>7
<1> QED BY <1>10, <1>11, <1>12, <1>13 DEF OtherDoes

\* A caller without a device, and alone: there is nothing in the books.
LEMMA NothingHeld ==
  ASSUME Shaped, Booked, Alone, ~audio.usable
  PROVE  Books(lay, 0, 0) /\ DOMAIN lay.hbi.inst = {} /\ ~Reaches(lay, audio.handle)
<1>1. Cardinality(Users) = 0 /\ Cardinality(Openers) = 0 BY Counts
<1>2. OneIf(audio.usable) = 0 BY DEF OneIf
<1>3. Books(lay, 0, 0)
  <2>1. 0 + 0 = 0 BY SMT
  <2>2. Books(lay, 0 + 0, 0 + 0) BY <1>1, <1>2 DEF Booked
  <2> QED BY <2>1, <2>2
<1>4. DOMAIN lay.hbi.inst = {} BY <1>3, NoUserNoDevice DEF Books
<1> QED BY <1>3, <1>4 DEF Reaches, BadHandle

\* So does the start of a function.
LEMMA BookedCall ==
  ASSUME PerDev = 1, Shaped, Booked, NEW fn \in Functions, Call(fn)
  PROVE  Booked'
<1>1. /\ Starts(fn) /\ cpu = Idle /\ UNCHANGED other
      /\ (fn # "Init" => Alone \/ (fn # "Erase" /\ audio.usable))
  BY CallStarts
<1>2. audio.usable => Reaches(lay, audio.handle)
  <2>1. Agrees(lay) /\ (audio.usable => audio.handle \in DOMAIN lay.hbi.inst)
    BY DEF Booked, Books
  <2> QED BY <2>1, HeldIsReached
<1>3. CASE OpenFirst(fn)
  <2>1. fn = "Erase" => Alone BY <1>1
  <2> QED BY <1>1, <1>3, <2>1, BookedOpens
<1>4. CASE fn = "SF2I2S" /\ ~Reaches(lay, audio.handle) /\ EndsWith(ClosedOnce(lay), FALSE)
  <2>1. ~audio.usable /\ Alone BY <1>1, <1>2, <1>4
  <2>2. Books(lay, 0, 0) /\ DOMAIN lay.hbi.inst = {} BY <2>1, NothingHeld
  <2>3. Books(ClosedOnce(lay), 0, 0) BY <2>2, BooksClosedAgain
  <2>4. lay' = ClosedOnce(lay) /\ audio'.usable = FALSE /\ cpu' = Idle /\ cpu'.fn = None
    BY <1>4, EndsShaped
  <2>5. Users' = Users /\ Openers' = Openers BY <1>1 DEF Users, Openers
  <2>6. /\ Cardinality(Users) + OneIf(audio'.usable) = 0
        /\ Cardinality(Openers) + OneIf(audio'.usable) = 0
    <3>1. Cardinality(Users) = 0 /\ Cardinality(Openers) = 0 BY <2>1, Counts
    <3> QED BY <3>1, <2>4 DEF OneIf
  <2>7. cpu'.fn # "Erase" BY <2>4 DEF None
  <2> QED BY <2>3, <2>4, <2>5, <2>6, <2>7 DEF Booked
<1>5. CASE fn \in {"DeInit", "Loopback", "SF2I2S"} /\ CallWith(fn, FirstCommand[fn])
  <2>1. \/ UNCHANGED <<lay, cpu, audio>>
        \/ Reaches(lay, audio.handle) /\ UNCHANGED <<lay, audio>> /\ cpu'.fn = fn
    BY <1>5, CallWithGoes
  <2>2. CASE UNCHANGED <<lay, cpu, audio>> BY <1>1, <2>2, BookedStill DEF Booked
  <2>3. CASE Reaches(lay, audio.handle) /\ UNCHANGED <<lay, audio>> /\ cpu'.fn = fn
    <3>1. audio.usable BY <1>1, <1>5, <2>3, NothingHeld
    <3>2. cpu'.fn # "Erase" BY <1>5, <2>3
    <3> QED BY <1>1, <2>3, <3>1, <3>2, BookedStill
  <2> QED BY <2>1, <2>2, <2>3
<1> QED BY <1>1, <1>3, <1>4, <1>5 DEF Starts

\* So does every step.
LEMMA BookedStep ==
  ASSUME PerDev = 1, Shaped, Booked, [Next]_vars
  PROVE  Booked'
<1>1. ASSUME NEW fn \in Functions, Call(fn) PROVE Booked'
  BY <1>1, BookedCall
<1>2. ASSUME NEW cmd \in Direct, CallDirect(cmd) PROVE Booked'
  <2>1. /\ audio.usable /\ CallWith("Direct", cmd) /\ UNCHANGED other
    BY <1>2 DEF CallDirect
  <2>2. \/ UNCHANGED <<lay, cpu, audio>>
        \/ UNCHANGED <<lay, audio>> /\ cpu'.fn = "Direct"
    BY <2>1, CallWithGoes
  <2>3. cpu'.fn = "Erase" => cpu.fn = "Erase" BY <2>2
  <2>4. UNCHANGED <<lay, audio, other>> BY <2>1, <2>2
  <2> QED BY <2>1, <2>3, <2>4, BookedStill
<1>3. CASE Count \/ Config \/ Command
  <2>1. /\ cpu.at # "idle" /\ UNCHANGED other
        /\ EndsOpen \/ EndsClosed \/ Going
    BY <1>3, CommandGoes
  <2>2. cpu # Idle BY <2>1 DEF Idle
  <2>3. CASE Going
    <3>1. UNCHANGED <<lay, audio, other>> /\ cpu'.fn = cpu.fn BY <2>1, <2>3 DEF Going
    <3> QED BY <2>2, <3>1, BookedStill DEF Booked
  <2> QED BY <2>1, <2>2, <2>3, BookedEnds
<1>4. CASE Sleep
  <2>1. audio.usable /\ UNCHANGED <<lay, audio, other>> /\ cpu'.fn = "Direct"
    BY <1>4 DEF Sleep, HasDevice
  <2> QED BY <2>1, BookedStill
<1>5. CASE HardReset \/ Execute \/ UNCHANGED vars \/ \E a \in Accesses : Access(a)
  <2>1. UNCHANGED <<lay, cpu, audio, other>>
    BY <1>5, Zenon DEF HardReset, Execute, vars, Access
  <2> QED BY <2>1, BookedStill DEF Booked
<1>6. ASSUME NEW o \in Others, OtherInit(o) \/ OtherOpen(o) \/ OtherClose(o) \/ OtherTerm(o)
      PROVE Booked'
  BY <1>6, OtherBooks DEF OtherDoes
<1> QED BY <1>1, <1>2, <1>3, <1>4, <1>5, <1>6, Zenon DEF Next

\* Between two calls the library is initialised once for each user that has
\* initialised it and once for a caller with a device, whose handle reaches it: no
\* error path of audio.c leaks or loses anything.  HBI_MAX_INST_PER_DEV is 1, as
\* the library is built: with a second instance of a device, TW_Audio_Init called
\* twice would lose the first.
THEOREM NothingLeaksHolds ==
  ASSUME PerDev = 1
  PROVE  Spec => []NothingLeaks
<1>1. Init => Shaped /\ Booked BY ShapedInitially, BookedInitially
<1>2. (Shaped /\ Booked) /\ [Next]_vars => (Shaped /\ Booked)'
  BY ShapedStep, BookedStep
<1>3. Booked => NothingLeaks BY BookedIsMeant
<1> QED BY <1>1, <1>2, <1>3, PTL DEF Spec

---------------------------------------------------------------------------
(* What a step does to the command being executed.                         *)

Is(k, at, cmd, now, i) == k.at = at /\ k.cmd = cmd /\ k.now = now /\ k.i = i

\* A step that only moves to another step.
LEMMA AtMoves ==
  ASSUME Shaped, NEW x, cpu' = [cpu EXCEPT !.at = x]
  PROVE  Is(cpu', x, cpu.cmd, cpu.now, cpu.i)
BY DEF Shaped, Is

\* The first step of a command that does not go through the flash.
LEMMA GivesMoves ==
  ASSUME Shaped
  PROVE  /\ Gives("LOAD_FWR_COMPLETE") =>
              Is(cpu', "acquire", "LOAD_FWR_COMPLETE", "HOST_LOAD_CMP", cpu.i)
         /\ Gives("START_FWR") => Is(cpu', "mode", "START_FWR", "FWR_GO", cpu.i)
BY DEF Shaped, Gives, Is, FirstStep, OverFlash, HostCmd

\* What follows the return of a command.
SucceedsTo(k) ==
  \/ cpu.cmd # "LOAD_FWR_FROM_HOST" /\ Is(k, "idle", None, None, 0)
  \/ /\ cpu.cmd = "LOAD_FWR_FROM_HOST" /\ cpu.i + 1 < Chunks
     /\ Is(k, "mode", cpu.cmd, cpu.now, cpu.i + 1)
  \/ /\ cpu.cmd = "LOAD_FWR_FROM_HOST" /\ ~(cpu.i + 1 < Chunks)
     /\ Is(k, "acquire", "LOAD_FWR_COMPLETE", "HOST_LOAD_CMP", cpu.i)
  \/ /\ cpu.cmd = "LOAD_FWR_COMPLETE" /\ Is(k, "config", cpu.cmd, cpu.now, cpu.i)
  \/ /\ cpu.cmd = "LOAD_FWRCFG_FROM_FLASH" /\ Is(k, "mode", "START_FWR", "FWR_GO", cpu.i)

\* A function that ends leaves no command.
LEMMA EndsMoves == (EndsOpen \/ EndsClosed) => Is(cpu', "idle", None, None, 0)
BY DEF EndsOpen, EndsClosed, EndsWith, Idle, Is

\* A command that fails ends its function.
LEMMA FailingMoves == Failing => Is(cpu', "idle", None, None, 0)
BY EndsMoves DEF Failing

\* A command that succeeds is followed by the next of its function, if there is one.
LEMMA SucceedsMoves ==
  ASSUME Shaped, Succeeds
  PROVE  SucceedsTo(cpu')
<1>1. CASE cpu.cmd = "LOAD_FWR_FROM_HOST" /\ BlockSent
  <2>1. CASE cpu.i + 1 < Chunks
    <3>1. cpu' = [cpu EXCEPT !.i = @ + 1, !.at = "mode"] BY <1>1, <2>1 DEF BlockSent
    <3>2. Is(cpu', "mode", cpu.cmd, cpu.now, cpu.i + 1) BY <3>1 DEF Shaped, Is
    <3> QED BY <1>1, <2>1, <3>2 DEF SucceedsTo
  <2>2. CASE ~(cpu.i + 1 < Chunks)
    <3>1. Gives("LOAD_FWR_COMPLETE") BY <1>1, <2>2 DEF BlockSent
    <3> QED BY <1>1, <2>2, <3>1, GivesMoves DEF SucceedsTo
  <2> QED BY <2>1, <2>2
<1>2. CASE cpu.cmd = "LOAD_FWR_COMPLETE" /\ cpu' = [cpu EXCEPT !.at = "config"]
  BY <1>2, AtMoves DEF SucceedsTo
<1>3. CASE cpu.cmd = "LOAD_FWRCFG_FROM_FLASH" /\ Gives("START_FWR")
  BY <1>3, GivesMoves DEF SucceedsTo
<1>4. CASE cpu.cmd # "LOAD_FWR_FROM_HOST" /\ (EndsOpen \/ EndsClosed)
  BY <1>4, EndsMoves DEF SucceedsTo
<1> QED BY <1>1, <1>2, <1>3, <1>4 DEF Succeeds

\* What follows the check of the mode and the reset.
LEMMA BootModeMoves ==
  ASSUME Shaped, cpu' = InBootMode(cpu)
  PROVE  Is(cpu', IF cpu.cmd = "LOAD_FWR_FROM_HOST" THEN "send" ELSE "acquire",
            cpu.cmd, cpu.now, cpu.i)
<1>1. CASE cpu.cmd = "LOAD_FWR_FROM_HOST"
  <2>1. cpu' = [cpu EXCEPT !.at = "send"] BY <1>1 DEF InBootMode
  <2> QED BY <1>1, <2>1, AtMoves
<1>2. CASE cpu.cmd # "LOAD_FWR_FROM_HOST"
  <2>1. cpu' = [cpu EXCEPT !.at = "acquire"] BY <1>2 DEF InBootMode
  <2> QED BY <1>2, <2>1, AtMoves
<1> QED BY <1>1, <1>2

\* The host commands and their parameters.
LEMMA Names ==
  /\ DOMAIN Param = {"IMG_CFG_LOAD", "IMG_CFG_ERASE", "ERASE_FLASH_INIT"}
  /\ \A cmd \in OverFlash :
       /\ cmd \notin {"SLEEP", "LOAD_FWR_FROM_HOST"}
       /\ HostCmd[cmd] \notin {"IDLE", "HOST_FLASH_INIT", "APP_SLEEP"}
  /\ HostCmd["START_FWR"] = "FWR_GO"
BY DEF Param, OverFlash, HostCmd

\* How a function, or a command given by itself, starts.
LEMMA CallMoves ==
  ASSUME Shaped, NEW fn \in Functions, Call(fn)
  PROVE  \/ UNCHANGED cpu
         \/ Is(cpu', "idle", None, None, 0)
         \/ Is(cpu', "count", None, None, 0)
         \/ \E cmd \in OverFlash : Is(cpu', "mode", cmd, "HOST_FLASH_INIT", 0)
         \/ Is(cpu', "mode", "START_FWR", "FWR_GO", 0)
<1>1. Starts(fn) /\ cpu = Idle BY CallStarts
<1>2. CASE OpenFirst(fn)
  <2>1. CASE EndsWith(HBI_term(Opened(lay).lay).lay, audio.usable)
    BY <2>1 DEF EndsWith, Idle, Is
  <2>2. CASE /\ cpu'.i = 0
             /\ IF fn = "Init" THEN cpu'.at = "count" /\ cpu'.cmd = None /\ cpu'.now = None
                ELSE /\ cpu'.at = "mode" /\ cpu'.cmd = "ERASE_WHOLE_FLASH"
                     /\ cpu'.now = "HOST_FLASH_INIT"
    BY <2>2 DEF Is, OverFlash
  <2> QED BY <1>2, <2>1, <2>2, OpenFirstGoes
<1>3. CASE EndsWith(ClosedOnce(lay), FALSE) BY <1>3 DEF EndsWith, Idle, Is
<1>4. CASE fn \in {"DeInit", "Loopback", "SF2I2S"} /\ CallWith(fn, FirstCommand[fn])
  <2>1. CASE UNCHANGED cpu BY <2>1
  <2>2. CASE /\ cpu'.at = "mode" /\ cpu'.cmd = FirstCommand[fn] /\ cpu'.i = 0
             /\ cpu'.now = IF FirstCommand[fn] \in OverFlash THEN "HOST_FLASH_INIT"
                           ELSE HostCmd[FirstCommand[fn]]
    <3>1. FirstCommand[fn] \in OverFlash \/ FirstCommand[fn] = "START_FWR"
      BY <1>4 DEF FirstCommand, OverFlash
    <3>2. "START_FWR" \notin OverFlash BY DEF OverFlash
    <3> QED BY <2>2, <3>1, <3>2, Names DEF Is
  <2> QED BY <1>4, <2>1, <2>2, CallWithGoes
<1> QED BY <1>1, <1>2, <1>3, <1>4 DEF Starts

\* A command given by itself goes through the flash.
LEMMA DirectMoves ==
  ASSUME Shaped, NEW cmd \in Direct, CallDirect(cmd)
  PROVE  UNCHANGED cpu \/ Is(cpu', "mode", cmd, "HOST_FLASH_INIT", 0)
<1>1. CallWith("Direct", cmd) BY DEF CallDirect
<1>2. cmd \in OverFlash BY DEF Direct, OverFlash
<1> QED BY <1>1, <1>2, CallWithGoes DEF Is

\* What each step of a command does to it and to the chip.
Stays(x)     == Is(cpu', x, cpu.cmd, cpu.now, cpu.i)
InBoot       == Stays(IF cpu.cmd = "LOAD_FWR_FROM_HOST" THEN "send" ELSE "acquire")
Ends         == Is(cpu', "idle", None, None, 0)
FlashIsReady ==
  Is(cpu', IF HostCmd[cpu.cmd] \in DOMAIN Param THEN "param" ELSE "acquire",
     cpu.cmd, HostCmd[cpu.cmd], cpu.i)

\* TW_Audio_Init finds its image in the flash, or loads it from the host.
LEMMA CountMoves ==
  ASSUME Shaped, Count
  PROVE  /\ cpu.at = "count" /\ UNCHANGED <<chip, link>>
         /\ Ends \/ Is(cpu', "mode", "LOAD_FWR_FROM_HOST", cpu.now, cpu.i)
<1>1. CASE EndsOpen BY <1>1, EndsMoves, Zenon DEF Count, Ends
<1>2. CASE cpu' = [cpu EXCEPT !.at = "mode", !.cmd = "LOAD_FWR_FROM_HOST"]
  <2>1. Is(cpu', "mode", "LOAD_FWR_FROM_HOST", cpu.now, cpu.i) BY <1>2 DEF Shaped, Is
  <2> QED BY <2>1, Zenon DEF Count
<1> QED BY <1>1, <1>2, Zenon DEF Count

\* The configuration ends TW_Audio_Init.
LEMMA ConfigMoves ==
  ASSUME Config
  PROVE  /\ cpu.at = "config" /\ Ends /\ UNCHANGED chip
         /\ link' = [link EXCEPT !.page = Receives(@, Frame(ConfigWrite)).page]
BY EndsMoves, Zenon DEF Config, Ends

\* The boot mode is there, is not wanted, or has to be reached by a reset.
LEMMA CheckModeMoves ==
  ASSUME Shaped, CheckMode
  PROVE  /\ cpu.at = "mode" /\ UNCHANGED <<chip, link>>
         /\ \/ ~chip.app /\ InBoot
            \/ cpu.cmd = "START_FWR" /\ Ends
            \/ chip.app /\ Stays("reset")
<1>1. cpu.at = "mode" /\ UNCHANGED <<chip, link>> BY Zenon DEF CheckMode
<1>2. \/ ~chip.app /\ cpu' = InBootMode(cpu)
      \/ cpu.cmd = "START_FWR" /\ Failing
      \/ chip.app /\ cpu' = [cpu EXCEPT !.at = "reset"]
  <2>1. CASE ~chip.app BY <2>1 DEF CheckMode
  <2>2. CASE chip.app /\ OnlyInBootMode(cpu.cmd)
    <3>1. Failing BY <2>2 DEF CheckMode
    <3> QED BY <2>2, <3>1 DEF OnlyInBootMode
  <2>3. CASE chip.app /\ ~OnlyInBootMode(cpu.cmd) BY <2>3 DEF CheckMode
  <2> QED BY <2>1, <2>2, <2>3
<1> QED BY <1>1, <1>2, BootModeMoves, FailingMoves, AtMoves, Zenon DEF InBoot, Stays, Ends

\* The reset leads to the boot mode, or the command fails.
LEMMA ResetMoves ==
  ASSUME Shaped, Reset
  PROVE  /\ cpu.at = "reset" /\ UNCHANGED link
         /\ \/ /\ InBoot /\ ~chip'.app /\ chip'.ram = chip.ram
               /\ chip'.flag = None /\ chip'.reg = "IDLE"
            \/ Ends /\ UNCHANGED chip
<1>1. cpu.at = "reset" /\ UNCHANGED link BY Zenon DEF Reset
<1>2. ChipShaped(chip) BY DEF Shaped, ChipShaped
<1>3. CASE /\ chip'.app = FALSE /\ chip'.ram = chip.ram
           /\ chip'.flag = None /\ chip'.reg = "IDLE" /\ cpu' = InBootMode(cpu)
  <2>1. ~chip'.app BY <1>3, Zenon
  <2> QED BY <1>1, <1>3, <2>1, BootModeMoves DEF InBoot, Stays
<1>4. CASE Failing /\ UNCHANGED chip BY <1>1, <1>4, FailingMoves DEF Ends
<1> QED BY <1>2, <1>3, <1>4, ChipReset, Zenon

\* A block is sent, and whatever follows.
LEMMA SendBlockMoves ==
  ASSUME Shaped, SendBlock
  PROVE  /\ cpu.at = "send" /\ SucceedsTo(cpu')
         /\ \E p \in {link.page, 255} : link' = [link EXCEPT !.page = p]
BY SucceedsMoves, Zenon DEF SendBlock

\* A parameter is written and the mailbox is acquired.
LEMMA WriteParamMoves ==
  ASSUME Shaped, WriteParam
  PROVE  cpu.at = "param" /\ UNCHANGED link /\ Stays("acquire")
<1>1. cpu' = [cpu EXCEPT !.at = "acquire"] BY Zenon DEF WriteParam
<1> QED BY <1>1, AtMoves, Zenon DEF WriteParam, Stays

\* The mailbox is free, and the command is issued.
LEMMA IssueMoves ==
  ASSUME Shaped, Issue
  PROVE  /\ cpu.at = "acquire" /\ chip.flag # "HOST_CMD" /\ UNCHANGED link
         /\ Stays(IF cpu.cmd = "SLEEP" THEN "result" ELSE "await")
<1>1. cpu' = [cpu EXCEPT !.at = IF cpu.cmd = "SLEEP" THEN "result" ELSE "await"]
  BY Zenon DEF Issue
<1> QED BY <1>1, AtMoves, Zenon DEF Issue, Stays

\* The driver gives up, and the function ends.
LEMMA GiveUpMoves ==
  ASSUME GiveUp
  PROVE  cpu.at \in {"acquire", "await"} /\ Ends /\ UNCHANGED <<chip, link>>
BY FailingMoves, Zenon DEF GiveUp, Ends

\* The command is executed.
LEMMA AwaitedMoves ==
  ASSUME Shaped, Awaited
  PROVE  cpu.at = "await" /\ chip.reg = "IDLE" /\ UNCHANGED <<chip, link>> /\ Stays("result")
<1>1. cpu' = [cpu EXCEPT !.at = "result"] BY Zenon DEF Awaited
<1> QED BY <1>1, AtMoves, Zenon DEF Awaited, Stays

\* Its result is bad, or it returns, or its flash is ready.
LEMMA CheckResultMoves ==
  ASSUME Shaped, CheckResult
  PROVE  /\ cpu.at = "result" /\ UNCHANGED <<chip, link>>
         /\ Ends \/ SucceedsTo(cpu') \/ (cpu.now = "HOST_FLASH_INIT" /\ FlashIsReady)
<1>1. cpu.at = "result" /\ UNCHANGED <<chip, link>> BY Zenon DEF CheckResult
<1>2. Failing \/ Succeeds \/ (cpu.now = "HOST_FLASH_INIT" /\ FlashReady)
  BY DEF CheckResult
<1>3. FlashReady => FlashIsReady
  <2> DEFINE cmd == HostCmd[cpu.cmd]
             at  == IF cmd \in DOMAIN Param THEN "param" ELSE "acquire"
  <2>1. FlashReady => cpu' = [cpu EXCEPT !.now = cmd, !.at = at] BY Zenon DEF FlashReady
  <2> HIDE DEF cmd, at
  <2>2. FlashReady => Is(cpu', at, cpu.cmd, cmd, cpu.i) BY <2>1 DEF Shaped, Is
  <2> QED BY <2>2, Zenon DEF FlashIsReady, cmd, at
<1> QED BY <1>1, <1>2, <1>3, FailingMoves, SucceedsMoves, Zenon DEF Ends

---------------------------------------------------------------------------
(* The mailbox.                                                            *)

\* The mailbox of the chip c while the command cmd is at a step of it.  The chip has
\* a command exactly while its notice is there; the driver waits for the command
\* that the mailbox holds or has held last; and nothing is in the mailbox from the
\* time the driver writes a parameter until it issues the command.
BoxedAs(at, cmd, now, c) ==
  /\ now # "IDLE"
  /\ (c.reg = "IDLE" <=> c.flag = None)
  /\ cmd = "SLEEP" => now = "APP_SLEEP" /\ at \in {"acquire", "result"}
  /\ cmd = "LOAD_FWR_FROM_HOST" => at \in {"mode", "reset", "send"}
  /\ now = "HOST_FLASH_INIT" => cmd \in OverFlash
  /\ at \in {"mode", "reset", "send"} => now \notin DOMAIN Param
  /\ at = "count" => now = None
  /\ at = "await" => c.reg = now \/ (c.reg = "IDLE" /\ c.result.of = now)
  /\ at = "result" /\ cmd # "SLEEP" => c.flag = None /\ c.result.of = now
  /\ at = "param" => c.flag = None
  /\ at = "acquire" /\ now \in DOMAIN Param =>
       c.flag = None /\ c.result = [of |-> "param", val |-> Param[now]]
  /\ c.flag # None /\ c.reg \in DOMAIN Param =>
       c.result = [of |-> "param", val |-> Param[c.reg]]

Boxed == BoxedAs(cpu.at, cpu.cmd, cpu.now, chip)

\* So the result that is read and the parameter that is met are the right ones.
LEMMA BoxedIsMeant == Boxed => ResultIsOwn /\ ParamIsOwn
BY Zenon DEF Boxed, BoxedAs, ResultIsOwn, ParamIsOwn

\* The mailbox after a step of the driver that does not touch it.
LEMMA BoxedWith ==
  ASSUME NEW k, NEW at, NEW cmd, NEW now, NEW i, Is(k, at, cmd, now, i), NEW c,
         BoxedAs(at, cmd, now, c)
  PROVE  BoxedAs(k.at, k.cmd, k.now, c)
BY Zenon DEF Is

\* Between calls, and where a command starts, the driver asks nothing of the mailbox.
LEMMA BoxedIdle ==
  ASSUME NEW at, NEW cmd, NEW now, NEW c, BoxedAs(at, cmd, now, c)
  PROVE  /\ BoxedAs("idle", None, None, c) /\ BoxedAs("count", None, None, c)
         /\ BoxedAs("acquire", "LOAD_FWR_COMPLETE", "HOST_LOAD_CMP", c)
         /\ BoxedAs("mode", "START_FWR", "FWR_GO", c)
         /\ BoxedAs("acquire", "SLEEP", "APP_SLEEP", c)
         /\ \A f \in OverFlash : BoxedAs("mode", f, "HOST_FLASH_INIT", c)
BY Names DEF BoxedAs, None

\* The mailbox is left alone.
SameBox == chip'.reg = chip.reg /\ chip'.flag = chip.flag /\ chip'.result = chip.result

\* The invariant of the mailbox depends on nothing else of the chip.
LEMMA BoxedSame ==
  ASSUME SameBox, NEW at, NEW cmd, NEW now, BoxedAs(at, cmd, now, chip)
  PROVE  BoxedAs(at, cmd, now, chip')
BY Zenon DEF SameBox, BoxedAs

\* The next command starts with the mailbox as it is.
LEMMA BoxedSucceeds ==
  ASSUME Boxed, SucceedsTo(cpu'), SameBox
  PROVE  Boxed'
<1>1. BoxedAs(cpu.at, cpu.cmd, cpu.now, chip') BY BoxedSame DEF Boxed
<1>2. CASE cpu.cmd = "LOAD_FWR_FROM_HOST" /\ Is(cpu', "mode", cpu.cmd, cpu.now, cpu.i + 1)
  <2>1. BoxedAs("mode", cpu.cmd, cpu.now, chip') BY <1>1, <1>2 DEF BoxedAs
  <2> QED BY <1>2, <2>1, BoxedWith, Zenon DEF Boxed
<1>3. CASE cpu.cmd = "LOAD_FWR_COMPLETE" /\ Is(cpu', "config", cpu.cmd, cpu.now, cpu.i)
  <2>1. BoxedAs("config", cpu.cmd, cpu.now, chip') BY <1>1, <1>3 DEF BoxedAs
  <2> QED BY <1>3, <2>1, BoxedWith, Zenon DEF Boxed
<1> QED BY <1>1, <1>2, <1>3, BoxedIdle, BoxedWith, Zenon DEF SucceedsTo, Boxed

\* What the chip executes was in its mailbox: the driver that waits for it finds
\* it in HOST_CMD_PARAM_RESULT.
LEMMA BoxedExecute ==
  ASSUME Boxed, chip.flag # None, chip'.flag = None, chip'.reg = "IDLE",
         chip'.result.of = chip.reg, UNCHANGED cpu
  PROVE  Boxed'
<1>1. BoxedAs(cpu.at, cpu.cmd, cpu.now, chip) BY DEF Boxed
<1>2. BoxedAs(cpu.at, cpu.cmd, cpu.now, chip')
  <2>1. "IDLE" \notin DOMAIN Param BY Names
  <2> QED BY <1>1, <2>1 DEF BoxedAs
<1> QED BY <1>2, Zenon DEF Boxed

\* The driver issues a command: it takes the mailbox as soon as there is no command
\* in it, which may still have the notice of tw_sleep.
LEMMA BoxedIssue ==
  ASSUME Boxed, cpu.at = "acquire", chip.flag # "HOST_CMD",
         Stays(IF cpu.cmd = "SLEEP" THEN "result" ELSE "await"),
         chip'.reg = cpu.now, chip'.result = chip.result,
         chip'.flag = IF cpu.cmd = "SLEEP" THEN "APP_HOST_CMD" ELSE "HOST_CMD"
  PROVE  Boxed'
<1>1. BoxedAs(cpu.at, cpu.cmd, cpu.now, chip) BY DEF Boxed
<1>2. chip'.flag # None BY DEF None
<1>3. BoxedAs(IF cpu.cmd = "SLEEP" THEN "result" ELSE "await", cpu.cmd, cpu.now, chip')
  <2>1. CASE cpu.cmd = "SLEEP"
    <3>1. cpu.now = "APP_SLEEP" /\ "APP_SLEEP" \notin DOMAIN Param
      BY <1>1, <2>1, Names DEF BoxedAs
    <3>2. BoxedAs("result", cpu.cmd, cpu.now, chip') BY <1>1, <1>2, <2>1, <3>1 DEF BoxedAs
    <3> QED BY <2>1, <3>2
  <2>2. CASE cpu.cmd # "SLEEP"
    <3>1. cpu.now \in DOMAIN Param => chip.result = [of |-> "param", val |-> Param[cpu.now]]
      BY <1>1, Zenon DEF BoxedAs
    <3>2. cpu.now # "IDLE" /\ cpu.cmd # "LOAD_FWR_FROM_HOST"
          /\ (cpu.now = "HOST_FLASH_INIT" => cpu.cmd \in OverFlash)
      BY <1>1 DEF BoxedAs
    <3>3. BoxedAs("await", cpu.cmd, cpu.now, chip') BY <1>2, <2>2, <3>1, <3>2 DEF BoxedAs
    <3> QED BY <2>2, <3>3
  <2> QED BY <2>1, <2>2
<1> QED BY <1>3, BoxedWith, Zenon DEF Boxed, Stays

\* The parameter is written while nothing is in the mailbox.
LEMMA BoxedParam ==
  ASSUME Boxed, cpu.at = "param", Stays("acquire"), chip'.reg = chip.reg,
         chip'.flag = chip.flag, chip'.result = [of |-> "param", val |-> Param[cpu.now]]
  PROVE  Boxed'
<1>1. BoxedAs(cpu.at, cpu.cmd, cpu.now, chip) BY DEF Boxed
<1>2. chip'.flag = None BY <1>1 DEF BoxedAs
<1>3. BoxedAs("acquire", cpu.cmd, cpu.now, chip') BY <1>1, <1>2 DEF BoxedAs
<1> QED BY <1>3, BoxedWith, Zenon DEF Boxed, Stays

\* The flash is ready: the command itself comes next, after its parameter if it
\* takes one.
LEMMA BoxedFlash ==
  ASSUME Boxed, cpu.at = "result", cpu.now = "HOST_FLASH_INIT", FlashIsReady, SameBox
  PROVE  Boxed'
<1> DEFINE now == HostCmd[cpu.cmd]
           at  == IF now \in DOMAIN Param THEN "param" ELSE "acquire"
<1>1. BoxedAs(cpu.at, cpu.cmd, cpu.now, chip') BY BoxedSame DEF Boxed
<1>2. cpu.cmd \in OverFlash BY <1>1 DEF BoxedAs
<1>3. /\ cpu.cmd # "SLEEP" /\ cpu.cmd # "LOAD_FWR_FROM_HOST"
      /\ now # "IDLE" /\ now # "HOST_FLASH_INIT"
  BY <1>2, Names
<1>4. chip'.flag = None BY <1>1, <1>3 DEF BoxedAs
<1> HIDE DEF now
<1>5. BoxedAs(at, cpu.cmd, now, chip') BY <1>1, <1>3, <1>4 DEF BoxedAs
<1> QED BY <1>5, BoxedWith, Zenon DEF Boxed, FlashIsReady, now

\* The driver moves to another step of its command.
LEMMA BoxedStays ==
  ASSUME Boxed, SameBox
  PROVE  /\ cpu.at = "mode" /\ Stays("reset") => Boxed'
         /\ cpu.at \in {"mode", "reset"} /\ InBoot => Boxed'
         /\ cpu.at = "await" /\ chip.reg = "IDLE" /\ Stays("result") => Boxed'
         /\ cpu.at = "count" /\ Is(cpu', "mode", "LOAD_FWR_FROM_HOST", cpu.now, cpu.i)
              => Boxed'
<1>1. BoxedAs(cpu.at, cpu.cmd, cpu.now, chip') BY BoxedSame DEF Boxed
<1>2. chip'.reg = chip.reg BY DEF SameBox
<1>3. cpu.at = "mode" => BoxedAs("reset", cpu.cmd, cpu.now, chip') BY <1>1 DEF BoxedAs
<1>4. cpu.at \in {"mode", "reset"} =>
        BoxedAs(IF cpu.cmd = "LOAD_FWR_FROM_HOST" THEN "send" ELSE "acquire",
                cpu.cmd, cpu.now, chip')
  <2>1. CASE cpu.cmd = "LOAD_FWR_FROM_HOST" BY <1>1, <2>1 DEF BoxedAs
  <2>2. CASE cpu.cmd # "LOAD_FWR_FROM_HOST" BY <1>1, <2>2 DEF BoxedAs
  <2> QED BY <2>1, <2>2
<1>5. cpu.at = "await" /\ chip.reg = "IDLE" => BoxedAs("result", cpu.cmd, cpu.now, chip')
  BY <1>1, <1>2 DEF BoxedAs
<1>6. cpu.at = "count" => BoxedAs("mode", "LOAD_FWR_FROM_HOST", cpu.now, chip')
  <2>1. None \notin DOMAIN Param BY Names DEF None
  <2> QED BY <1>1, <2>1 DEF BoxedAs, None
<1> QED BY <1>3, <1>4, <1>5, <1>6, BoxedWith, Zenon DEF Boxed, Stays, InBoot

\* Every step of a command keeps the invariant of the mailbox.
LEMMA BoxedCommand ==
  ASSUME Shaped, Boxed, Count \/ Config \/ Command
  PROVE  Boxed'
<1>0. ChipShaped(chip) BY DEF Shaped, ChipShaped
<1>1. BoxedAs(cpu.at, cpu.cmd, cpu.now, chip) BY DEF Boxed
<1>2. UNCHANGED chip => SameBox BY DEF SameBox
<1>3. Ends /\ SameBox => Boxed'
  BY <1>1, BoxedSame, BoxedIdle, BoxedWith, Zenon DEF Ends, Boxed
<1>4. CASE Count BY <1>2, <1>3, <1>4, CountMoves, BoxedStays, Zenon
<1>5. CASE Config BY <1>2, <1>3, <1>5, ConfigMoves, Zenon
<1>6. CASE CheckMode BY <1>2, <1>3, <1>6, CheckModeMoves, BoxedStays
<1>7. CASE Reset
  <2>1. cpu.at = "reset" BY <1>7, ResetMoves
  <2>2. CASE InBoot /\ chip'.flag = None /\ chip'.reg = "IDLE"
    <3>1. cpu.cmd # "SLEEP" BY <1>1, <2>1 DEF BoxedAs
    <3>2. BoxedAs(IF cpu.cmd = "LOAD_FWR_FROM_HOST" THEN "send" ELSE "acquire",
                  cpu.cmd, cpu.now, chip')
      <4>1. CASE cpu.cmd = "LOAD_FWR_FROM_HOST" BY <1>1, <2>1, <2>2, <4>1 DEF BoxedAs
      <4>2. CASE cpu.cmd # "LOAD_FWR_FROM_HOST" BY <1>1, <2>1, <2>2, <3>1, <4>2 DEF BoxedAs
      <4> QED BY <4>1, <4>2
    <3> QED BY <2>2, <3>2, BoxedWith, Zenon DEF Boxed, InBoot, Stays
  <2> QED BY <1>2, <1>3, <1>7, <2>2, ResetMoves, Zenon
<1>8. CASE SendBlock
  <2>1. SameBox BY <1>0, <1>8, ChipSent, Zenon DEF SameBox
  <2> QED BY <1>8, <2>1, SendBlockMoves, BoxedSucceeds, Zenon
<1>9. CASE WriteParam BY <1>0, <1>9, WriteParamMoves, ChipParam, BoxedParam, Zenon
<1>10. CASE Issue BY <1>0, <1>10, IssueMoves, ChipIssued, BoxedIssue, Zenon
<1>11. CASE GiveUp BY <1>2, <1>3, <1>11, GiveUpMoves, Zenon
<1>12. CASE Awaited BY <1>2, <1>12, AwaitedMoves, BoxedStays, Zenon
<1>13. CASE CheckResult
  BY <1>2, <1>3, <1>13, CheckResultMoves, BoxedSucceeds, BoxedFlash, Zenon
<1> QED
  BY <1>4, <1>5, <1>6, <1>7, <1>8, <1>9, <1>10, <1>11, <1>12, <1>13, Zenon DEF Command

\* Every step does.
LEMMA BoxedStep ==
  ASSUME Shaped, Boxed, [Next]_vars
  PROVE  Boxed'
<1>0. ChipShaped(chip) BY DEF Shaped, ChipShaped
<1>1. BoxedAs(cpu.at, cpu.cmd, cpu.now, chip) BY DEF Boxed
<1>2. UNCHANGED chip => SameBox BY DEF SameBox
<1>3. UNCHANGED <<cpu, chip>> => Boxed' BY <1>1, Zenon DEF Boxed
<1>4. ASSUME NEW fn \in Functions, Call(fn) PROVE Boxed'
  <2>1. UNCHANGED chip BY <1>4, CallStarts, Zenon
  <2>2. BoxedAs(cpu.at, cpu.cmd, cpu.now, chip') BY <1>2, <2>1, BoxedSame, Zenon DEF Boxed
  <2> QED BY <1>3, <1>4, <2>1, <2>2, CallMoves, BoxedIdle, BoxedWith, Zenon DEF Boxed
<1>5. ASSUME NEW cmd \in Direct, CallDirect(cmd) PROVE Boxed'
  <2>1. UNCHANGED chip BY <1>5, Zenon DEF CallDirect
  <2>2. BoxedAs(cpu.at, cpu.cmd, cpu.now, chip') BY <1>2, <2>1, BoxedSame, Zenon DEF Boxed
  <2>3. cmd \in OverFlash BY DEF Direct, OverFlash
  <2> QED BY <1>3, <1>5, <2>1, <2>2, <2>3, DirectMoves, BoxedIdle, BoxedWith, Zenon DEF Boxed
<1>6. ASSUME NEW a \in Accesses, Access(a) PROVE Boxed' BY <1>3, <1>6, Zenon DEF Access
<1>7. CASE Sleep
  <2>1. Is(cpu', "acquire", "SLEEP", "APP_SLEEP", 0) /\ UNCHANGED chip
    BY <1>7 DEF Sleep, Is
  <2>2. BoxedAs(cpu.at, cpu.cmd, cpu.now, chip') BY <1>2, <2>1, BoxedSame, Zenon DEF Boxed
  <2> QED BY <2>1, <2>2, BoxedIdle, BoxedWith, Zenon DEF Boxed
<1>8. CASE HardReset
  <2>1. /\ cpu = Idle /\ UNCHANGED cpu /\ chip' = PoweredOn(chip.images)
    BY <1>8, Zenon DEF HardReset, HasDevice
  <2>2. chip'.flag = None /\ chip'.reg = "IDLE" BY <2>1, PoweredOnIs, Zenon
  <2>3. cpu.at = "idle" /\ cpu.cmd = None /\ cpu.now = None BY <2>1 DEF Idle
  <2>4. BoxedAs("idle", None, None, chip') BY <2>2 DEF BoxedAs, None
  <2> QED BY <2>1, <2>3, <2>4, Zenon DEF Boxed
<1>9. CASE Count \/ Config \/ Command BY <1>9, BoxedCommand
<1>10. CASE Execute
  <2>1. chip.flag # None /\ UNCHANGED cpu BY <1>10, Zenon DEF Execute
  <2> QED BY <1>0, <1>10, <2>1, ChipExecuted, BoxedExecute, Zenon
<1>11. ASSUME NEW o \in Others, OtherInit(o) \/ OtherOpen(o) \/ OtherClose(o) \/ OtherTerm(o)
       PROVE Boxed'
  BY <1>3, <1>11, Zenon DEF OtherInit, OtherOpen, OtherClose, OtherTerm
<1>12. CASE UNCHANGED vars BY <1>3, <1>12, Zenon DEF vars
<1> QED
  BY <1>4, <1>5, <1>6, <1>7, <1>8, <1>9, <1>10, <1>11, <1>12, Zenon DEF Next

\* The mailbox is empty at first.
LEMMA BoxedInitially == Init => Boxed
<1> SUFFICES ASSUME Init PROVE Boxed OBVIOUS
<1>1. cpu.at = "idle" /\ cpu.cmd = None /\ cpu.now = None BY DEF Init, Idle
<1>2. chip.flag = None /\ chip.reg = "IDLE" BY PoweredOnIs, Zenon DEF Init
<1>3. BoxedAs("idle", None, None, chip) BY <1>2 DEF BoxedAs, None
<1> QED BY <1>1, <1>3, Zenon DEF Boxed

---------------------------------------------------------------------------
(* The frames are exact.                                                   *)

\* What a command word holds: its register, its length less one and whether it
\* writes.
IsWord(w, op, offset, length) ==
  /\ w \in Nat /\ w <= 256 * offset + 255 /\ w % 128 = length
  /\ w \div 256 = offset /\ (Bit7(w) <=> op = "write")

\* A command word holds its register, its length and whether it writes.
LEMMA WordHolds ==
  ASSUME NEW op \in {"read", "write"}, NEW offset \in 0..127, NEW length \in 0..127
  PROVE  IsWord(PagedWord(op, offset, length), op, offset, length)
<1>0. PICK v : v = 256 * offset + length OBVIOUS
<1>1. /\ v \in Nat /\ v <= 256 * offset + 127 /\ v % 128 = length /\ v \div 256 = offset
      /\ (v % 256) \div 128 = 0
  BY <1>0, SMT
<1>2. /\ v + 128 \in Nat /\ v + 128 <= 256 * offset + 255 /\ (v + 128) % 128 = length
      /\ (v + 128) \div 256 = offset /\ ((v + 128) % 256) \div 128 = 1
  BY <1>0, SMT
<1>3. ~Bit7(v) /\ Bit7(v + 128) BY <1>1, <1>2 DEF Bit7
<1>4. CASE op = "write"
  <2>1. PagedWord(op, offset, length) = v + 128 BY <1>0, <1>3, <1>4 DEF PagedWord
  <2> QED BY <1>2, <1>3, <1>4, <2>1 DEF IsWord
<1>5. CASE op = "read"
  <2>1. PagedWord(op, offset, length) = v BY <1>0, <1>5 DEF PagedWord
  <2>2. v <= 256 * offset + 255 BY <1>1, SMT
  <2> QED BY <1>1, <1>3, <1>5, <2>1, <2>2 DEF IsWord
<1> QED BY <1>4, <1>5

\* The command word of a direct access, with bit 15 set, keeps what it holds below.
LEMMA DirectHolds ==
  ASSUME NEW v \in Nat, NEW offset \in Nat, offset <= 123, v <= 256 * offset + 255
  PROVE  /\ 32768 + v >= 32768 /\ 32768 + v < 64512 /\ 32768 + v - 32768 = v
         /\ (32768 + v) % 128 = v % 128 /\ (32768 + v) % 256 = v % 256
BY SMT

\* Nor is the command word of a paged access one that the chip takes for another.
LEMMA PagedIsNoCommand ==
  ASSUME NEW w \in Nat, w <= 32767
  PROVE  ~(w >= 32768) /\ ~(w >= 64512) /\ ~(65024 <= w)
BY SMT

\* The chip hears a selection of a page.
LEMMA SelectHeard ==
  ASSUME NEW page \in 0..255, NEW l
  PROVE  Hears(l, SelectPage(page)) = [page |-> page, done |-> NoAccess]
<1>0. PICK w : w = 65024 + page OBVIOUS
<1>1. 65024 <= w /\ w < 65280 /\ w - 65024 = page BY <1>0, SMT
<1>2. Hears(l, w) = [page |-> w - 65024, done |-> NoAccess] BY <1>1, SMT DEF Hears
<1> QED BY <1>0, <1>1, <1>2, SMT DEF SelectPage

\* The chip hears an access to page 0.
LEMMA DirectHeard ==
  ASSUME NEW page \in 0..255, NEW op \in {"read", "write"},
         NEW offset \in 0..123, NEW length \in 0..127
  PROVE  Hears([page |-> page, done |-> NoAccess], DirectWord(op, offset, length))
           = [page |-> page, done |-> Reg(op, 2 * offset, length + 1)]
<1>0. PICK v : v = PagedWord(op, offset, length) OBVIOUS
<1>1. IsWord(v, op, offset, length)
  <2>1. offset \in 0..127 BY SMT
  <2> QED BY <1>0, <2>1, WordHolds, Zenon
<1>2. PICK w : w = 32768 + v OBVIOUS
<1>3. /\ v \in Nat /\ v <= 256 * offset + 255 /\ v % 128 = length
      /\ v \div 256 = offset /\ (Bit7(v) <=> op = "write")
  BY <1>1 DEF IsWord
<1>4. offset \in Nat /\ offset <= 123 BY SMT
<1>5. /\ w \in Nat /\ w >= 32768 /\ w < 64512 /\ w - 32768 = v
      /\ w % 128 = v % 128 /\ w % 256 = v % 256
  BY <1>2, <1>3, <1>4, DirectHolds, SMT
<1>6. Bit7(w) <=> op = "write" BY <1>3, <1>5, SMT DEF Bit7
<1>7. (IF Bit7(w) THEN "write" ELSE "read") = op BY <1>6, SMT
<1>8. ~(w >= 64512) /\ ~(65024 <= w) BY <1>5, SMT
<1>9. (w % 128) + 1 = length + 1 /\ 2 * ((w - 32768) \div 256) = 2 * offset
  BY <1>3, <1>5, SMT
<1>10. PICK l : l = [page |-> page, done |-> NoAccess] OBVIOUS
<1>11. Hears(l, w) = [l EXCEPT !.done = Reg(op, 2 * offset, length + 1)]
  BY <1>5, <1>7, <1>8, <1>9, SMT DEF Hears
<1>12. [l EXCEPT !.done = Reg(op, 2 * offset, length + 1)]
         = [page |-> page, done |-> Reg(op, 2 * offset, length + 1)]
  BY <1>10
<1>13. DirectWord(op, offset, length) = w BY <1>0, <1>2, SMT DEF DirectWord
<1> QED BY <1>10, <1>11, <1>12, <1>13

\* The register that a paged access reaches while the chip has a page selected.
PagedRegister(page, offset) == 256 * (IF page = 255 THEN 255 ELSE page + 1) + 2 * offset

\* The chip hears an access to the page selected.
LEMMA PagedHeard ==
  ASSUME NEW page \in 0..255, NEW op \in {"read", "write"},
         NEW offset \in 0..127, NEW length \in 0..127,
         NEW first, first = PagedRegister(page, offset)
  PROVE  Hears([page |-> page, done |-> NoAccess], PagedWord(op, offset, length))
           = [page |-> page, done |-> Reg(op, first, length + 1)]
<1>0. PICK w : w = PagedWord(op, offset, length) OBVIOUS
<1>1. IsWord(w, op, offset, length) BY <1>0, WordHolds, Zenon
<1>2. /\ w \in Nat /\ w <= 256 * offset + 255 /\ w % 128 = length
      /\ w \div 256 = offset /\ (Bit7(w) <=> op = "write")
  BY <1>1 DEF IsWord
<1>3. ~(w >= 32768) /\ ~(w >= 64512) /\ ~(65024 <= w)
  <2>1. w \in Nat /\ w <= 256 * offset + 255 BY <1>2
  <2>2. w <= 32767 BY <2>1, SMT
  <2> QED BY <2>1, <2>2, SMT
<1>4. (IF Bit7(w) THEN "write" ELSE "read") = op BY <1>2
<1>5. (w % 128) + 1 = length + 1 /\ 2 * (w \div 256) = 2 * offset BY <1>2, SMT
<1>6. PICK l : l = [page |-> page, done |-> NoAccess] OBVIOUS
<1>7. 256 * (IF l.page = 255 THEN 255 ELSE l.page + 1) + 2 * offset = first
  BY <1>6 DEF PagedRegister
<1>8. Hears(l, w) = [l EXCEPT !.done = Reg(op, first, length + 1)]
  BY <1>3, <1>4, <1>5, <1>7, SMT DEF Hears
<1>9. [l EXCEPT !.done = Reg(op, first, length + 1)]
        = [page |-> page, done |-> Reg(op, first, length + 1)]
  BY <1>6
<1> QED BY <1>0, <1>6, <1>8, <1>9

\* What a proper access is, in numbers: its page, its register, its length less
\* one and the page that the driver selects.
LEMMA ProperParts ==
  ASSUME NEW addr \in Nat, NEW size \in Nat, addr < 65536,
         addr % 2 = 0, size % 2 = 0, 2 <= size, size <= 256, (addr % 256) + size <= 256,
         addr < 256 => addr < 248,
         NEW pg, pg = (addr \div 256) % 256,
         NEW offset, offset = (addr % 256) \div 2,
         NEW n, n = (size \div 2 - 1) % 256
  PROVE  /\ pg \in 0..255 /\ offset \in 0..127 /\ n \in 0..127
         /\ addr = 256 * pg + 2 * offset /\ n + 1 = size \div 2
         /\ pg = 0 => offset \in 0..123 /\ 2 * offset = addr
<1>1. pg = addr \div 256 /\ pg \in 0..255 BY SMT
<1>2. n = size \div 2 - 1 /\ n \in 0..127 /\ n + 1 = size \div 2 BY SMT
<1>3. PICK r : r = addr % 256 OBVIOUS
<1>4. r \in 0..254 /\ addr = 256 * pg + r BY <1>1, <1>3, SMT
<1>5. r % 2 = 0 BY <1>1, <1>4, SMT
<1>6. offset \in 0..127 /\ 2 * offset = r BY <1>3, <1>4, <1>5, SMT
<1>7. pg = 0 => offset \in 0..123 /\ 2 * offset = addr BY <1>1, <1>4, <1>6, SMT
<1> QED BY <1>1, <1>2, <1>4, <1>6, <1>7, SMT

\* The chip does what the caller means, whatever page it had selected.
LEMMA FrameIsExact ==
  ASSUME NEW page \in 0..255, NEW a, IsAccess(a), Proper(a)
  PROVE  /\ Receives(page, Frame(a)).done = Meant(a)
         /\ Receives(page, Frame(a)).page \in 0..255
<1>1. PICK op, addr, size : op = a.op /\ addr = a.addr /\ size = a.size OBVIOUS
<1>2. op \in {"read", "write"} /\ addr \in Nat /\ size \in Nat
  <2>1. a.op \in {"read", "write"} /\ a.addr \in Nat /\ a.size \in Nat BY SMT DEF IsAccess
  <2> QED BY <1>1, <2>1
<1>3. /\ addr % 2 = 0 /\ size % 2 = 0 /\ 2 <= size /\ size <= 256
      /\ (addr % 256) + size <= 256 /\ (addr < 256 => addr < 248)
  BY <1>1, SMT DEF Proper, MaxAccess
<1>4. PICK pg, offset, n : /\ pg = (addr \div 256) % 256 /\ offset = (addr % 256) \div 2
                           /\ n = NumWords(size)
  OBVIOUS
<1>5. /\ pg \in 0..255 /\ offset \in 0..127 /\ n \in 0..127
      /\ addr = 256 * pg + 2 * offset /\ n + 1 = size \div 2
      /\ pg = 0 => offset \in 0..123 /\ 2 * offset = addr
  <2>1. n = (size \div 2 - 1) % 256 BY <1>4, SMT DEF NumWords
  <2>2. a.addr < 65536 BY SMT DEF IsAccess
  <2>3. addr < 65536 BY <1>1, <2>2, SMT
  <2> QED BY <1>2, <1>3, <1>4, <2>1, <2>3, ProperParts, SMT
<1>6. PICK sel : sel = IF pg = 255 THEN pg ELSE pg - 1 OBVIOUS
<1>7. Meant(a) = Reg(op, addr, n + 1) BY <1>1, <1>5, SMT DEF Meant
<1>8. Frame(a) = IF pg = 0 THEN <<DirectWord(op, offset, n)>>
                 ELSE <<SelectPage(sel), PagedWord(op, offset, n)>>
  BY <1>1, <1>4, <1>6, SMT DEF Frame
<1>9. PICK l : l = [page |-> page, done |-> NoAccess] OBVIOUS
<1>10. CASE pg = 0
  <2>1. PICK w : w = DirectWord(op, offset, n) OBVIOUS
  <2>2. Receives(page, <<w>>) = Hears(l, w) BY <1>9, SMT DEF Receives
  <2>3. offset \in 0..123 /\ 2 * offset = addr BY <1>5, <1>10, SMT
  <2>4. Hears(l, w) = [page |-> page, done |-> Reg(op, 2 * offset, n + 1)]
    BY <1>2, <1>5, <1>9, <2>1, <2>3, DirectHeard
  <2>5. Frame(a) = <<w>> BY <1>8, <1>10, <2>1
  <2>6. Receives(page, Frame(a)) = [page |-> page, done |-> Reg(op, addr, n + 1)]
    BY <2>2, <2>3, <2>4, <2>5
  <2> QED BY <1>7, <2>6
<1>11. CASE pg # 0
  <2>1. sel \in 0..255 /\ pg = IF sel = 255 THEN 255 ELSE sel + 1
    BY <1>5, <1>6, <1>11, SMT
  <2>2. PICK v, w : v = SelectPage(sel) /\ w = PagedWord(op, offset, n) OBVIOUS
  <2>3. Receives(page, <<v, w>>) = Hears(Hears(l, v), w) BY <1>9, SMT DEF Receives
  <2>4. Hears(l, v) = [page |-> sel, done |-> NoAccess] BY <2>1, <2>2, SelectHeard
  <2>5. Hears([page |-> sel, done |-> NoAccess], w)
          = [page |-> sel, done |-> Reg(op, addr, n + 1)]
    <3>1. 256 * (IF sel = 255 THEN 255 ELSE sel + 1) + 2 * offset = addr
      BY <1>5, <2>1, SMT
    <3>2. addr = PagedRegister(sel, offset) BY <3>1 DEF PagedRegister
    <3>3. n \in 0..127 /\ offset \in 0..127 BY <1>5
    <3> QED BY <1>2, <2>1, <2>2, <3>2, <3>3, PagedHeard, Zenon
  <2>6. Frame(a) = <<v, w>> BY <1>8, <1>11, <2>2
  <2>7. Receives(page, Frame(a)) = [page |-> sel, done |-> Reg(op, addr, n + 1)]
    BY <1>5, <2>3, <2>4, <2>5, <2>6
  <2> QED BY <1>7, <2>1, <2>7
<1> QED BY <1>10, <1>11

---------------------------------------------------------------------------
(* The accesses of the registers.                                          *)

\* The chip did what the last caller meant, and has one of its pages selected.
Linked == link.done = link.meant /\ link.page \in 0..255

\* The writes of the configuration are proper.
LEMMA ConfigIsProper == IsAccess(ConfigWrite) /\ Proper(ConfigWrite)
BY SMT DEF ConfigWrite, IsAccess, Proper, MaxAccess

\* Selecting a page does nothing else.
LEMMA LinkedPage ==
  ASSUME Shaped, Linked, NEW p \in 0..255, link' = [link EXCEPT !.page = p]
  PROVE  Linked'
<1>1. link'.done = link.done /\ link'.meant = link.meant /\ link'.page = p BY DEF Shaped
<1> QED BY <1>1 DEF Linked

\* Every step leaves the chip at one of its pages, and having done what was meant.
LEMMA LinkedStep ==
  ASSUME "improper" \notin Env, Shaped, Linked, [Next]_vars
  PROVE  Linked'
<1>0. link.page \in 0..255 BY DEF Linked
<1>1. UNCHANGED link => Linked' BY DEF Linked
<1>2. ASSUME NEW fn \in Functions, Call(fn) PROVE Linked'
  BY <1>1, <1>2, CallStarts, Zenon
<1>3. ASSUME NEW cmd \in Direct, CallDirect(cmd) PROVE Linked'
  BY <1>1, <1>3, Zenon DEF CallDirect
<1>4. ASSUME NEW a \in Accesses, Access(a) PROVE Linked'
  <2>1. IsAccess(a) BY AudioAssumption
  <2>2. /\ Proper(a)
        /\ link' = [page |-> Sent(a).page, done |-> Sent(a).done, meant |-> Meant(a)]
    BY <1>4, Zenon DEF Access
  <2>3. Sent(a).done = Meant(a) /\ Sent(a).page \in 0..255
    BY <1>0, <2>1, <2>2, FrameIsExact, Zenon DEF Sent
  <2>4. /\ link'.done = Sent(a).done /\ link'.meant = Meant(a) /\ link'.page = Sent(a).page
    BY <2>2
  <2> QED BY <2>3, <2>4, Zenon DEF Linked
<1>5. CASE Sleep BY <1>1, <1>5, Zenon DEF Sleep
<1>6. CASE HardReset
  <2>1. link' = [link EXCEPT !.page = 0] BY <1>6, Zenon DEF HardReset
  <2>2. 0 \in 0..255 BY SMT
  <2> QED BY <2>1, <2>2, LinkedPage, Zenon
<1>7. CASE Config
  <2>1. PICK p : p = Receives(link.page, Frame(ConfigWrite)).page OBVIOUS
  <2>2. link' = [link EXCEPT !.page = p] BY <1>7, <2>1, ConfigMoves, Zenon
  <2>3. p \in 0..255 BY <1>0, <2>1, ConfigIsProper, FrameIsExact, Zenon
  <2> QED BY <2>2, <2>3, LinkedPage, Zenon
<1>8. CASE SendBlock
  <2>1. PICK p \in {link.page, 255} : link' = [link EXCEPT !.page = p]
    BY <1>8, SendBlockMoves
  <2>2. p \in 0..255 BY <1>0, <2>1
  <2> QED BY <2>1, <2>2, LinkedPage, Zenon
<1>9. CASE Count \/ CheckMode \/ Reset \/ WriteParam \/ Issue \/ GiveUp \/ Awaited
           \/ CheckResult
  BY <1>1, <1>9, CountMoves, CheckModeMoves, ResetMoves, WriteParamMoves, IssueMoves,
     GiveUpMoves, AwaitedMoves, CheckResultMoves, Zenon
<1>10. CASE Execute BY <1>1, <1>10, Zenon DEF Execute
<1>11. ASSUME NEW o \in Others, OtherInit(o) \/ OtherOpen(o) \/ OtherClose(o) \/ OtherTerm(o)
       PROVE Linked'
  BY <1>1, <1>11, Zenon DEF OtherInit, OtherOpen, OtherClose, OtherTerm
<1>12. CASE UNCHANGED vars BY <1>1, <1>12, Zenon DEF vars
<1> QED
  BY <1>2, <1>3, <1>4, <1>5, <1>6, <1>7, <1>8, <1>9, <1>10, <1>11, <1>12, Zenon
  DEF Next, Command

\* Nothing has been accessed at first.
LEMMA LinkedInitially == Init => Linked
BY DEF Init, Linked

\* The driver reads the result of the command that it executes, a command meets its
\* own parameter, and a proper access reaches the registers that its caller means,
\* whatever is given up on, executed late, or left selected before it.
THEOREM UnderstoodAsMeantHolds ==
  ASSUME "improper" \notin Env
  PROVE  Spec => []UnderstoodAsMeant
<1>1. Init => Shaped /\ Boxed /\ Linked
  BY ShapedInitially, BoxedInitially, LinkedInitially
<1>2. (Shaped /\ Boxed /\ Linked) /\ [Next]_vars => (Shaped /\ Boxed /\ Linked)'
  BY ShapedStep, BoxedStep, LinkedStep
<1>3. Boxed /\ Linked => UnderstoodAsMeant
  BY BoxedIsMeant, Zenon DEF UnderstoodAsMeant, AccessIsExact, Linked
<1> QED BY <1>1, <1>2, <1>3, PTL DEF Spec

---------------------------------------------------------------------------
(* The firmware.                                                           *)

\* The firmware in the RAM of the chip c while the command cmd is at a step of it,
\* the driver having sent i blocks: it is a whole image or none, except while an
\* image is being sent, which then has the blocks sent so far, or had them all, and
\* nothing runs from the first block on.
BuiltAs(at, cmd, i, c) ==
  /\ cmd # "LOAD_FWR_FROM_HOST" => c.ram \in {{}, Image}
  /\ cmd = "LOAD_FWR_FROM_HOST" =>
       /\ at \in {"mode", "reset", "send"} /\ i \in 0..(Chunks - 1)
       /\ c.ram = Image \/ c.ram = 1..i
       /\ (i > 0 \/ at = "send" => ~c.app)
       /\ at = "reset" => i = 0
  /\ at = "send" => cmd = "LOAD_FWR_FROM_HOST"
  /\ at = "count" => i = 0 /\ cmd = None
  /\ c.app => c.ram = Image

Built == BuiltAs(cpu.at, cpu.cmd, cpu.i, chip)

\* So what runs is whole.
LEMMA BuiltIsMeant == Built => FirmwareIsWhole
BY Zenon DEF Built, BuiltAs, FirmwareIsWhole

\* The invariant depends on the fields of the function alone.
LEMMA BuiltWith ==
  ASSUME NEW k, NEW at, NEW cmd, NEW now, NEW i, Is(k, at, cmd, now, i), NEW c,
         BuiltAs(at, cmd, i, c)
  PROVE  BuiltAs(k.at, k.cmd, k.i, c)
BY Zenon DEF Is

\* The steps of the commands that send no block do not touch the firmware.
LEMMA BuiltOther ==
  ASSUME NEW at, NEW cmd, NEW i, NEW c, BuiltAs(at, cmd, i, c), cmd # "LOAD_FWR_FROM_HOST",
         NEW at2, at2 \notin {"send", "count"}, NEW cmd2, cmd2 # "LOAD_FWR_FROM_HOST", NEW i2
  PROVE  BuiltAs(at2, cmd2, i2, c)
BY Zenon DEF BuiltAs

\* Where a function ends while it sends an image, no block of it was sent.
LEMMA BuiltIdle ==
  ASSUME NEW at, NEW cmd, NEW i, NEW c, BuiltAs(at, cmd, i, c),
         cmd = "LOAD_FWR_FROM_HOST" => i = 0
  PROVE  BuiltAs("idle", None, 0, c)
<1>1. c.ram \in {{}, Image}
  <2>1. CASE cmd = "LOAD_FWR_FROM_HOST"
    <3>1. c.ram = Image \/ c.ram = 1..0 BY <2>1, Zenon DEF BuiltAs
    <3>2. 1..0 = {} BY SMT
    <3> QED BY <3>1, <3>2
  <2>2. CASE cmd # "LOAD_FWR_FROM_HOST" BY <2>2, Zenon DEF BuiltAs
  <2> QED BY <2>1, <2>2
<1>2. c.app => c.ram = Image BY Zenon DEF BuiltAs
<1>3. None # "LOAD_FWR_FROM_HOST" BY DEF None
<1> QED BY <1>1, <1>2, <1>3, Zenon DEF BuiltAs

\* A block is sent while nothing runs, and is the next of its image.
LEMMA BuiltSent ==
  ASSUME Shaped, Built, SendBlock
  PROVE  Built'
<1>1. cpu.at = "send" /\ SucceedsTo(cpu') BY SendBlockMoves
<1>2. PICK i : i = cpu.i OBVIOUS
<1>3. /\ cpu.cmd = "LOAD_FWR_FROM_HOST" /\ i \in 0..(Chunks - 1)
      /\ chip.ram = Image \/ chip.ram = 1..i
      /\ ~chip.app
  BY <1>1, <1>2, Zenon DEF Built, BuiltAs
<1>4. ChipShaped(chip) BY DEF Shaped, ChipShaped
<1>5. chip'.ram = chip.ram \cup {i + 1} /\ ~chip'.app
  BY <1>2, <1>3, <1>4, ChipSent, Zenon
<1>6. chip'.ram = Image \/ chip'.ram = 1..(i + 1)
  <2>1. i \in Nat /\ i + 1 \in 1..Chunks BY <1>3, AudioAssumption, SMT
  <2>2. (1..Chunks) \cup {i + 1} = 1..Chunks BY <2>1, SMT
  <2>3. (1..i) \cup {i + 1} = 1..(i + 1) BY <2>1, SMT
  <2> QED BY <1>3, <1>5, <2>2, <2>3 DEF Image
<1>7. CASE Is(cpu', "mode", cpu.cmd, cpu.now, i + 1) /\ i + 1 < Chunks
  <2>1. i + 1 \in 0..(Chunks - 1) BY <1>3, <1>7, AudioAssumption, SMT
  <2>2. BuiltAs("mode", cpu.cmd, i + 1, chip') BY <1>3, <1>5, <1>6, <2>1, Zenon DEF BuiltAs
  <2> QED BY <1>7, <2>2, BuiltWith, Zenon DEF Built
<1>8. CASE Is(cpu', "acquire", "LOAD_FWR_COMPLETE", "HOST_LOAD_CMP", i) /\ ~(i + 1 < Chunks)
  <2>1. i + 1 = Chunks BY <1>3, <1>8, AudioAssumption, SMT
  <2>2. chip'.ram = Image BY <1>6, <2>1 DEF Image
  <2>3. BuiltAs("acquire", "LOAD_FWR_COMPLETE", i, chip') BY <2>2 DEF BuiltAs
  <2> QED BY <1>8, <2>3, BuiltWith, Zenon DEF Built
<1>9. /\ cpu.cmd # "LOAD_FWR_COMPLETE" /\ cpu.cmd # "LOAD_FWRCFG_FROM_FLASH" BY <1>3
<1> QED BY <1>1, <1>2, <1>3, <1>7, <1>8, <1>9, Zenon DEF SucceedsTo

\* Every step of a command keeps the firmware built as it should be.
LEMMA BuiltCommand ==
  ASSUME Shaped, Built, Count \/ Config \/ Command
  PROVE  Built'
<1>0. ChipShaped(chip) BY DEF Shaped, ChipShaped
<1>1. BuiltAs(cpu.at, cpu.cmd, cpu.i, chip) BY DEF Built
<1>2. cpu.at \notin {"mode", "reset", "send"} => cpu.cmd # "LOAD_FWR_FROM_HOST"
  BY <1>1 DEF BuiltAs
<1>3. /\ Ends /\ UNCHANGED chip /\ (cpu.cmd = "LOAD_FWR_FROM_HOST" => cpu.i = 0) => Built'
  BY <1>1, BuiltIdle, BuiltWith, Zenon DEF Ends, Built
<1>4. ASSUME NEW x, Stays(x), UNCHANGED chip, cpu.cmd # "LOAD_FWR_FROM_HOST",
             x \notin {"send", "count"}
      PROVE  Built'
  <2>1. BuiltAs(x, cpu.cmd, cpu.i, chip) BY <1>1, <1>4, BuiltOther
  <2>2. BuiltAs(cpu'.at, cpu'.cmd, cpu'.i, chip) BY <1>4, <2>1, BuiltWith, Zenon DEF Stays
  <2> QED BY <1>4, <2>2, Zenon DEF Built
<1>5. ASSUME SucceedsTo(cpu'), UNCHANGED chip, cpu.cmd # "LOAD_FWR_FROM_HOST" PROVE Built'
  <2>1. \E at \in {"idle", "config", "mode"} : \E cmd, now, i :
          cmd # "LOAD_FWR_FROM_HOST" /\ Is(cpu', at, cmd, now, i)
    BY <1>5 DEF SucceedsTo, None
  <2>2. PICK at \in {"idle", "config", "mode"} : \E cmd, now, i :
          cmd # "LOAD_FWR_FROM_HOST" /\ Is(cpu', at, cmd, now, i)
    BY <2>1
  <2>3. PICK cmd, now, i : cmd # "LOAD_FWR_FROM_HOST" /\ Is(cpu', at, cmd, now, i) BY <2>2
  <2>4. at \notin {"send", "count"} OBVIOUS
  <2> QED BY <1>1, <1>5, <2>3, <2>4, BuiltOther, BuiltWith, Zenon DEF Built
<1>6. CASE Count
  <2>1. cpu.at = "count" /\ UNCHANGED chip BY <1>6, CountMoves
  <2>2. cpu.i = 0 /\ cpu.cmd = None BY <1>1, <2>1, Zenon DEF BuiltAs
  <2>3. BuiltAs("mode", "LOAD_FWR_FROM_HOST", 0, chip)
    <3>1. 0 \in 0..(Chunks - 1) /\ 1..0 = {} BY AudioAssumption, SMT
    <3>2. chip.ram \in {{}, Image} /\ (chip.app => chip.ram = Image)
      BY <1>1, <2>2 DEF BuiltAs, None
    <3>3. chip.ram = Image \/ chip.ram = 1..0 BY <3>1, <3>2
    <3>4. ~(0 > 0) BY SMT
    <3> QED BY <3>1, <3>2, <3>3, <3>4, Zenon DEF BuiltAs
  <2>4. cpu.cmd # "LOAD_FWR_FROM_HOST" BY <2>2 DEF None
  <2> QED BY <1>3, <1>6, <2>1, <2>2, <2>3, <2>4, CountMoves, BuiltWith, Zenon DEF Built
<1>7. CASE Config BY <1>2, <1>3, <1>7, ConfigMoves
<1>8. CASE CheckMode
  <2>1. cpu.at = "mode" /\ UNCHANGED chip BY <1>8, CheckModeMoves
  <2>2. CASE cpu.cmd = "LOAD_FWR_FROM_HOST"
    <3>1. PICK i : i = cpu.i OBVIOUS
    <3>2. /\ i \in 0..(Chunks - 1) /\ (chip.ram = Image \/ chip.ram = 1..i)
          /\ (i > 0 => ~chip.app) /\ (chip.app => chip.ram = Image)
      BY <1>1, <2>2, <3>1, Zenon DEF BuiltAs
    <3>3. chip.app => i = 0
      <4>1. ~(i > 0) => i = 0 BY <3>2, SMT
      <4> QED BY <3>2, <4>1, Zenon
    <3>4. ~chip.app => BuiltAs("send", cpu.cmd, i, chip)
      BY <2>2, <3>2, Zenon DEF BuiltAs
    <3>5. chip.app => BuiltAs("reset", cpu.cmd, i, chip)
      BY <2>2, <3>2, <3>3, Zenon DEF BuiltAs
    <3>6. cpu.cmd # "START_FWR" BY <2>2
    <3> QED
      BY <1>8, <2>1, <2>2, <3>1, <3>4, <3>5, <3>6, CheckModeMoves, BuiltWith, Zenon
      DEF InBoot, Stays, Built
  <2>3. CASE cpu.cmd # "LOAD_FWR_FROM_HOST"
    <3>1. "acquire" \notin {"send", "count"} /\ "reset" \notin {"send", "count"} OBVIOUS
    <3> QED BY <1>3, <1>4, <1>8, <2>1, <2>3, <3>1, CheckModeMoves, Zenon DEF InBoot
  <2> QED BY <2>2, <2>3
<1>9. CASE Reset
  <2>1. cpu.at = "reset" BY <1>9, ResetMoves
  <2>2. cpu.cmd = "LOAD_FWR_FROM_HOST" => cpu.i = 0 BY <1>1, <2>1, Zenon DEF BuiltAs
  <2>3. CASE InBoot /\ ~chip'.app /\ chip'.ram = chip.ram
    <3>1. CASE cpu.cmd = "LOAD_FWR_FROM_HOST"
      <4>1. BuiltAs("send", cpu.cmd, cpu.i, chip') BY <1>1, <2>3, <3>1, Zenon DEF BuiltAs
      <4> QED BY <2>3, <3>1, <4>1, BuiltWith, Zenon DEF InBoot, Stays, Built
    <3>2. CASE cpu.cmd # "LOAD_FWR_FROM_HOST"
      <4>1. "acquire" # "send" /\ "acquire" # "count" OBVIOUS
      <4>2. BuiltAs("acquire", cpu.cmd, cpu.i, chip')
        BY <1>1, <2>3, <3>2, <4>1, Zenon DEF BuiltAs
      <4> QED BY <2>3, <3>2, <4>2, BuiltWith, Zenon DEF InBoot, Stays, Built
    <3> QED BY <3>1, <3>2
  <2> QED BY <1>3, <1>9, <2>2, <2>3, ResetMoves, Zenon
<1>10. CASE SendBlock BY <1>10, BuiltSent
<1>11. CASE WriteParam
  <2>1. /\ cpu.at = "param" /\ chip'.app = chip.app /\ chip'.ram = chip.ram /\ Stays("acquire")
    BY <1>0, <1>11, WriteParamMoves, ChipParam, Zenon
  <2>2. BuiltAs("acquire", cpu.cmd, cpu.i, chip)
    BY <1>1, <1>2, <2>1, BuiltOther
  <2>3. BuiltAs("acquire", cpu.cmd, cpu.i, chip') BY <2>1, <2>2, Zenon DEF BuiltAs
  <2> QED BY <2>1, <2>3, BuiltWith, Zenon DEF Stays, Built
<1>12. CASE Issue
  <2> DEFINE at == IF cpu.cmd = "SLEEP" THEN "result" ELSE "await"
  <2>1. /\ cpu.at = "acquire" /\ chip'.app = chip.app /\ chip'.ram = chip.ram /\ Stays(at)
    BY <1>0, <1>12, IssueMoves, ChipIssued, Zenon
  <2>2. at \notin {"send", "count"} OBVIOUS
  <2> HIDE DEF at
  <2>3. BuiltAs(at, cpu.cmd, cpu.i, chip) BY <1>1, <1>2, <2>1, <2>2, BuiltOther
  <2>4. BuiltAs(at, cpu.cmd, cpu.i, chip') BY <2>1, <2>3, Zenon DEF BuiltAs
  <2> QED BY <2>1, <2>4, BuiltWith, Zenon DEF Stays, Built
<1>13. CASE GiveUp BY <1>2, <1>3, <1>13, GiveUpMoves
<1>14. CASE Awaited BY <1>2, <1>4, <1>14, AwaitedMoves
<1>15. CASE CheckResult
  <2>1. cpu.at = "result" /\ UNCHANGED chip BY <1>15, CheckResultMoves
  <2>2. cpu.cmd # "LOAD_FWR_FROM_HOST" BY <1>2, <2>1
  <2>3. FlashIsReady => Built'
    <3> DEFINE at == IF HostCmd[cpu.cmd] \in DOMAIN Param THEN "param" ELSE "acquire"
    <3>1. at \notin {"send", "count"} OBVIOUS
    <3> HIDE DEF at
    <3>2. BuiltAs(at, cpu.cmd, cpu.i, chip) BY <1>1, <2>2, <3>1, BuiltOther
    <3> QED BY <2>1, <3>2, BuiltWith, Zenon DEF FlashIsReady, Built, at
  <2> QED BY <1>3, <1>5, <1>15, <2>1, <2>2, <2>3, CheckResultMoves, Zenon
<1> QED
  BY <1>6, <1>7, <1>8, <1>9, <1>10, <1>11, <1>12, <1>13, <1>14, <1>15, Zenon DEF Command

\* The chip starts with the first image of its flash, if there is one.
LEMMA PoweredIsWhole ==
  ASSUME NEW n
  PROVE  /\ PoweredOn(n).ram \in {{}, Image}
         /\ PoweredOn(n).app => PoweredOn(n).ram = Image
BY DEF PoweredOn

\* Unless a command ends late, the chip executes none while an image is sent: what
\* it starts, or loads from its flash, is whole.
LEMMA BuiltExecute ==
  ASSUME "overlap" \notin Env, Shaped, Built, Execute
  PROVE  Built'
<1>0. ChipShaped(chip) BY DEF Shaped, ChipShaped
<1>1. BuiltAs(cpu.at, cpu.cmd, cpu.i, chip) BY DEF Built
<1>2. UNCHANGED cpu /\ (cpu.at \in {"await", "acquire", "idle"} \/ cpu.cmd = "SLEEP")
  BY Zenon DEF Execute
<1>3. cpu.cmd # "LOAD_FWR_FROM_HOST" BY <1>1, <1>2 DEF BuiltAs
<1>4. chip.ram \in {{}, Image} /\ (chip.app => chip.ram = Image)
  BY <1>1, <1>3, Zenon DEF BuiltAs
<1>5. chip'.ram \in {{}, Image} /\ (chip'.app => chip'.ram = Image)
  <2>1. CASE chip'.app = chip.app /\ chip'.ram = chip.ram BY <1>4, <2>1, Zenon
  <2>2. CASE chip.ram # {} /\ chip'.ram = chip.ram BY <1>4, <2>2
  <2>3. CASE chip'.ram = Image BY <2>3
  <2> QED BY <1>0, <2>1, <2>2, <2>3, ChipExecuted, Zenon
<1>6. BuiltAs(cpu.at, cpu.cmd, cpu.i, chip') BY <1>1, <1>3, <1>5, Zenon DEF BuiltAs
<1> QED BY <1>2, <1>6, Zenon DEF Built

\* Every step does.
LEMMA BuiltStep ==
  ASSUME "overlap" \notin Env, Shaped, Built, [Next]_vars
  PROVE  Built'
<1>1. BuiltAs(cpu.at, cpu.cmd, cpu.i, chip) BY DEF Built
<1>2. UNCHANGED <<cpu, chip>> => Built' BY <1>1, Zenon DEF Built
<1>3. cpu = Idle => cpu.at = "idle" /\ cpu.cmd = None /\ cpu.i = 0 BY DEF Idle
<1>4. ASSUME cpu = Idle, UNCHANGED chip, NEW at, at \notin {"send", "count"}, NEW cmd,
             cmd # "LOAD_FWR_FROM_HOST", NEW now, NEW i, Is(cpu', at, cmd, now, i)
      PROVE  Built'
  <2>1. cpu.cmd # "LOAD_FWR_FROM_HOST" BY <1>3, <1>4 DEF None
  <2>2. BuiltAs(at, cmd, i, chip) BY <1>1, <1>4, <2>1, BuiltOther, Zenon
  <2> QED BY <1>4, <2>2, BuiltWith, Zenon DEF Built
<1>5. None # "LOAD_FWR_FROM_HOST" BY DEF None
<1>6. ASSUME NEW fn \in Functions, Call(fn) PROVE Built'
  <2>1. cpu = Idle /\ UNCHANGED chip BY <1>6, CallStarts, Zenon
  <2>2. CASE Is(cpu', "count", None, None, 0)
    <3>1. chip.ram \in {{}, Image} /\ (chip.app => chip.ram = Image)
      BY <1>1, <1>3, <1>5, <2>1, Zenon DEF BuiltAs
    <3>2. "count" # "send" OBVIOUS
    <3>3. BuiltAs("count", None, 0, chip) BY <1>5, <3>1, <3>2, Zenon DEF BuiltAs
    <3> QED BY <2>1, <2>2, <3>3, BuiltWith, Zenon DEF Built
  <2>3. CASE Is(cpu', "idle", None, None, 0) BY <1>4, <1>5, <2>1, <2>3
  <2>4. CASE \E cmd \in OverFlash : Is(cpu', "mode", cmd, "HOST_FLASH_INIT", 0)
    <3>1. PICK cmd \in OverFlash : Is(cpu', "mode", cmd, "HOST_FLASH_INIT", 0) BY <2>4
    <3>2. cmd # "LOAD_FWR_FROM_HOST" BY Names
    <3>3. "mode" \notin {"send", "count"} OBVIOUS
    <3> QED BY <1>4, <2>1, <3>1, <3>2, <3>3, Zenon
  <2>5. CASE Is(cpu', "mode", "START_FWR", "FWR_GO", 0) BY <1>4, <2>1, <2>5
  <2> QED BY <1>2, <1>6, <2>1, <2>2, <2>3, <2>4, <2>5, CallMoves, Zenon
<1>7. ASSUME NEW cmd \in Direct, CallDirect(cmd) PROVE Built'
  <2>1. cpu = Idle /\ UNCHANGED chip BY <1>7, Zenon DEF CallDirect
  <2>2. cmd # "LOAD_FWR_FROM_HOST" BY DEF Direct
  <2>3. "mode" \notin {"send", "count"} OBVIOUS
  <2> QED BY <1>2, <1>4, <1>7, <2>1, <2>2, <2>3, DirectMoves, Zenon
<1>8. ASSUME NEW a \in Accesses, Access(a) PROVE Built' BY <1>2, <1>8, Zenon DEF Access
<1>9. CASE Sleep
  <2>1. Is(cpu', "acquire", "SLEEP", "APP_SLEEP", 0) BY <1>9 DEF Sleep, Is
  <2>2. cpu = Idle /\ UNCHANGED chip BY <1>9, Zenon DEF Sleep, HasDevice
  <2> QED BY <1>4, <2>1, <2>2
<1>10. CASE HardReset
  <2>1. cpu = Idle /\ UNCHANGED cpu /\ chip' = PoweredOn(chip.images)
    BY <1>10, Zenon DEF HardReset, HasDevice
  <2>2. chip'.ram \in {{}, Image} /\ (chip'.app => chip'.ram = Image)
    BY <2>1, PoweredIsWhole, Zenon
  <2>3. "idle" # "send" /\ "idle" # "count" OBVIOUS
  <2>4. BuiltAs("idle", None, 0, chip') BY <1>5, <2>2, <2>3, Zenon DEF BuiltAs
  <2> QED BY <1>3, <2>1, <2>4, Zenon DEF Built
<1>11. CASE Count \/ Config \/ Command BY <1>11, BuiltCommand
<1>12. CASE Execute BY <1>12, BuiltExecute
<1>13. ASSUME NEW o \in Others, OtherInit(o) \/ OtherOpen(o) \/ OtherClose(o) \/ OtherTerm(o)
       PROVE Built'
  BY <1>2, <1>13, Zenon DEF OtherInit, OtherOpen, OtherClose, OtherTerm
<1>14. CASE UNCHANGED vars BY <1>2, <1>14, Zenon DEF vars
<1> QED
  BY <1>6, <1>7, <1>8, <1>9, <1>10, <1>11, <1>12, <1>13, <1>14, Zenon DEF Next

\* A chip that starts has a whole image or none.
LEMMA BuiltInitially == Init => Built
<1> SUFFICES ASSUME Init PROVE Built OBVIOUS
<1>1. cpu.at = "idle" /\ cpu.cmd = None /\ cpu.i = 0 BY DEF Init, Idle
<1>2. chip.ram \in {{}, Image} /\ (chip.app => chip.ram = Image)
  BY PoweredIsWhole, Zenon DEF Init
<1>3. BuiltAs("idle", None, 0, chip) BY <1>2 DEF BuiltAs, None
<1> QED BY <1>1, <1>3, Zenon DEF Built

\* The firmware that runs is a whole image, when no command that was given up on
\* ends while the next image is being sent.
THEOREM FirmwareIsWholeHolds ==
  ASSUME "overlap" \notin Env
  PROVE  Spec => []FirmwareIsWhole
<1>1. Init => Shaped /\ Built BY ShapedInitially, BuiltInitially
<1>2. (Shaped /\ Built) /\ [Next]_vars => (Shaped /\ Built)' BY ShapedStep, BuiltStep
<1>3. Built => FirmwareIsWhole BY BuiltIsMeant
<1> QED BY <1>1, <1>2, <1>3, PTL DEF Spec

============================================================================
