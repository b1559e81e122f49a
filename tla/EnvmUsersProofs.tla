--------------------------- MODULE EnvmUsersProofs ---------------------------
(***************************************************************************)
(* The COMM_BLK driver, the services over it, and the eNVM driver and the    *)
(* services in one program, for every set of commands, of services, of       *)
(* requests and of calls, all depths of the FIFOs, every protection, device  *)
(* and environment.                                                         *)
(*                                                                          *)
(* Part 1, Comblk: its types, for every behaviour of the controller and of   *)
(* the clients, and its safety properties, from the inductive invariant of   *)
(* ComblkInv, for those in which answers can be told apart.                  *)
(*                                                                          *)
(* Part 2, the services: each call gets its own answer, as ServiceCall       *)
(* promises, and the chip is left as it was.  First the messages of          *)
(* Flash*Freeze and what the steps of Comblk leave alone; then one lemma for *)
(* each action of the services.                                              *)
(*                                                                          *)
(* Part 3, the eNVM driver beside them: what a write has programmed, what    *)
(* each command to a controller may touch, and the setting of ENVM_CR.       *)
(* First the arithmetic of pages, areas and buffers; then one lemma per      *)
(* action shows that the invariant of EnvmUsersInv is kept.                  *)
(***************************************************************************)
EXTENDS EnvmUsersInv, TLAPS

---------------------------------------------------------------------------
(* Part 1: the COMM_BLK driver.                                             *)

USE ComblkAssumption
USE DEF Cur, Busy, Sending, Begun

---------------------------------------------------------------------------
(* Sequences of words.                                                     *)

LEMMA TailOf ==
  ASSUME NEW S, NEW q \in Seq(S), q # <<>>
  PROVE  /\ Tail(q) \in Seq(S) /\ Head(q) \in S /\ Head(q) = q[1]
         /\ Len(q) \in Nat \ {0} /\ Len(Tail(q)) = Len(q) - 1
         /\ DOMAIN q = 1 .. Len(q) /\ DOMAIN Tail(q) = 1 .. Len(q) - 1
         /\ \A i \in 1 .. Len(q) - 1 : Tail(q)[i] = q[i + 1]
OBVIOUS

LEMMA AppendOf ==
  ASSUME NEW S, NEW q \in Seq(S), NEW w \in S
  PROVE  /\ Append(q, w) \in Seq(S) /\ Len(q) \in Nat /\ Len(Append(q, w)) = Len(q) + 1
         /\ DOMAIN q = 1 .. Len(q) /\ DOMAIN Append(q, w) = 1 .. Len(q) + 1
         /\ \A i \in 1 .. Len(q) : Append(q, w)[i] = q[i]
         /\ Append(q, w)[Len(q) + 1] = w
OBVIOUS

LEMMA NumberOf ==
  ASSUME NEW q \in Seq(RxWords), NEW i \in 1 .. Len(q)
  PROVE  q[i] \in RxWords /\ q[i].n \in Nat
<1>1. q[i] \in RxWords OBVIOUS
<1> QED BY <1>1 DEF RxWords

\* What follows a word, when the first word is taken out.
LEMMA FollowsTail ==
  ASSUME NEW q \in Seq(RxWords), q # <<>>, NEW k \in Nat, NEW n \in Nat,
         NEW j \in 2 .. Len(q) + 1, Follows(n, q, j, k)
  PROVE  /\ ~Cur(q[1]) => Follows(n, Tail(q), j - 1, k)
         /\ Cur(q[1]) /\ q[1].n > k => Follows(n, Tail(q), j - 1, q[1].n)
<1> DEFINE t == Tail(q)
<1>1. \A i \in 1 .. Len(q) : q[i].n \in Nat BY NumberOf
<1>2. \A h \in 1 .. j - 2 : t[h] = q[h + 1] /\ h + 1 \in 1 .. j - 1
  BY TailOf
<1>3. ASSUME NEW h \in 2 .. j - 1 PROVE q[h] = t[h - 1] /\ h - 1 \in 1 .. j - 2
  BY TailOf
<1>4. 1 \in 1 .. j - 1 /\ (j - 1) - 1 = j - 2 OBVIOUS
<1> HIDE DEF t
<1>5. CASE ~Cur(q[1])
  <2>1. k < n /\ \A h \in 1 .. j - 2 : Cur(t[h]) => t[h].n < n BY <1>2 DEF Follows
  <2>2. CASE k = 0 /\ \A h \in 1 .. j - 1 : ~Cur(q[h])
    BY <2>1, <2>2, <1>2, <1>4 DEF Follows, t
  <2>3. CASE k > 0 /\ n = k + 1
    <3>1. k < n /\ (\A h \in 1 .. (j - 1) - 1 : Cur(t[h]) => t[h].n < n) /\ k > 0 /\ n = k + 1
      BY <2>1, <2>3, <1>4
    <3>2. Follows(n, t, j - 1, k) BY ONLY <3>1 DEF Follows
    <3> QED BY <3>2, <1>5 DEF t
  <2>4. CASE \E h \in 1 .. j - 1 : Cur(q[h]) /\ q[h].n + 1 = n
    <3>1. PICK h \in 2 .. j - 1 : Cur(q[h]) /\ q[h].n + 1 = n BY <2>4, <1>5
    <3> QED BY <2>1, <3>1, <1>3, <1>4 DEF Follows, t
  <2> QED BY <2>2, <2>3, <2>4, <1>5 DEF Follows
<1>6. CASE Cur(q[1]) /\ q[1].n > k
  <2>1. q[1].n < n /\ \A h \in 1 .. j - 2 : Cur(t[h]) => t[h].n < n
    BY <1>2, <1>4, <1>6 DEF Follows
  <2>2. PICK h \in 1 .. j - 1 : Cur(q[h]) /\ q[h].n + 1 = n
    BY <1>1, <1>4, <1>6, <2>1 DEF Follows
  <2>3. CASE h = 1 BY <2>1, <2>2, <2>3, <1>1, <1>4, <1>6 DEF Follows, t
  <2>4. CASE h # 1
    <3>1. Cur(t[h - 1]) /\ t[h - 1].n + 1 = n /\ h - 1 \in 1 .. j - 2
      BY <2>2, <2>4, <1>3
    <3> QED BY <2>1, <3>1, <1>4 DEF Follows, t
  <2> QED BY <2>3, <2>4
<1> QED BY <1>5, <1>6

LEMMA OrderedTail ==
  ASSUME NEW q \in Seq(RxWords), NEW out \in Seq(RxWords), NEW k \in Nat,
         q # <<>>, Ordered(q, out, k)
  PROVE  /\ ~Cur(Head(q)) => Ordered(Tail(q), out, k)
         /\ Cur(Head(q)) => Head(q).n > k /\ Ordered(Tail(q), out, Head(q).n)
<1> DEFINE l == IF Cur(q[1]) THEN q[1].n ELSE k
<1>1. /\ \A i \in 1 .. Len(q) : q[i].n \in Nat
      /\ out # <<>> => out[1].n \in Nat
  <2>1. out # <<>> => 1 \in 1 .. Len(out) OBVIOUS
  <2> QED BY <2>1, NumberOf
<1>2. Cur(q[1]) => q[1].n > k BY TailOf DEF Ordered, Follows
<1>3. ASSUME NEW j \in 2 .. Len(q), Cur(q[j]) PROVE Follows(q[j].n, Tail(q), j - 1, l)
  <2>1. Follows(q[j].n, q, j, k) BY <1>3, TailOf DEF Ordered
  <2> QED BY <2>1, <1>1, <1>2, FollowsTail
<1>4. ASSUME out # <<>>, Cur(out[1]) PROVE Follows(out[1].n, Tail(q), Len(q), l)
  <2>1. Follows(out[1].n, q, Len(q) + 1, k) BY <1>4 DEF Ordered
  <2>2. Len(q) + 1 \in 2 .. Len(q) + 1 /\ (Len(q) + 1) - 1 = Len(q) BY TailOf
  <2> QED BY <2>1, <2>2, <1>1, <1>2, <1>4, FollowsTail
<1> HIDE DEF l
<1>5. ASSUME NEW j \in DOMAIN Tail(q), Cur(Tail(q)[j])
      PROVE  Follows(Tail(q)[j].n, Tail(q), j, l)
  <2>1. j + 1 \in 2 .. Len(q) /\ Tail(q)[j] = q[j + 1] /\ (j + 1) - 1 = j BY TailOf
  <2> QED BY <1>5, <2>1, <1>3
<1>6. Len(Tail(q)) + 1 = Len(q) /\ Head(q) = q[1] BY TailOf
<1>7. Ordered(Tail(q), out, l) BY <1>4, <1>5, <1>6 DEF Ordered
<1> QED BY <1>2, <1>6, <1>7 DEF l

\* What has been received may be forgotten.
LEMMA OrderedForget ==
  ASSUME NEW q \in Seq(RxWords), NEW out \in Seq(RxWords), NEW k \in Nat,
         Ordered(q, out, k)
  PROVE  Ordered(q, out, 0)
<1>1. /\ \A i \in 1 .. Len(q) : q[i].n \in Nat
      /\ out # <<>> => out[1].n \in Nat
  <2>1. out # <<>> => 1 \in 1 .. Len(out) OBVIOUS
  <2> QED BY <2>1, NumberOf
<1>2. ASSUME NEW j \in 1 .. Len(q) + 1, NEW n \in Nat, Follows(n, q, j, k)
      PROVE  Follows(n, q, j, 0)
  <2>1. \A h \in 1 .. j - 1 : Cur(q[h]) => q[h].n < n /\ q[h].n > k
    <3> TAKE h \in 1 .. j - 1
    <3>1. h \in DOMAIN q OBVIOUS
    <3> QED BY <3>1, <1>2 DEF Ordered, Follows
  <2>2. k < n BY <1>2 DEF Follows
  <2>3. \/ \A h \in 1 .. j - 1 : ~Cur(q[h])
        \/ \E h \in 1 .. j - 1 : Cur(q[h]) /\ q[h].n + 1 = n
    <3>1. CASE n = k + 1
      <4>1. ASSUME NEW h \in 1 .. j - 1 PROVE ~Cur(q[h])
        <5>1. h \in 1 .. Len(q) OBVIOUS
        <5> QED BY <2>1, <3>1, <1>1, <5>1
      <4> QED BY <4>1
    <3> QED BY <3>1, <1>2 DEF Follows
  <2> QED BY <2>1, <2>2, <2>3 DEF Follows
<1> QED BY SMTT(30), <1>1, <1>2 DEF Ordered

\* A word of the answer leaves the controller for the receive FIFO.
LEMMA OrderedEmit ==
  ASSUME NEW q \in Seq(RxWords), NEW out \in Seq(RxWords), NEW k \in Nat,
         out # <<>>, Ordered(q, out, k),
         \A i \in DOMAIN out : Cur(out[i]) => Cur(out[1]) /\ out[i].n = out[1].n + i - 1
  PROVE  Ordered(Append(q, Head(out)), Tail(out), k)
<1> DEFINE a == Append(q, Head(out))
<1>1. /\ Head(out) = out[1] /\ Head(out) \in RxWords /\ out[1].n \in Nat
      /\ Len(q) \in Nat
  <2>1. Head(out) \in RxWords /\ Head(out) = out[1] BY TailOf
  <2> QED BY <2>1 DEF RxWords
<1>2. /\ a \in Seq(RxWords) /\ DOMAIN a = 1 .. Len(q) + 1 /\ Len(a) = Len(q) + 1
      /\ \A i \in 1 .. Len(q) : a[i] = q[i]
      /\ a[Len(q) + 1] = out[1] /\ DOMAIN q = 1 .. Len(q)
  BY AppendOf, <1>1
<1> HIDE DEF a
<1>3. ASSUME NEW j \in 1 .. Len(q) + 1, NEW n, Follows(n, q, j, k) PROVE Follows(n, a, j, k)
  <2>1. \A h \in 1 .. j - 1 : a[h] = q[h] BY <1>1, <1>2
  <2> QED BY <2>1, <1>3 DEF Follows
<1>4. ASSUME NEW j \in DOMAIN a, Cur(a[j]) PROVE Follows(a[j].n, a, j, k)
  <2>1. CASE j \in 1 .. Len(q)
    BY <2>1, <1>1, <1>2, <1>3, <1>4 DEF Ordered
  <2>2. CASE j = Len(q) + 1
    BY <2>2, <1>1, <1>2, <1>3, <1>4 DEF Ordered
  <2> QED BY <2>1, <2>2, <1>1, <1>2
<1>5. ASSUME Tail(out) # <<>>, Cur(Tail(out)[1]) PROVE Follows(Tail(out)[1].n, a, Len(a) + 1, k)
  <2>1. 1 \in 1 .. Len(out) - 1 /\ Tail(out)[1] = out[2] /\ 2 \in DOMAIN out
    BY <1>5, TailOf
  <2>2. Cur(out[1]) /\ out[2].n = out[1].n + 1
    BY <2>1, <1>5
  <2>3. Follows(out[1].n, a, Len(q) + 1, k) BY <2>2, <1>1, <1>3 DEF Ordered
  <2>4. \A h \in 1 .. (Len(a) + 1) - 1 :
          \/ h \in 1 .. (Len(q) + 1) - 1
          \/ h = Len(q) + 1 /\ a[h] = out[1]
    BY <1>1, <1>2
  <2>5. k < out[2].n /\ \A h \in 1 .. (Len(a) + 1) - 1 : Cur(a[h]) => a[h].n < out[2].n
    <3>1. k < out[1].n /\ \A h \in 1 .. (Len(q) + 1) - 1 : Cur(a[h]) => a[h].n < out[1].n
      BY <2>3 DEF Follows
    <3>2. \A h \in 1 .. Len(q) : a[h].n \in Nat BY <1>2, NumberOf
    <3>3. ASSUME NEW h \in 1 .. (Len(a) + 1) - 1, Cur(a[h]) PROVE a[h].n < out[2].n
      <4>1. CASE h = Len(q) + 1 /\ a[h] = out[1] BY <4>1, <2>2, <1>1
      <4>2. CASE h \in 1 .. (Len(q) + 1) - 1
        <5>1. a[h].n < out[1].n /\ a[h].n \in Nat BY <3>1, <3>2, <3>3, <4>2, <1>1
        <5> QED BY SMTT(30), <5>1, <2>2, <1>1
      <4> QED BY <4>1, <4>2, <2>4
    <3> QED BY <3>1, <3>3, <2>2, <1>1
  <2>6. Len(q) + 1 \in 1 .. (Len(a) + 1) - 1 /\ Cur(a[Len(q) + 1]) /\ a[Len(q) + 1].n + 1 = out[2].n
    BY <1>1, <1>2, <2>2
  <2> QED BY <2>1, <2>5, <2>6 DEF Follows
<1> QED BY <1>4, <1>5 DEF Ordered, a

\* A message that is no part of the answer comes behind it.
LEMMA OrderedAppend ==
  ASSUME NEW q \in Seq(RxWords), NEW out \in Seq(RxWords), NEW k \in Nat,
         NEW w \in RxWords, ~Cur(w), Ordered(q, out, k)
  PROVE  Ordered(Append(q, w), out, k)
<1> DEFINE a == Append(q, w)
<1>2. /\ a \in Seq(RxWords) /\ DOMAIN a = 1 .. Len(q) + 1 /\ Len(a) = Len(q) + 1
      /\ \A i \in 1 .. Len(q) : a[i] = q[i]
      /\ a[Len(q) + 1] = w /\ DOMAIN q = 1 .. Len(q) /\ Len(q) \in Nat
  BY AppendOf
<1> HIDE DEF a
<1>3. ASSUME NEW j \in 1 .. Len(q) + 1, NEW n, Follows(n, q, j, k) PROVE Follows(n, a, j, k)
  <2>1. \A h \in 1 .. j - 1 : a[h] = q[h] BY <1>2
  <2> QED BY <2>1, <1>3 DEF Follows
<1>4. ASSUME NEW j \in DOMAIN a, Cur(a[j]) PROVE Follows(a[j].n, a, j, k)
  <2>1. j \in 1 .. Len(q) /\ a[j] = q[j] BY <1>2, <1>4
  <2> QED BY <2>1, <1>2, <1>3, <1>4 DEF Ordered
<1>5. ASSUME out # <<>>, Cur(out[1]) PROVE Follows(out[1].n, a, Len(a) + 1, k)
  <2>1. Follows(out[1].n, q, Len(q) + 1, k) BY <1>5 DEF Ordered
  <2>2. \A h \in 1 .. (Len(a) + 1) - 1 :
          \/ h \in 1 .. (Len(q) + 1) - 1 /\ a[h] = q[h]
          \/ h = Len(q) + 1 /\ ~Cur(a[h])
    BY <1>2
  <2>3. \A h \in 1 .. (Len(q) + 1) - 1 : h \in 1 .. (Len(a) + 1) - 1 /\ a[h] = q[h]
    BY <1>2
  <2>4. CASE \E h \in 1 .. (Len(q) + 1) - 1 : Cur(q[h]) /\ q[h].n + 1 = out[1].n
    BY <2>1, <2>2, <2>3, <2>4 DEF Follows
  <2>5. CASE ~\E h \in 1 .. (Len(q) + 1) - 1 : Cur(q[h]) /\ q[h].n + 1 = out[1].n
    BY <2>1, <2>2, <2>5 DEF Follows
  <2> QED BY <2>4, <2>5
<1> QED BY <1>4, <1>5 DEF Ordered, a

\* The first word of the answer to a command none of whose words is in the FIFO.
LEMMA OrderedAnew ==
  ASSUME NEW q \in Seq(RxWords), NEW out,
         \A i \in DOMAIN q : ~Cur(q[i]),
         out # <<>> /\ Cur(out[1]) => out[1].n \in Nat /\ out[1].n > 0
  PROVE  Ordered(q, out, 0)
<1>1. \A h \in 1 .. (Len(q) + 1) - 1 : h \in DOMAIN q OBVIOUS
<1> QED BY <1>1 DEF Ordered, Follows
---------------------------------------------------------------------------
(* Types.  A record has its type when it has the shape of one that has it  *)
(* and each of its fields has the field's type.                            *)

Like(r, s) == DOMAIN r = DOMAIN s /\ r = [f \in DOMAIN r |-> r[f]]

Handlers == {r.handler : r \in Requests} \cup {"none"}

GlobalFields(r) ==
  /\ r.state \in States /\ r.req \in Requests \cup {NoReq}
  /\ r.cmd \in Nat /\ r.data \in Nat /\ r.pages \in Nat /\ r.rx \in Seq(RxWords)
  /\ r.handler \in Handlers /\ r.prog \in BOOLEAN

PeerFields(r) ==
  /\ r.req \in Requests \cup {NoReq} /\ r.tag \in {"cur", "old"}
  /\ r.need \in Nat /\ r.out \in Seq(RxWords)

LEMMA GlobalsOfFields ==
  ASSUME NEW s \in Globals, NEW r, Like(r, s), GlobalFields(r)
  PROVE  r \in Globals
BY Zenon DEF Globals, GlobalFields, Like, Handlers

LEMMA FieldsOfGlobals ==
  ASSUME NEW s \in Globals
  PROVE  GlobalFields(s)
BY Zenon DEF Globals, GlobalFields, Handlers

LEMMA PeerOfFields ==
  ASSUME NEW s \in Peer, NEW r, Like(r, s), PeerFields(r)
  PROVE  r \in Peer
BY Zenon DEF Peer, PeerFields, Like

LEMMA FieldsOfPeer ==
  ASSUME NEW s \in Peer
  PROVE  PeerFields(s)
BY Zenon DEF Peer, PeerFields

\* Every step only updates fields of the two records.
LEMMA ShapesKept ==
  ASSUME drv \in Globals, sys \in Peer, [Step]_vars
  PROVE  Like(drv', drv) /\ Like(sys', sys)
<1> USE DEF Like, Globals, Peer, Completed, Receive, Transmit
<1>1. ASSUME NEW r \in Requests, Send(r) PROVE Like(drv', drv) /\ Like(sys', sys)
  BY Zenon, <1>1 DEF Send
<1>2. CASE SendOpcode BY Zenon, <1>2 DEF SendOpcode
<1>3. CASE SendPointer BY Zenon, <1>3 DEF SendPointer
<1>4. CASE FillWord BY Zenon, <1>4 DEF FillWord
<1>5. CASE CommandFilled BY Zenon, <1>5 DEF CommandFilled
<1>6. CASE RxIdle BY Zenon, <1>6 DEF RxIdle
<1>7. CASE RxWaitResponse BY Zenon, <1>7 DEF RxWaitResponse
<1>8. CASE RxResponse BY Zenon, <1>8 DEF RxResponse
<1>9. CASE RxPaged BY Zenon, <1>9 DEF RxPaged
<1>10. CASE RxSending BY Zenon, <1>10 DEF RxSending
<1>11. CASE TxCommand BY Zenon, <1>11 DEF TxCommand
<1>12. CASE IsrCommandFilled BY Zenon, <1>12 DEF IsrCommandFilled
<1>13. CASE TxPaged BY Zenon, <1>13 DEF TxPaged
<1>14. CASE IsrDataFilled BY Zenon, <1>14 DEF IsrDataFilled
<1>15. CASE TxUnexpected BY Zenon, <1>15 DEF TxUnexpected
<1>16. CASE Take BY Zenon, <1>16 DEF Take
<1>17. CASE Answer BY Zenon, <1>17 DEF Answer
<1>18. CASE Refuse BY Zenon, <1>18 DEF Refuse
<1>19. CASE Emit BY Zenon, <1>19 DEF Emit
<1>20. ASSUME NEW message, Tells(message) PROVE Like(drv', drv) /\ Like(sys', sys)
  BY Zenon, <1>20 DEF Tells
<1>21. CASE UNCHANGED vars \/ Elsewhere BY Zenon, <1>21 DEF vars, Elsewhere
<1> QED
  BY <1>1, <1>2, <1>3, <1>4, <1>5, <1>6, <1>7, <1>8, <1>9, <1>10, <1>11, <1>12,
     <1>13, <1>14, <1>15, <1>16, <1>17, <1>18, <1>19, <1>20, <1>21
  DEF Step, Next, Driver, Controller, Notify

---------------------------------------------------------------------------
(* The words of an earlier command, when a command is sent.                *)

LEMMA AgedOf ==
  ASSUME NEW S, NEW q \in Seq(S),
         \A w \in S : IF w.tag = "cur" THEN [w EXCEPT !.tag = "old"] \in S ELSE TRUE
  PROVE  /\ Aged(q) \in Seq(S) /\ Len(Aged(q)) = Len(q) /\ DOMAIN Aged(q) = DOMAIN q
         /\ \A i \in DOMAIN q :
              Aged(q)[i] = IF q[i].tag = "cur" THEN [q[i] EXCEPT !.tag = "old"] ELSE q[i]
<1>1. DOMAIN q = 1 .. Len(q) /\ Len(q) \in Nat /\ \A i \in DOMAIN q : q[i] \in S OBVIOUS
<1>2. \A i \in DOMAIN q :
        (IF q[i].tag = "cur" THEN [q[i] EXCEPT !.tag = "old"] ELSE q[i]) \in S
  BY <1>1
<1> QED BY <1>1, <1>2 DEF Aged

LEMMA AgedRx ==
  ASSUME NEW q \in Seq(RxWords)
  PROVE  /\ Aged(q) \in Seq(RxWords) /\ Len(Aged(q)) = Len(q)
         /\ DOMAIN Aged(q) = DOMAIN q
         /\ \A i \in DOMAIN q : ~Cur(Aged(q)[i])
         /\ \A i \in DOMAIN q :
              /\ Aged(q)[i].cmd = q[i].cmd /\ Aged(q)[i].val = q[i].val
              /\ Aged(q)[i].tag = IF Cur(q[i]) THEN "old" ELSE q[i].tag
<1>1. ASSUME NEW w \in RxWords PROVE [w EXCEPT !.tag = "old"] \in RxWords
  BY Zenon DEF RxWords
<1>2. \A i \in DOMAIN q : q[i] \in RxWords OBVIOUS
<1>3. ASSUME NEW w \in RxWords
      PROVE  LET v == [w EXCEPT !.tag = "old"]
             IN v.tag = "old" /\ v.cmd = w.cmd /\ v.val = w.val
  BY Zenon DEF RxWords
<1> HIDE DEF Aged
<1>4. /\ Aged(q) \in Seq(RxWords) /\ Len(Aged(q)) = Len(q) /\ DOMAIN Aged(q) = DOMAIN q
      /\ \A i \in DOMAIN q :
              Aged(q)[i] = IF q[i].tag = "cur" THEN [q[i] EXCEPT !.tag = "old"] ELSE q[i]
  BY <1>1, AgedOf
<1>5. ASSUME NEW i \in DOMAIN q
      PROVE  /\ ~Cur(Aged(q)[i])
             /\ Aged(q)[i].cmd = q[i].cmd /\ Aged(q)[i].val = q[i].val
             /\ Aged(q)[i].tag = IF Cur(q[i]) THEN "old" ELSE q[i].tag
  BY ZenonT(40), <1>2, <1>3, <1>4
<1> QED BY <1>4, <1>5

LEMMA AgedTx ==
  ASSUME NEW q \in Seq(TxWords)
  PROVE  /\ Aged(q) \in Seq(TxWords) /\ Len(Aged(q)) = Len(q)
         /\ DOMAIN Aged(q) = DOMAIN q
         /\ \A i \in DOMAIN q :
              /\ Aged(q)[i].first = q[i].first /\ Aged(q)[i].req = q[i].req
              /\ Aged(q)[i].tag = "old"
<1>1. ASSUME NEW w \in TxWords PROVE [w EXCEPT !.tag = "old"] \in TxWords
  BY Zenon DEF TxWords
<1>2. \A i \in DOMAIN q : q[i] \in TxWords /\ q[i].tag \in {"cur", "old"}
  <2>1. \A w \in TxWords : w.tag \in {"cur", "old"} BY DEF TxWords
  <2> QED BY <2>1
<1>3. ASSUME NEW w \in TxWords
      PROVE  LET v == [w EXCEPT !.tag = "old"]
             IN v.tag = "old" /\ v.first = w.first /\ v.req = w.req
  BY Zenon DEF TxWords
<1>4. /\ Aged(q) \in Seq(TxWords) /\ Len(Aged(q)) = Len(q) /\ DOMAIN Aged(q) = DOMAIN q
      /\ \A i \in DOMAIN q :
              Aged(q)[i] = IF q[i].tag = "cur" THEN [q[i] EXCEPT !.tag = "old"] ELSE q[i]
  BY <1>1, AgedOf
<1>5. ASSUME NEW i \in DOMAIN q
      PROVE  /\ Aged(q)[i].first = q[i].first /\ Aged(q)[i].req = q[i].req
             /\ Aged(q)[i].tag = "old"
  <2>1. CASE q[i].tag = "cur"
    <3>1. Aged(q)[i] = [q[i] EXCEPT !.tag = "old"] BY <1>4, <2>1
    <3> QED BY Zenon, <1>2, <1>3, <3>1
  <2>2. CASE q[i].tag # "cur"
    <3>1. Aged(q)[i] = q[i] BY <1>4, <2>2
    <3> QED BY <1>2, <2>2, <3>1
  <2> QED BY <2>1, <2>2
<1> QED BY <1>4, <1>5

---------------------------------------------------------------------------
(* The types are kept.                                                     *)

Others ==
  /\ drv.prog => Len(drv.rx) <= drv.req.rsize \/ Len(drv.rx) = 1
  /\ cpu \in {"idle", "opcode", "pointer", "command", "isr_command", "isr_data", "tx"}
  /\ en \subseteq {"RX", "TX"}
  /\ txq \in Seq(TxWords) /\ Len(txq) <= Fifo
  /\ rxq \in Seq(RxWords) /\ Len(rxq) <= RxFifo
  /\ done.handler \in Handlers /\ done.answer \in Answers \cup {"none"}
  /\ done = [handler |-> done.handler, answer |-> done.answer]

Typed == GlobalFields(drv) /\ PeerFields(sys) /\ Others

LEMMA TypedIsType == TypeOK <=> drv \in Globals /\ sys \in Peer /\ Others
<1>1. done \in [handler : Handlers, answer : Answers \cup {"none"}] <=>
        /\ done.handler \in Handlers /\ done.answer \in Answers \cup {"none"}
        /\ done = [handler |-> done.handler, answer |-> done.answer]
  BY Zenon
<1> QED BY <1>1 DEF TypeOK, Others, Handlers

LEMMA InitTyped == Init => TypeOK
<1> SUFFICES ASSUME Init PROVE TypeOK
  OBVIOUS
<1>1. <<>> \in Seq(RxWords) /\ <<>> \in Seq(TxWords) /\ Len(<<>>) = 0 OBVIOUS
<1>2. DigestError \in Seq(RxWords)
  <2>1. Event(POR_DIGEST_ERROR_OPCODE, TRUE) \in RxWords /\ Event("flags", FALSE) \in RxWords
    BY SMTT(20) DEF Event, RxWords, Unsolicited
  <2>2. \A v, w \in RxWords : <<v, w>> \in Seq(RxWords) OBVIOUS
  <2> QED BY Zenon, <2>1, <2>2 DEF DigestError
<1>3. drv \in Globals
  BY Zenon, <1>1 DEF Init, Globals, States
<1>4. sys \in Peer
  <2>1. {<<>>} \cup (IF "DIGEST" \in Hazards THEN {DigestError} ELSE {}) \subseteq Seq(RxWords)
    BY <1>1, <1>2
  <2>2. sys \in [req : {NoReq}, tag : {"old"}, need : {0}, out : Seq(RxWords)]
    BY Zenon, <2>1 DEF Init
  <2>3. 0 \in Nat OBVIOUS
  <2> QED BY Zenon, <2>2, <2>3 DEF Peer
<1>5. Others BY <1>1 DEF Init, Others, Nobody, Handlers
<1> QED BY <1>3, <1>4, <1>5, TypedIsType

LEMMA ValuesOf ==
  ASSUME NEW r \in Requests
  PROVE  /\ r.op \in {q.op : q \in Requests} /\ r.handler \in Handlers
         /\ r.size \in Nat /\ r.data \in Nat /\ r.pages \in Nat /\ r.rsize \in Nat
         /\ r.size + r.data + r.pages * Page \in Nat
BY DEF Handlers

LEMMA MessageWord ==
  ASSUME NEW length \in Nat, NEW digest \in Nat,
         NEW i \in 1 .. (IF length = 0 THEN 2 ELSE length)
  PROVE  /\ Message(length, digest)[i].cmd <=> i = 1
         /\ Message(length, digest)[i].tag = sys.tag
         /\ Message(length, digest)[i].n = i
         /\ Message(length, digest)[i].val =
              IF i = 1 THEN sys.req.op
              ELSE IF i = digest THEN POR_DIGEST_ERROR_OPCODE ELSE "byte"
<1> DEFINE w == [cmd |-> i = 1, tag |-> sys.tag, n |-> i,
                 val |-> IF i = 1 THEN sys.req.op
                         ELSE IF i = digest THEN POR_DIGEST_ERROR_OPCODE ELSE "byte"]
<1>1. Message(length, digest)[i] = w BY DEF Message
<1>2. /\ w.cmd <=> i = 1
      /\ w.tag = sys.tag /\ w.n = i
      /\ w.val = IF i = 1 THEN sys.req.op
                ELSE IF i = digest THEN POR_DIGEST_ERROR_OPCODE ELSE "byte"
  BY Zenon
<1> HIDE DEF w
<1> QED BY <1>1, <1>2

LEMMA MessageOf ==
  ASSUME sys.req \in Requests, sys.tag \in {"cur", "old"},
         NEW length \in Nat, NEW digest \in Nat
  PROVE  /\ Message(length, digest) \in Seq(RxWords)
         /\ Len(Message(length, digest)) = IF length = 0 THEN 2 ELSE length
<1> DEFINE last == IF length = 0 THEN 2 ELSE length
           W(i) == [cmd |-> i = 1, tag |-> sys.tag, n |-> i,
                    val |-> IF i = 1 THEN sys.req.op
                            ELSE IF i = digest THEN POR_DIGEST_ERROR_OPCODE ELSE "byte"]
<1>1. last \in Nat OBVIOUS
<1>2. ASSUME NEW i \in 1 .. last PROVE W(i) \in RxWords
  <2>1. /\ (i = 1) \in BOOLEAN /\ i \in Nat /\ sys.tag \in {"cur", "old", "event"}
        /\ sys.req.op \in {q.op : q \in Requests}
    OBVIOUS
  <2> QED BY Zenon, <2>1 DEF RxWords, Unsolicited
<1>3. Message(length, digest) = [i \in 1 .. last |-> W(i)] BY DEF Message
<1> HIDE DEF last
<1>4. Len(Message(length, digest)) = last /\ Message(length, digest) \in Seq(RxWords)
  <2> HIDE DEF W
  <2> QED BY <1>1, <1>2, <1>3
<1> QED BY <1>4 DEF last

\* The record of a request that has been completed.
LEMMA Ended ==
  ASSUME TypeOK, drv' = Completed([drv EXCEPT !.state = "IDLE"])
  PROVE  /\ drv'.state = "IDLE" /\ drv'.req = drv.req /\ drv'.cmd = drv.cmd
         /\ drv'.data = drv.data /\ drv'.pages = drv.pages /\ drv'.handler = "none"
         /\ drv'.rx = drv.rx /\ drv'.prog \in BOOLEAN
         /\ drv'.prog <=> (drv.prog /\ ~Busy)
<1>1. drv \in Globals BY DEF TypeOK
<1>2. drv.prog \in BOOLEAN BY <1>1, FieldsOfGlobals DEF GlobalFields
<1> QED BY <1>1, <1>2 DEF Completed, Globals

LEMMA NextTyped == TypeOK /\ [Step]_vars => TypeOK'
<1> SUFFICES ASSUME TypeOK, [Step]_vars PROVE TypeOK'
  OBVIOUS
<1>1. /\ Typed
      /\ DOMAIN drv = {"state", "req", "cmd", "data", "pages", "rx", "handler", "prog"}
      /\ DOMAIN sys = {"req", "tag", "need", "out"}
  <2>1. drv \in Globals /\ sys \in Peer /\ Others BY TypedIsType
  <2>2. /\ DOMAIN drv = {"state", "req", "cmd", "data", "pages", "rx", "handler", "prog"}
        /\ DOMAIN sys = {"req", "tag", "need", "out"}
    BY <2>1 DEF Globals, Peer
  <2> QED BY <2>1, <2>2, FieldsOfGlobals, FieldsOfPeer DEF Typed
<1>2. Like(drv', drv) /\ Like(sys', sys) BY ShapesKept, TypedIsType
<1>3. SUFFICES Typed'
  <2>1. drv \in Globals /\ sys \in Peer BY TypedIsType
  <2>2. ASSUME Typed' PROVE drv' \in Globals /\ sys' \in Peer
    BY <1>2, <2>1, <2>2, GlobalsOfFields, PeerOfFields DEF Typed
  <2>3. (TypeOK <=> drv \in Globals /\ sys \in Peer /\ Others)' BY TypedIsType, PTL
  <2> QED BY <2>2, <2>3 DEF Typed
<1> USE DEF Typed, GlobalFields, PeerFields, Others, Nobody
<1>4. "none" \in Handlers /\ \A r \in Requests : r.handler \in Handlers BY DEF Handlers
<1>5. \A q \in Seq(RxWords) : q # <<>> =>
        /\ Tail(q) \in Seq(RxWords) /\ Head(q) \in RxWords /\ Len(Tail(q)) = Len(q) - 1
        /\ <<Head(q)>> \in Seq(RxWords) /\ Len(<<Head(q)>>) = 1
        /\ \A p \in Seq(RxWords) : /\ Append(p, Head(q)) \in Seq(RxWords)
                                   /\ Len(Append(p, Head(q))) = Len(p) + 1
  BY TailOf, AppendOf
<1>6. Len(<<>>) = 0 /\ <<>> \in Seq(RxWords) /\ <<>> \in Seq(TxWords) OBVIOUS
<1>7. ASSUME NEW r \in Requests, Send(r) PROVE Typed'
  <2>1. Aged(Unflushed) \in Seq(TxWords) /\ Len(Aged(Unflushed)) <= Fifo
    <3>1. Unflushed \in Seq(TxWords) /\ Len(Unflushed) <= Fifo BY <1>1, <1>6 DEF Unflushed
    <3> QED BY <3>1, AgedTx
  <2>2. /\ Aged(rxq) \in Seq(RxWords) /\ Len(Aged(rxq)) <= RxFifo
        /\ Aged(sys.out) \in Seq(RxWords)
    BY <1>1, AgedRx
  <2> QED BY SMTT(30), <1>1, <1>4, <1>6, <1>7, <2>1, <2>2 DEF Send, Called, States, Answers
<1>8. \A w \in TxWords : /\ Append(txq, w) \in Seq(TxWords)
                         /\ Len(Append(txq, w)) = Len(txq) + 1 /\ Len(txq) \in Nat
  BY <1>1, AppendOf
<1>9. CASE SendOpcode
  <2>1. [req |-> drv.req, tag |-> "cur", first |-> TRUE] \in TxWords
    BY <1>1 DEF TxWords
  <2> QED BY <1>1, <1>4, <1>8, <1>9, <2>1 DEF SendOpcode, Room
<1>10. Word \in TxWords BY DEF Word, TxWords
<1>11. CASE SendPointer BY <1>1, <1>4, <1>8, <1>10, <1>11 DEF SendPointer, Room, States
<1>12. CASE FillWord
  <2>1. CASE Filling = "cmd"
    BY <1>1, <1>4, <1>8, <1>10, <1>12, <2>1 DEF FillWord, Room
  <2>2. CASE Filling = "data"
    BY <1>1, <1>4, <1>8, <1>10, <1>12, <2>2 DEF FillWord, Room
  <2> QED BY <2>1, <2>2 DEF Filling
<1>13. CASE CommandFilled
  <2>1. PICK s \in States : drv' = [drv EXCEPT !.state = s]
    BY <1>13 DEF CommandFilled, AfterCommand, States
  <2> QED BY <1>1, <1>4, <1>13, <2>1 DEF CommandFilled
<1> USE DEF Receive, RxPending
<1>14. CASE RxIdle BY SMTT(30), <1>1, <1>4, <1>5, <1>14 DEF RxIdle, States
<1>15. CASE RxWaitResponse BY SMTT(30), <1>1, <1>4, <1>5, <1>15 DEF RxWaitResponse, States
<1>16. CASE RxResponse
  <2>1. /\ Grown(Head(rxq)) \in Seq(RxWords)
        /\ drv.prog => Len(Grown(Head(rxq))) <= drv.req.rsize \/ Len(Grown(Head(rxq))) = 1
    BY SMTT(30), <1>1, <1>5, <1>16, ValuesOf DEF RxResponse, Grown, NoReq
  <2>2. Called(Worth(Grown(Head(rxq)))).handler \in Handlers
    BY <1>1, <1>4 DEF Called
  <2>3. /\ Called(Worth(Grown(Head(rxq)))).answer \in Answers \cup {"none"}
        /\ \A a : Called(a) = [handler |-> Called(a).handler, answer |-> Called(a).answer]
    BY <1>1, <1>4 DEF Called, Worth, Answers
  <2>4. CASE drv' = drv /\ done' = Nobody BY <1>1, <1>4, <1>5, <1>16, <2>4 DEF RxResponse
  <2>5. CASE drv' = [drv EXCEPT !.state = "IDLE"] /\ done' = Nobody
    BY SMTT(30), <1>1, <1>4, <1>5, <1>16, <2>5 DEF RxResponse, States
  <2>6. CASE /\ drv' = Completed([drv EXCEPT !.rx = Grown(Head(rxq)), !.state = "IDLE"])
             /\ done' = Called(Worth(Grown(Head(rxq))))
    <3>1. done' = [handler |-> done'.handler, answer |-> done'.answer]
      BY <2>3, <2>6
    <3>2. /\ drv'.state = "IDLE" /\ drv'.req = drv.req /\ drv'.cmd = drv.cmd
          /\ drv'.data = drv.data /\ drv'.pages = drv.pages /\ drv'.handler = "none"
          /\ drv'.rx = Grown(Head(rxq)) /\ drv'.prog \in BOOLEAN
          /\ drv'.prog => drv.prog
      <4> HIDE DEF GlobalFields
      <4>1. drv \in Globals /\ drv.prog \in BOOLEAN
        BY TypedIsType, FieldsOfGlobals DEF GlobalFields
      <4> QED BY <2>6, <4>1 DEF Completed, Globals
    <3> QED BY SMTT(30), <1>1, <1>4, <1>5, <1>16, <2>1, <2>2, <2>3, <2>6, <3>1, <3>2
            DEF RxResponse, States
  <2>7. CASE drv' = [drv EXCEPT !.rx = Grown(Head(rxq))] /\ done' = Nobody
    BY <1>1, <1>4, <1>5, <1>16, <2>1, <2>7 DEF RxResponse
  <2> QED BY <1>16, <2>4, <2>5, <2>6, <2>7 DEF RxResponse
<1>17. CASE RxPaged
  <2>1. CASE Head(rxq).cmd BY <1>1, <1>4, <1>5, <1>17, <2>1 DEF RxPaged
  <2>2. CASE ~Head(rxq).cmd
    <3>1. PICK a \in {"own", "foreign"} :
            drv' = Completed([drv EXCEPT !.state = "IDLE"]) /\ done' = Called(a)
      BY <1>17, <2>2 DEF RxPaged
    <3>2. GlobalFields(drv') /\ (drv'.prog => drv.prog) /\ drv'.rx = drv.rx /\ drv'.req = drv.req
      BY <1>1, <1>4, <3>1, Ended DEF States
    <3>3. Called(a).handler \in Handlers /\ Called(a).answer \in Answers \cup {"none"}
          /\ Called(a) = [handler |-> Called(a).handler, answer |-> Called(a).answer]
      BY <1>1, <1>4 DEF Called, Answers
    <3> HIDE DEF GlobalFields
    <3> QED BY <1>1, <1>4, <1>5, <1>17, <3>1, <3>2, <3>3 DEF RxPaged
  <2> QED BY <2>1, <2>2
<1>18. CASE RxSending BY <1>1, <1>4, <1>5, <1>18 DEF RxSending
<1> USE DEF Transmit
<1>19. CASE TxCommand BY <1>1, <1>4, <1>19 DEF TxCommand
<1>20. CASE IsrCommandFilled
  BY <1>1, <1>4, <1>20 DEF IsrCommandFilled, AfterCommand, States
<1>21. CASE TxPaged
  <2>1. CASE drv.data = 0 /\ drv.pages = 0
    BY ZenonT(40), <1>1, <1>4, <1>21, <2>1 DEF TxPaged, States
  <2>2. CASE drv.data > 0 BY <1>1, <1>4, <1>21, <2>2 DEF TxPaged
  <2>3. CASE drv.data = 0 /\ drv.pages # 0
    <3>1. drv' = [drv EXCEPT !.data = Page, !.pages = drv.pages - 1] /\ en' = en
      BY <1>1, <1>21, <2>3 DEF TxPaged
    <3>2. Page \in Nat /\ drv.pages - 1 \in Nat BY <1>1, <2>3
    <3>3. GlobalFields(drv') /\ drv'.rx = drv.rx /\ drv'.req = drv.req /\ drv'.prog = drv.prog
      BY <1>1, <3>1, <3>2
    <3> HIDE DEF GlobalFields
    <3> QED BY <1>1, <1>4, <1>21, <2>3, <3>1, <3>3 DEF TxPaged
  <2> QED BY <2>1, <2>2, <2>3, <1>1
<1>22. CASE IsrDataFilled BY <1>1, <1>4, <1>22 DEF IsrDataFilled
<1>23. CASE TxUnexpected
  <2>1. drv' = Completed([drv EXCEPT !.state = "IDLE"]) /\ done' = Called("short")
    BY <1>23 DEF TxUnexpected
  <2>2. GlobalFields(drv') /\ (drv'.prog => drv.prog) /\ drv'.rx = drv.rx /\ drv'.req = drv.req
    BY <1>1, <1>4, <2>1, Ended DEF States
  <2>3. done'.handler \in Handlers /\ done'.answer \in Answers \cup {"none"}
        /\ done' = [handler |-> done'.handler, answer |-> done'.answer]
    BY <1>1, <1>4, <2>1 DEF Called, Answers
  <2> HIDE DEF GlobalFields
  <2> QED BY <1>1, <1>4, <1>23, <2>2, <2>3 DEF TxUnexpected
<1>24. CASE Take
  <2>1. /\ Head(txq) \in TxWords /\ Tail(txq) \in Seq(TxWords) /\ Len(Tail(txq)) <= Fifo
    BY <1>1, <1>24, TailOf DEF Take
  <2>2. Head(txq).req \in Requests \cup {NoReq} /\ Head(txq).tag \in {"cur", "old"}
    BY <2>1 DEF TxWords
  <2>3. LET w == Head(txq).req IN w.size + w.data + w.pages * Page \in Nat
    <3>1. CASE Head(txq).req \in Requests BY <3>1, ValuesOf
    <3>2. CASE Head(txq).req = NoReq BY <3>2 DEF NoReq
    <3> QED BY <2>2, <3>1, <3>2
  <2>4. PeerFields(sys')
    <3>1. CASE Head(txq).first BY <1>1, <1>24, <2>2, <2>3, <3>1 DEF Take
    <3>2. CASE ~Head(txq).first /\ sys.req # NoReq
      <4>1. sys.need # 0 /\ sys' = [sys EXCEPT !.need = sys.need - 1] BY <1>24, <3>2 DEF Take
      <4>2. sys.need - 1 \in Nat BY <1>1, <4>1
      <4> QED BY <1>1, <4>1, <4>2
    <3>3. CASE ~Head(txq).first /\ sys.req = NoReq BY <1>1, <1>24, <3>3 DEF Take
    <3> QED BY <3>1, <3>2, <3>3
  <2> HIDE DEF PeerFields
  <2> QED BY <1>1, <1>4, <1>24, <2>1, <2>4 DEF Take
<1>25. \A p, q \in Seq(RxWords) : p \o q \in Seq(RxWords) OBVIOUS
<1>26. CASE Answer
  <2>1. PICK digest \in Nat :
          sys' = [sys EXCEPT !.out = @ \o Message(sys.req.rsize, digest), !.req = NoReq]
    <3>1. \A digest \in {0} \cup (IF "DIGEST_BYTE" \in Hazards THEN 2..sys.req.rsize ELSE {}) :
            digest \in Nat
      BY ValuesOf, <1>1
    <3> QED BY <1>26, <3>1 DEF Answer
  <2>2. sys.req \in Requests /\ sys.req.rsize \in Nat BY <1>1, <1>26, ValuesOf DEF Answer
  <2>3. sys.out \o Message(sys.req.rsize, digest) \in Seq(RxWords)
    BY <1>1, <1>25, <2>2, MessageOf
  <2>4. PeerFields(sys') BY Zenon, <1>1, <2>1, <2>3
  <2> HIDE DEF PeerFields
  <2> QED BY <1>1, <1>4, <1>26, <2>4 DEF Answer
<1>27. CASE Refuse
  <2>1. sys.req \in Requests BY <1>1, <1>27 DEF Refuse, NoReq
  <2>2. sys.out \o Message(2, 0) \in Seq(RxWords)
    BY <1>1, <1>25, <2>1, MessageOf
  <2> QED BY <1>1, <1>4, <1>27, <2>2 DEF Refuse
<1>28. \A w \in RxWords : /\ Append(rxq, w) \in Seq(RxWords)
                          /\ Len(Append(rxq, w)) = Len(rxq) + 1 /\ Len(rxq) \in Nat
  BY <1>1, AppendOf
<1>29. CASE Emit BY SMTT(30), <1>1, <1>4, <1>5, <1>28, <1>29 DEF Emit
<1>30. ASSUME NEW message \in Unsolicited, Tells(message) PROVE Typed'
  <2>1. Event(message, TRUE) \in RxWords BY DEF Event, RxWords
  <2>2. rxq' = Append(rxq, Event(message, TRUE)) /\ Len(rxq) < RxFifo BY <1>30 DEF Tells
  <2>3. /\ rxq' \in Seq(RxWords)
        /\ Len(rxq') = Len(rxq) + 1 /\ Len(rxq) \in Nat
    BY <1>28, <2>1, <2>2
  <2>4. Len(rxq') <= RxFifo BY <2>2, <2>3
  <2> QED BY <1>1, <1>4, <1>30, <2>3, <2>4 DEF Tells
<1>31. CASE UNCHANGED vars BY <1>1, <1>31 DEF vars
<1>32. CASE Elsewhere BY <1>1, <1>4, <1>32 DEF Elsewhere
<1>33. "event" \in Unsolicited BY DEF Unsolicited
<1> QED
  BY <1>7, <1>9, <1>11, <1>12, <1>13, <1>14, <1>15, <1>16, <1>17, <1>18, <1>19, <1>20,
     <1>21, <1>22, <1>23, <1>24, <1>26, <1>27, <1>29, <1>30, <1>31, <1>32, <1>33
  DEF Step, Next, Driver, Controller, Notify

---------------------------------------------------------------------------
(* What the invariant says of the FIFOs, when a step leaves them alone or  *)
(* takes the first word out of the receive FIFO.                           *)

LEMMA TypesOf ==
  ASSUME TypeOK
  PROVE  /\ drv \in Globals /\ GlobalFields(drv) /\ sys \in Peer /\ PeerFields(sys)
         /\ rxq \in Seq(RxWords) /\ txq \in Seq(TxWords)
BY FieldsOfGlobals, FieldsOfPeer DEF TypeOK

LEMMA ReceivedNat ==
  ASSUME TypeOK
  PROVE  Received \in Nat
<1>1. drv.rx \in Seq(RxWords) BY TypesOf DEF GlobalFields
<1> QED BY <1>1 DEF Received

\* The limit of the answer to a command that a client gave is at least two bytes.
LEMMA LimitOf ==
  ASSUME drv.req \in Requests
  PROVE  /\ Limit \in Nat /\ Limit >= 2
         /\ drv.req.rsize \in Nat /\ drv.req.rsize # 1
         /\ Limit = IF drv.req.rsize = 0 THEN 2 ELSE drv.req.rsize
BY DEF Limit

LEMMA MailSame ==
  ASSUME Mail, UNCHANGED <<rxq, sys>>, drv'.req = drv.req, Begun' => Begun
  PROVE  Mail'
<1> HIDE DEF Begun
<1> QED BY DEF Mail, Readable, Limit, Harmless

LEMMA OrderSame ==
  ASSUME TypeOK, InOrder, UNCHANGED <<rxq, sys>>, Received' \in {0, Received}
  PROVE  InOrder'
<1>1. Ordered(rxq, sys.out, 0)
  <2>1. rxq \in Seq(RxWords) /\ sys.out \in Seq(RxWords) /\ Received \in Nat
    BY TypesOf, ReceivedNat DEF PeerFields
  <2> QED BY <2>1, OrderedForget DEF InOrder
<1> QED BY <1>1 DEF InOrder

LEMMA MailTaken ==
  ASSUME TypeOK, Mail, rxq # <<>>, rxq' = Tail(rxq), sys' = sys, drv'.req = drv.req,
         Begun' => Begun \/ Cur(Head(rxq))
  PROVE  Mail'
<1>1. /\ Head(rxq) = rxq[1] /\ Len(rxq) \in Nat \ {0} /\ DOMAIN rxq = 1 .. Len(rxq)
      /\ Len(rxq') = Len(rxq) - 1 /\ DOMAIN rxq' = 1 .. Len(rxq) - 1
      /\ \A i \in 1 .. Len(rxq) - 1 : rxq'[i] = rxq[i + 1]
  BY TypesOf, TailOf
<1>2. \A i \in DOMAIN rxq' : i + 1 \in DOMAIN rxq /\ rxq'[i] = rxq[i + 1] BY <1>1
<1>4. ASSUME NEW i \in DOMAIN rxq', Cur(rxq'[i])
      PROVE  /\ sys.tag = "cur" /\ sys.req = NoReq
             /\ \A j \in i + 1 .. Len(rxq') : Harmless(rxq'[j])
  <2>1. \A j \in i + 1 .. Len(rxq') :
          j + 1 \in (i + 1) + 1 .. Len(rxq) /\ rxq'[j] = rxq[j + 1]
    BY <1>1
  <2> QED BY <1>2, <1>4, <2>1 DEF Mail
<1>5. ASSUME Begun'
      PROVE  /\ sys.tag = "cur" /\ sys.req = NoReq
             /\ \A i \in DOMAIN rxq' : Harmless(rxq'[i])
  <2>1. CASE Begun
    <3> HIDE DEF Begun
    <3> QED BY <2>1, <1>2 DEF Mail
  <2>2. CASE Cur(Head(rxq))
    <3>1. 1 \in DOMAIN rxq /\ Cur(rxq[1]) BY <1>1, <2>2
    <3>2. \A i \in DOMAIN rxq' : i + 1 \in 1 + 1 .. Len(rxq) BY <1>1
    <3> QED BY <1>2, <3>1, <3>2 DEF Mail
  <2> QED BY <1>5, <2>1, <2>2
<1>6. \A i \in DOMAIN rxq' : Readable(rxq'[i]) BY <1>2 DEF Mail
<1>7. \A i \in DOMAIN sys'.out :
        /\ Readable(sys'.out[i])
        /\ Cur(sys'.out[i]) <=> sys'.tag = "cur"
        /\ Cur(sys'.out[i]) => sys'.out[i].n = sys'.out[1].n + i - 1
  BY DEF Mail
<1> HIDE DEF Begun
<1> QED BY <1>4, <1>5, <1>6, <1>7 DEF Mail, Harmless, Readable, Limit

LEMMA OrderTaken ==
  ASSUME TypeOK, InOrder, rxq # <<>>, rxq' = Tail(rxq), sys' = sys,
         Received' \in {0, IF Cur(Head(rxq)) THEN Head(rxq).n ELSE Received}
  PROVE  InOrder'
<1>1. rxq \in Seq(RxWords) /\ sys.out \in Seq(RxWords) /\ Received \in Nat
  BY TypesOf, ReceivedNat DEF PeerFields
<1>2. Head(rxq).n \in Nat /\ Tail(rxq) \in Seq(RxWords)
  <2>1. Head(rxq) \in RxWords /\ Tail(rxq) \in Seq(RxWords) BY <1>1, TailOf
  <2> QED BY <2>1 DEF RxWords
<1> DEFINE l == IF Cur(Head(rxq)) THEN Head(rxq).n ELSE Received
<1>3. l \in Nat BY <1>1, <1>2
<1>4. Ordered(Tail(rxq), sys.out, l)
  <2>1. Ordered(rxq, sys.out, Received) BY DEF InOrder
  <2> HIDE DEF Received
  <2> QED BY <1>1, <2>1, OrderedTail
<1> HIDE DEF l
<1>5. Ordered(Tail(rxq), sys.out, 0) BY <1>1, <1>2, <1>3, <1>4, OrderedForget
<1>6. Received' \in {0, l} BY DEF l
<1> QED BY <1>4, <1>5, <1>6 DEF InOrder

\* No byte of the answer is left behind its last one.
LEMMA NoneLeft ==
  ASSUME TypeOK, Mail, NEW q \in Seq(RxWords), drv.req \in Requests,
         NEW k \in Nat, k >= Limit, Ordered(q, sys.out, k),
         \A i \in DOMAIN q : Readable(q[i])
  PROVE  /\ \A i \in DOMAIN q : ~Cur(q[i])
         /\ \A i \in DOMAIN sys.out : ~Cur(sys.out[i])
<1>1. Limit \in Nat BY LimitOf
<1>2. ASSUME NEW i \in DOMAIN q, Cur(q[i]) PROVE FALSE
  <2>1. q[i].n \in 1 .. Limit BY <1>2 DEF Readable
  <2>2. k < q[i].n BY <1>2 DEF Ordered, Follows
  <2> QED BY <2>1, <2>2, <1>1
<1>3. ASSUME NEW i \in DOMAIN sys.out, Cur(sys.out[i]) PROVE FALSE
  <2>1. sys.out \in Seq(RxWords) BY TypesOf DEF PeerFields
  <2>2. sys.out # <<>> /\ 1 \in DOMAIN sys.out BY <2>1
  <2>3. Cur(sys.out[1]) BY <1>3, <2>2 DEF Mail
  <2>4. sys.out[1].n \in 1 .. Limit BY <2>2, <2>3 DEF Mail, Readable
  <2>5. k < sys.out[1].n BY <2>2, <2>3 DEF Ordered, Follows
  <2> QED BY <2>4, <2>5, <1>1
<1> QED BY <1>2, <1>3

LEMMA OrderedNone ==
  ASSUME NEW q, NEW out, NEW k, out \in Seq(RxWords),
         \A i \in DOMAIN q : ~Cur(q[i]), \A i \in DOMAIN out : ~Cur(out[i])
  PROVE  Ordered(q, out, k)
<1>1. out # <<>> => 1 \in DOMAIN out OBVIOUS
<1> QED BY <1>1 DEF Ordered

LEMMA LastOfOne ==
  ASSUME NEW w
  PROVE  Last(<<w>>) = w /\ <<w>> # <<>> /\ Len(<<w>>) = 1 /\ DOMAIN <<w>> = {1} /\ <<w>>[1] = w
BY DEF Last

---------------------------------------------------------------------------
(* Each step keeps the invariant: the driver.                              *)

Kept == Control' /\ Frames' /\ Mail' /\ Alone' /\ InOrder' /\ Outcome'

LEMMA SendKeeps ==
  ASSUME IInv, NEW r \in Requests, Send(r), r.op \notin Owed
  PROVE  Kept
<1> USE DEF IInv
<1>1. /\ rxq \in Seq(RxWords) /\ txq \in Seq(TxWords) /\ sys.out \in Seq(RxWords)
      /\ sys \in Peer /\ drv \in Globals
  BY TypesOf DEF PeerFields
<1>2. Unflushed \in Seq(TxWords) /\ (Unflushed = <<>> \/ Unflushed = txq)
  BY <1>1 DEF Unflushed
<1>3. /\ rxq' = Aged(rxq) /\ txq' = Aged(Unflushed)
      /\ sys' = [sys EXCEPT !.tag = "old", !.out = Aged(sys.out)]
      /\ cpu' = "opcode" /\ en' = {}
      /\ drv' = [drv EXCEPT !.req = r, !.cmd = r.size, !.data = r.data,
                            !.pages = r.pages, !.rx = <<>>, !.handler = r.handler,
                            !.prog = TRUE]
      /\ "CONFUSABLE" \notin Hazards => Distinguishable(r)
  BY DEF Send, Allowed
<1>4. /\ drv'.req = r /\ drv'.handler = r.handler /\ drv'.prog = TRUE /\ drv'.rx = <<>>
      /\ sys'.tag = "old" /\ sys'.out = Aged(sys.out) /\ sys'.req = sys.req
  BY <1>1, <1>3 DEF Globals, Peer
<1>5. ~Begun' BY <1>3
<1>6. /\ \A i \in DOMAIN rxq : rxq[i].val # r.op
      /\ \A i \in DOMAIN sys.out : sys.out[i].val # r.op
      /\ sys.req.op # r.op
      /\ \A i \in DOMAIN Unflushed : Unflushed[i].req.op # r.op
  BY DEF Owed, Range
<1>7. /\ DOMAIN rxq' = DOMAIN rxq /\ DOMAIN sys'.out = DOMAIN sys.out
      /\ \A i \in DOMAIN rxq : ~Cur(rxq'[i])
      /\ \A i \in DOMAIN sys.out : ~Cur(sys'.out[i])
  BY <1>1, <1>3, <1>4, AgedRx
<1>8. /\ \A i \in DOMAIN rxq :
           /\ rxq'[i].cmd = rxq[i].cmd /\ rxq'[i].val = rxq[i].val
           /\ rxq'[i].tag = IF Cur(rxq[i]) THEN "old" ELSE rxq[i].tag
      /\ \A i \in DOMAIN sys.out :
           /\ sys'.out[i].cmd = sys.out[i].cmd /\ sys'.out[i].val = sys.out[i].val
           /\ sys'.out[i].tag = IF Cur(sys.out[i]) THEN "old" ELSE sys.out[i].tag
  BY <1>1, <1>3, <1>4, AgedRx
<1>9. /\ DOMAIN txq' = DOMAIN Unflushed
      /\ \A i \in DOMAIN Unflushed :
           /\ txq'[i].first = Unflushed[i].first /\ txq'[i].req = Unflushed[i].req
           /\ txq'[i].tag = "old"
  BY <1>2, <1>3, AgedTx
<1>10. Control'
  <2>1. r.handler # "none" OBVIOUS
  <2> QED BY <1>3, <1>4, <1>5, <2>1 DEF Control
<1>11. Frames'
  <2>1. sys'.req # NoReq => sys'.out = <<>> /\ sys'.req.op # drv'.req.op
    <3>1. sys.out = <<>> => Aged(sys.out) = <<>> BY DEF Aged
    <3> QED BY <1>4, <1>6, <3>1 DEF Frames
  <2>2. ASSUME NEW i \in DOMAIN txq', txq'[i].first
        PROVE  /\ txq'[i].req \in Requests /\ ~Cur(txq'[i])
               /\ txq'[i].req.op # drv'.req.op
    <3>1. i \in DOMAIN Unflushed /\ Unflushed[i].first BY <1>9, <2>2
    <3>2. Unflushed[i].req \in Requests
      <4>1. Unflushed # <<>> BY <3>1, <1>2
      <4>2. Unflushed = txq BY <4>1, <1>2
      <4> QED BY <3>1, <4>2 DEF Frames
    <3> QED BY <1>4, <1>6, <1>9, <3>1, <3>2
  <2> QED BY <1>4, <2>1, <2>2 DEF Frames
<1>12. Mail'
  <2>1. \A i \in DOMAIN rxq' :
          /\ ~Cur(rxq'[i])
          /\ rxq'[i].tag = "old" /\ rxq'[i].cmd => rxq'[i].val # drv'.req.op
          /\ rxq'[i].tag = "event" => rxq'[i].val \in Unsolicited
    <3>1. \A i \in DOMAIN rxq : rxq[i].tag = "event" => rxq[i].val \in Unsolicited
      BY DEF Mail, Readable
    <3> QED BY <1>4, <1>6, <1>7, <1>8, <3>1
  <2>2. \A i \in DOMAIN sys'.out :
          /\ ~Cur(sys'.out[i])
          /\ sys'.out[i].tag = "old" /\ sys'.out[i].cmd => sys'.out[i].val # drv'.req.op
          /\ sys'.out[i].tag = "event" => sys'.out[i].val \in Unsolicited
    <3>1. \A i \in DOMAIN sys.out : sys.out[i].tag = "event" => sys.out[i].val \in Unsolicited
      BY DEF Mail, Readable
    <3> QED BY <1>4, <1>6, <1>7, <1>8, <3>1
  <2> HIDE DEF Begun
  <2> QED BY <1>4, <1>5, <2>1, <2>2 DEF Mail, Readable
<1>13. Alone'
  <2> SUFFICES ASSUME r.kind = "paged", "CONFUSABLE" \notin Hazards
               PROVE  rxq = <<>> /\ sys.out = <<>> /\ sys.req = NoReq
                      /\ \A i \in DOMAIN Unflushed : ~Unflushed[i].first
    BY <1>4, <1>7, <1>9 DEF Alone
  <2>1. Owed \subseteq {"none"} BY <1>3 DEF Distinguishable
  <2>2. \A w \in RxWords : w.val # "none"
    <3>1. \A w \in RxWords : w.val \in {q.op : q \in Requests} \cup Unsolicited \cup {"byte"}
      BY Zenon DEF RxWords
    <3>2. "none" \notin {q.op : q \in Requests} OBVIOUS
    <3> QED BY <3>1, <3>2 DEF Unsolicited, POR_DIGEST_ERROR_OPCODE
  <2>3. ASSUME NEW q \in Seq(RxWords), \A w \in Range(q) : w.val \in Owed
        PROVE  q = <<>>
    <3>1. SUFFICES ASSUME q # <<>> PROVE FALSE OBVIOUS
    <3>2. q[1] \in RxWords /\ 1 \in DOMAIN q BY <3>1
    <3>3. q[1] \in Range(q) BY <3>2 DEF Range
    <3> QED BY <2>1, <2>2, <2>3, <3>2, <3>3
  <2>4. rxq = <<>> /\ sys.out = <<>> BY <1>1, <2>3 DEF Owed
  <2>5. sys.req = NoReq
    <3>1. sys.req.op = "none" BY <2>1 DEF Owed
    <3>2. sys.req \in Requests \cup {NoReq} BY <1>1 DEF Peer
    <3> QED BY <3>1, <3>2
  <2>6. ASSUME NEW i \in DOMAIN Unflushed, Unflushed[i].first PROVE FALSE
    <3>1. Unflushed[i].req \in Requests
      <4>1. Unflushed # <<>> BY <1>2
      <4>2. Unflushed = txq BY <4>1, <1>2
      <4> QED BY <2>6, <4>2 DEF Frames
    <3>2. Unflushed[i].req.op = "none" BY <2>1 DEF Owed
    <3> QED BY <3>1, <3>2
  <2> QED BY <2>4, <2>5, <2>6
<1>14. InOrder'
  <2>1. Ordered(rxq', sys'.out, 0)
    <3>1. sys'.out \in Seq(RxWords) BY <1>1, <1>4, AgedRx
    <3> QED BY <1>7, <3>1, OrderedNone
  <2> HIDE DEF Begun
  <2> QED BY <1>5, <2>1 DEF InOrder, Received
<1>15. Outcome'
  BY DEF Send, Called, Nobody, Outcome, AnswerIsOwn, NothingLeftBehind
<1> QED BY <1>10, <1>11, <1>12, <1>13, <1>14, <1>15 DEF Kept

LEMMA SendOpcodeKeeps ==
  ASSUME Legible, IInv, SendOpcode
  PROVE  Kept
<1> USE DEF IInv, SendOpcode
<1>1. Control' BY DEF Control
<1>2. Frames'
  BY SMTT(30) DEF TypeOK, Globals, Peer, TxWords, NoReq, Control, Frames
<1>3. Mail' BY MailSame
<1>4. Alone' BY DEF Alone, Harmless, NoReq
<1>5. InOrder' BY DEF InOrder, Received
<1>6. Outcome' BY DEF Outcome, AnswerIsOwn, NothingLeftBehind, Nobody
<1> QED BY <1>1, <1>2, <1>3, <1>4, <1>5, <1>6 DEF Kept

LEMMA SendPointerKeeps ==
  ASSUME Legible, IInv, SendPointer
  PROVE  Kept
<1> USE DEF IInv, SendPointer
<1>1. /\ drv'.req = drv.req /\ drv'.handler = drv.handler /\ drv'.prog = drv.prog
      /\ drv'.state = "WAIT_RESPONSE" /\ drv'.rx = drv.rx
  BY TypesOf DEF Globals
<1>2. Control' BY <1>1 DEF Control
<1>3. Frames' BY <1>1 DEF Frames, Word
<1>4. Mail' BY <1>1, MailSame
<1>5. Alone' BY <1>1 DEF Alone, Harmless, Word
<1>6. InOrder' BY <1>1, OrderSame DEF Received
<1>7. Outcome' BY DEF Outcome, AnswerIsOwn, NothingLeftBehind, Nobody
<1> QED BY <1>2, <1>3, <1>4, <1>5, <1>6, <1>7 DEF Kept

LEMMA FillWordKeeps ==
  ASSUME Legible, IInv, FillWord
  PROVE  Kept
<1> USE DEF IInv, FillWord
<1>1. /\ drv'.req = drv.req /\ drv'.handler = drv.handler /\ drv'.prog = drv.prog
      /\ drv'.state = drv.state /\ drv'.rx = drv.rx
  BY TypesOf DEF Globals, Filling
<1>2. Control' BY <1>1 DEF Control, EndsDigestError, Limit
<1>3. Frames' BY <1>1 DEF Frames, Word
<1>4. Mail' BY <1>1, MailSame
<1>5. Alone' BY <1>1 DEF Alone, Harmless, Word
<1>6. InOrder' BY <1>1, OrderSame DEF Received
<1>7. Outcome' BY DEF Outcome, AnswerIsOwn, NothingLeftBehind, Nobody
<1> QED BY <1>2, <1>3, <1>4, <1>5, <1>6, <1>7 DEF Kept

LEMMA CommandFilledKeeps ==
  ASSUME Legible, IInv, CommandFilled
  PROVE  Kept
<1> USE DEF IInv
<1>1. PICK s \in States :
        /\ drv' = [drv EXCEPT !.state = s]
        /\ \/ s \in {"TX_CMD", "TX_DATA", "WAIT_RESPONSE"}
           \/ s = "TX_PAGED_DATA" /\ drv.req.kind = "paged"
  <2>1. CASE drv.req.kind = "cmd"
    <3> DEFINE s == IF drv.cmd > 0 THEN "TX_CMD" ELSE AfterCommand
    <3>1. s \in {"TX_CMD", "TX_DATA", "WAIT_RESPONSE"} BY DEF AfterCommand
    <3>2. drv' = [drv EXCEPT !.state = s] BY <2>1 DEF CommandFilled
    <3>3. s \in States BY <3>1 DEF States
    <3> WITNESS s \in States
    <3> QED BY Zenon, <3>1, <3>2, <3>3
  <2>2. CASE drv.req.kind = "paged"
    BY <2>2 DEF CommandFilled, States
  <2> QED BY <2>1, <2>2 DEF CommandFilled
<1>2. /\ drv'.req = drv.req /\ drv'.handler = drv.handler /\ drv'.prog = drv.prog
      /\ drv'.state = s /\ drv'.rx = drv.rx
  BY <1>1, TypesOf DEF Globals
<1> USE DEF CommandFilled
<1>3. Control' BY <1>1, <1>2 DEF Control
<1>4. Frames' BY <1>2 DEF Frames
<1>5. Mail' BY <1>1, <1>2, MailSame
<1>6. Alone' BY <1>2 DEF Alone, Harmless
<1>7. InOrder' BY <1>1, <1>2, OrderSame DEF Received
<1>8. Outcome' BY DEF Outcome, AnswerIsOwn, NothingLeftBehind, Nobody
<1> QED BY <1>3, <1>4, <1>5, <1>6, <1>7, <1>8 DEF Kept

LEMMA TxCommandKeeps ==
  ASSUME Legible, IInv, TxCommand
  PROVE  Kept
<1> USE DEF IInv, TxCommand, Transmit
<1>1. Control' BY DEF Control, EndsDigestError, Limit
<1>2. Frames' BY DEF Frames
<1>3. Mail' BY MailSame
<1>4. Alone' BY DEF Alone, Harmless
<1>5. InOrder' BY OrderSame DEF Received
<1>6. Outcome' BY DEF Outcome, AnswerIsOwn, NothingLeftBehind, Nobody
<1> QED BY <1>1, <1>2, <1>3, <1>4, <1>5, <1>6 DEF Kept

LEMMA IsrCommandFilledKeeps ==
  ASSUME Legible, IInv, IsrCommandFilled
  PROVE  Kept
<1> USE DEF IInv, IsrCommandFilled
<1>1. drv.state = "TX_CMD" BY DEF Control
<1>2. /\ drv'.req = drv.req /\ drv'.handler = drv.handler /\ drv'.prog = drv.prog
      /\ drv'.state \in {"TX_CMD", "TX_DATA", "WAIT_RESPONSE"} /\ drv'.rx = drv.rx
  BY <1>1, TypesOf DEF Globals, AfterCommand
<1>3. Control' BY <1>1, <1>2 DEF Control
<1>4. Frames' BY <1>2 DEF Frames
<1>5. Mail' BY <1>2, MailSame
<1>6. Alone' BY <1>2 DEF Alone, Harmless
<1>7. InOrder' BY <1>2, OrderSame DEF Received
<1>8. Outcome' BY DEF Outcome, AnswerIsOwn, NothingLeftBehind, Nobody
<1> QED BY <1>3, <1>4, <1>5, <1>6, <1>7, <1>8 DEF Kept

LEMMA TxPagedKeeps ==
  ASSUME Legible, IInv, TxPaged
  PROVE  Kept
<1> USE DEF IInv, TxPaged, Transmit
<1>1. /\ drv'.req = drv.req /\ drv'.handler = drv.handler /\ drv'.prog = drv.prog
      /\ drv'.rx = drv.rx
      /\ drv'.state \in {"TX_PAGED_DATA", "WAIT_RESPONSE"}
      /\ cpu' = "isr_data" => drv'.state = "TX_PAGED_DATA"
      /\ cpu' \in {"idle", "isr_data"}
  <2>1. drv \in Globals /\ drv.state = "TX_PAGED_DATA" BY TypesOf
  <2>2. CASE drv.data = 0 /\ drv.pages = 0 BY <2>1, <2>2 DEF Globals
  <2>3. CASE ~(drv.data = 0 /\ drv.pages = 0) /\ drv.data > 0 BY <2>1, <2>3
  <2>4. CASE ~(drv.data = 0 /\ drv.pages = 0) /\ ~(drv.data > 0)
    <3>1. drv' = [drv EXCEPT !.data = Page, !.pages = @ - 1] /\ cpu' = "isr_data"
      BY <2>4
    <3> QED BY <2>1, <3>1 DEF Globals
  <2> QED BY <2>2, <2>3, <2>4
<1>2. ~Sending /\ Busy /\ drv.state = "TX_PAGED_DATA" /\ UNCHANGED <<txq, rxq, sys>>
  BY DEF Control
<1>3. Control' BY <1>1, <1>2 DEF Control
<1>4. Frames' BY <1>1, <1>2 DEF Frames
<1>5. Mail' BY <1>1, <1>2, MailSame
<1>6. Alone' BY <1>1, <1>2 DEF Alone, Harmless
<1>7. InOrder' BY <1>1, <1>2, OrderSame DEF Received
<1>8. Outcome' BY DEF Outcome, AnswerIsOwn, NothingLeftBehind, Nobody
<1> QED BY <1>3, <1>4, <1>5, <1>6, <1>7, <1>8 DEF Kept

LEMMA IsrDataFilledKeeps ==
  ASSUME Legible, IInv, IsrDataFilled
  PROVE  Kept
<1> USE DEF IInv, IsrDataFilled
<1>1. Control' BY DEF Control, EndsDigestError, Limit
<1>2. Frames' BY DEF Frames
<1>3. Mail' BY MailSame
<1>4. Alone' BY DEF Alone, Harmless
<1>5. InOrder' BY OrderSame DEF Received
<1>6. Outcome' BY DEF Outcome, AnswerIsOwn, NothingLeftBehind, Nobody
<1> QED BY <1>1, <1>2, <1>3, <1>4, <1>5, <1>6 DEF Kept

LEMMA TxUnexpectedKeeps ==
  ASSUME Legible, IInv, TxUnexpected
  PROVE  Kept
<1> USE DEF IInv
<1>1. /\ drv' = Completed([drv EXCEPT !.state = "IDLE"]) /\ done' = Called("short")
      /\ cpu' = "idle" /\ UNCHANGED <<txq, rxq, sys>>
      /\ cpu \in {"idle", "tx"}
  BY DEF TxUnexpected, Transmit
<1>2. /\ drv'.state = "IDLE" /\ drv'.req = drv.req /\ drv'.handler = "none"
      /\ drv'.prog <=> (drv.prog /\ ~Busy)
  BY <1>1, Ended
<1>3. Control' BY <1>1, <1>2 DEF Control
<1>4. Frames' BY <1>1, <1>2 DEF Frames
<1>5. Mail' BY <1>1, <1>2, MailSame
<1>6. Alone' BY <1>1, <1>2 DEF Alone
<1>7. InOrder' BY <1>1, <1>2, OrderSame DEF Received
<1>8. Outcome' BY <1>1 DEF Outcome, AnswerIsOwn, NothingLeftBehind, Called, Nobody
<1> QED BY <1>3, <1>4, <1>5, <1>6, <1>7, <1>8 DEF Kept

LEMMA RxIdleKeeps ==
  ASSUME Legible, IInv, RxIdle
  PROVE  Kept
<1> USE DEF IInv
<1>1. /\ cpu = "idle" /\ drv.state = "IDLE" /\ rxq # <<>> /\ rxq' = Tail(rxq)
      /\ cpu' \in {"tx", "idle"} /\ UNCHANGED <<en, txq, sys>> /\ done' = Nobody
  BY DEF RxIdle, Receive, RxPending
<1>2. ~Busy BY <1>1 DEF Control
<1>3. /\ drv'.req = drv.req /\ drv'.handler = drv.handler /\ drv'.prog = drv.prog
      /\ \/ drv'.state = "IDLE"
         \/ /\ drv'.state = "RX_RESPONSE" /\ drv'.rx = <<Head(rxq)>>
            /\ Head(rxq).val = POR_DIGEST_ERROR_OPCODE
  <2>1. drv \in Globals BY TypesOf
  <2>2. CASE Head(rxq).cmd /\ Head(rxq).val = POR_DIGEST_ERROR_OPCODE
    BY <2>1, <2>2 DEF RxIdle, Globals
  <2>3. CASE ~(Head(rxq).cmd /\ Head(rxq).val = POR_DIGEST_ERROR_OPCODE)
    BY <2>3, <1>1 DEF RxIdle
  <2> QED BY <2>2, <2>3
<1>4. Control'
  <2>1. drv'.state = "RX_RESPONSE" => drv'.rx # <<>> /\ EndsDigestError'
    BY <1>3, LastOfOne DEF EndsDigestError
  <2> QED BY <1>1, <1>2, <1>3, <2>1 DEF Control
<1>5. Frames' BY <1>1, <1>3 DEF Frames
<1>6. Mail' BY <1>1, <1>2, <1>3, MailTaken
<1>7. Alone' BY <1>1, <1>2, <1>3 DEF Alone
<1>8. InOrder' BY <1>1, <1>2, <1>3, OrderTaken DEF Received
<1>9. Outcome' BY <1>1 DEF Outcome, AnswerIsOwn, NothingLeftBehind, Nobody
<1> QED BY <1>4, <1>5, <1>6, <1>7, <1>8, <1>9 DEF Kept

\* Taking the first word leaves a paged command alone.
LEMMA AloneTaken ==
  ASSUME TypeOK, Alone, rxq # <<>>, rxq' = Tail(rxq), UNCHANGED <<txq, sys>>,
         drv'.req = drv.req, Busy' => Busy
  PROVE  Alone'
<1>1. /\ Len(rxq) \in Nat \ {0} /\ DOMAIN rxq = 1 .. Len(rxq)
      /\ DOMAIN rxq' = 1 .. Len(rxq) - 1
      /\ \A i \in 1 .. Len(rxq) - 1 : rxq'[i] = rxq[i + 1]
  BY TypesOf, TailOf
<1>2. \A i \in DOMAIN rxq' : i + 1 \in DOMAIN rxq /\ rxq'[i] = rxq[i + 1] BY <1>1
<1> QED BY <1>2 DEF Alone, Harmless

\* The first word is of the answer when it is in the FIFO and starts with the opcode,
\* and then it is its first byte.
LEMMA StartIsOwn ==
  ASSUME TypeOK, Mail, InOrder, ~Begun, drv.req \in Requests, rxq # <<>>,
         StartsAnswer(Head(rxq))
  PROVE  Cur(Head(rxq)) /\ Head(rxq).n = 1
<1>1. /\ Head(rxq) = rxq[1] /\ 1 \in DOMAIN rxq /\ Head(rxq) \in RxWords
  BY TypesOf, TailOf
<1>2. Head(rxq).tag \in {"cur", "old", "event"}
  BY <1>1 DEF RxWords
<1>3. Readable(Head(rxq)) BY <1>1 DEF Mail
<1>4. Head(rxq).cmd /\ Head(rxq).val = drv.req.op BY DEF StartsAnswer
<1>5. drv.req.op \notin Unsolicited OBVIOUS
<1> QED BY <1>2, <1>3, <1>4, <1>5 DEF Readable

LEMMA RxWaitResponseKeeps ==
  ASSUME Legible, IInv, RxWaitResponse
  PROVE  Kept
<1> USE DEF IInv
<1>1. /\ cpu = "idle" /\ drv.state = "WAIT_RESPONSE" /\ rxq # <<>> /\ rxq' = Tail(rxq)
      /\ cpu' \in {"tx", "idle"} /\ UNCHANGED <<en, txq, sys>> /\ done' = Nobody
  BY DEF RxWaitResponse, Receive, RxPending
<1>2. Busy /\ drv.req \in Requests /\ ~Begun BY <1>1 DEF Control
<1>3. /\ drv'.req = drv.req /\ drv'.handler = drv.handler /\ drv'.prog = drv.prog
      /\ \/ drv'.state = "WAIT_RESPONSE" /\ ~StartsAnswer(Head(rxq))
         \/ /\ drv'.state = "RX_RESPONSE" /\ drv'.rx = <<Head(rxq)>>
            /\ StartsAnswer(Head(rxq))
  <2>1. drv \in Globals BY TypesOf
  <2>2. CASE StartsAnswer(Head(rxq))
    BY <2>1, <2>2 DEF RxWaitResponse, Globals
  <2>3. CASE ~StartsAnswer(Head(rxq))
    BY <2>3, <1>1 DEF RxWaitResponse
  <2> QED BY <2>2, <2>3
<1>4. ASSUME drv'.state = "RX_RESPONSE"
      PROVE  /\ drv'.rx = <<Head(rxq)>> /\ Cur(Head(rxq)) /\ Head(rxq).n = 1
             /\ Head(rxq).val # POR_DIGEST_ERROR_OPCODE
  <2>1. StartsAnswer(Head(rxq)) /\ drv'.rx = <<Head(rxq)>> BY <1>3, <1>4
  <2>2. Head(rxq).val = drv.req.op BY <2>1 DEF StartsAnswer
  <2>3. drv.req.op # POR_DIGEST_ERROR_OPCODE BY <1>2 DEF Unsolicited
  <2> QED BY <1>1, <1>2, <2>1, <2>2, <2>3, StartIsOwn
<1>5. Control'
  <2>1. drv'.state = "RX_RESPONSE" =>
          /\ Len(drv'.rx) = 1 /\ drv'.rx # <<>> /\ ~EndsDigestError'
          /\ \A i \in DOMAIN drv'.rx : Cur(drv'.rx[i]) /\ drv'.rx[i].n = i
    <3> SUFFICES ASSUME drv'.state = "RX_RESPONSE"
                 PROVE  /\ Len(drv'.rx) = 1 /\ drv'.rx # <<>> /\ ~EndsDigestError'
                        /\ \A i \in DOMAIN drv'.rx : Cur(drv'.rx[i]) /\ drv'.rx[i].n = i
      OBVIOUS
    <3>1. drv'.rx = <<Head(rxq)>> BY <1>4
    <3>2. Last(drv'.rx) = Head(rxq) /\ Len(drv'.rx) = 1 /\ DOMAIN drv'.rx = {1}
          /\ drv'.rx[1] = Head(rxq) /\ drv'.rx # <<>>
      BY Zenon, <3>1, LastOfOne
    <3> QED BY <1>4, <3>2 DEF EndsDigestError
  <2>2. 1 < Limit' /\ Limit' = Limit BY <1>2, <1>3, LimitOf DEF Limit
  <2> QED BY <1>1, <1>2, <1>3, <2>1, <2>2 DEF Control
<1>6. Frames' BY <1>1, <1>3 DEF Frames
<1>7. Mail' BY <1>1, <1>2, <1>3, <1>4, MailTaken
<1>8. Alone' BY <1>1, <1>2, <1>3, AloneTaken
<1>9. InOrder'
  <2>1. CASE drv'.state = "RX_RESPONSE"
    <3>1. Received' = 1 BY <1>1, <1>2, <1>3, <1>4, <2>1 DEF Received
    <3> QED BY <1>1, <1>4, <2>1, <3>1, OrderTaken
  <2>2. CASE drv'.state # "RX_RESPONSE" BY <1>1, <2>2, OrderTaken DEF Received
  <2> QED BY <2>1, <2>2
<1>10. Outcome' BY <1>1 DEF Outcome, AnswerIsOwn, NothingLeftBehind, Nobody
<1> QED BY <1>5, <1>6, <1>7, <1>8, <1>9, <1>10 DEF Kept

\* A byte that comes while an answer is received is the next one of that answer.
LEMMA NextByte ==
  ASSUME Legible, IInv, Begun, rxq # <<>>, ~Head(rxq).cmd
  PROVE  /\ Cur(Head(rxq)) /\ Head(rxq).n = Len(drv.rx) + 1
         /\ Head(rxq).val = "byte" /\ Head(rxq).n \in 1 .. Limit
         /\ sys.tag = "cur" /\ sys.req = NoReq
<1> USE DEF IInv
<1>1. /\ Head(rxq) = rxq[1] /\ 1 \in DOMAIN rxq /\ Head(rxq) \in RxWords
      /\ drv.rx \in Seq(RxWords) /\ Len(drv.rx) \in Nat /\ drv.rx # <<>>
  <2>1. drv.rx # <<>> BY DEF Control
  <2> QED BY <2>1, TypesOf, TailOf DEF GlobalFields
<1>2. Harmless(Head(rxq)) /\ sys.tag = "cur" /\ sys.req = NoReq
  <2> HIDE DEF Begun
  <2> QED BY <1>1 DEF Mail
<1>3. Cur(Head(rxq)) BY <1>2 DEF Harmless
<1>4. Follows(Head(rxq).n, rxq, 1, Len(drv.rx))
  BY <1>1, <1>3 DEF InOrder, Ordered, Received
<1>5. Head(rxq).n = Len(drv.rx) + 1
  <2>1. 1 .. 1 - 1 = {} OBVIOUS
  <2>2. Len(drv.rx) # 0 BY <1>1
  <2> QED BY <1>4, <2>1, <2>2 DEF Follows
<1>6. Readable(Head(rxq)) BY <1>1 DEF Mail
<1> QED BY <1>1, <1>2, <1>3, <1>5, <1>6 DEF Readable

LEMMA RxResponseKeeps ==
  ASSUME Legible, IInv, RxResponse
  PROVE  Kept
<1> USE DEF IInv
<1>1. /\ cpu = "idle" /\ drv.state = "RX_RESPONSE" /\ rxq # <<>> /\ rxq' = Tail(rxq)
      /\ cpu' \in {"tx", "idle"} /\ UNCHANGED <<en, txq, sys>>
  BY DEF RxResponse, Receive, RxPending
<1>2. /\ drv \in Globals /\ drv.rx \in Seq(RxWords) /\ Len(drv.rx) \in Nat \ {0}
      /\ Head(rxq) \in RxWords
  <2>1. drv.rx # <<>> BY <1>1 DEF Control
  <2> QED BY <2>1, <1>1, TypesOf, TailOf DEF GlobalFields
<1>3. Busy <=> ~EndsDigestError BY <1>1 DEF Control
<1>4. Busy => Begun /\ drv.req \in Requests BY <1>1 DEF Control
<1>5. CASE drv' = drv /\ done' = Nobody /\ Head(rxq).cmd
  <2>1. ~Cur(Head(rxq)) \/ ~Begun
    <3> SUFFICES ASSUME Begun, Cur(Head(rxq)) PROVE FALSE OBVIOUS
    <3>1. /\ Head(rxq) = rxq[1] /\ 1 \in DOMAIN rxq BY <1>1, TypesOf, TailOf
    <3>2. Follows(Head(rxq).n, rxq, 1, Len(drv.rx))
      BY <3>1 DEF InOrder, Ordered, Received
    <3>3. Readable(Head(rxq)) BY <3>1 DEF Mail
    <3>4. Head(rxq).n = 1 BY <1>5, <3>3 DEF Readable
    <3> QED BY <1>2, <3>2, <3>4 DEF Follows
  <2>2. Control' BY <1>1, <1>5 DEF Control, EndsDigestError, Limit
  <2>3. Frames' BY <1>1, <1>5 DEF Frames
  <2>4. Mail' BY <1>1, <1>5, MailTaken
  <2>5. Alone' BY <1>1, <1>5, AloneTaken
  <2>6. InOrder'
    <3>1. Received' \in {0, Received} /\ (~Begun => Received' = 0)
      BY <1>1, <1>5 DEF Received
    <3> HIDE DEF Begun
    <3> QED BY <1>1, <2>1, <3>1, OrderTaken
  <2>7. Outcome' BY <1>5 DEF Outcome, AnswerIsOwn, NothingLeftBehind, Nobody
  <2> QED BY <2>2, <2>3, <2>4, <2>5, <2>6, <2>7 DEF Kept
<1>6. CASE drv' = [drv EXCEPT !.state = "IDLE"] /\ done' = Nobody /\ EndsDigestError
  <2>1. drv'.req = drv.req /\ drv'.handler = "none" /\ drv'.prog = drv.prog /\ drv'.state = "IDLE"
    BY <1>2, <1>3, <1>6 DEF Globals
  <2>2. Control' BY <1>1, <1>3, <1>6, <2>1 DEF Control
  <2>3. Frames' BY <1>1, <2>1 DEF Frames
  <2>4. Mail' BY <1>1, <2>1, MailTaken
  <2>5. Alone' BY <2>1 DEF Alone
  <2>6. InOrder' BY <1>1, <2>1, OrderTaken DEF Received
  <2>7. Outcome' BY <1>6 DEF Outcome, AnswerIsOwn, NothingLeftBehind, Nobody
  <2> QED BY <2>2, <2>3, <2>4, <2>5, <2>6, <2>7 DEF Kept
<1>7. CASE ~Head(rxq).cmd /\ ~EndsDigestError
  <2>1. /\ Begun /\ Busy /\ drv.req \in Requests /\ Cur(Head(rxq))
        /\ Head(rxq).n = Len(drv.rx) + 1 /\ Head(rxq).val = "byte"
        /\ Head(rxq).n \in 1 .. Limit /\ sys.tag = "cur" /\ sys.req = NoReq
    BY <1>1, <1>3, <1>4, <1>7, NextByte
  <2>2. \A i \in DOMAIN drv.rx : Cur(drv.rx[i]) /\ drv.rx[i].n = i
    <3> HIDE DEF Begun
    <3> QED BY <2>1 DEF Control
  <2> DEFINE g == Grown(Head(rxq))
  <2>3. /\ drv.req.rsize # 0 => g = Append(drv.rx, Head(rxq)) /\ Len(g) = Len(drv.rx) + 1
        /\ drv.req.rsize = 0 => g = drv.rx /\ Len(drv.rx) = 1
    <3>1. Len(drv.rx) < Limit BY <2>1 DEF Control
    <3>2. CASE drv.req.rsize = 0
      <4>1. Limit = 2 BY <3>2 DEF Limit
      <4>2. Len(drv.rx) < 2 BY Zenon, <3>1, <4>1
      <4>3. Len(drv.rx) = 1
        <5>1. \A n \in Nat \ {0} : n < 2 => n = 1 OBVIOUS
        <5> QED BY Zenon, <1>2, <4>2, <5>1
      <4>4. g = drv.rx BY <3>2, <4>3 DEF Grown
      <4> QED BY <3>2, <4>3, <4>4
    <3>3. CASE drv.req.rsize # 0
      <4>1. Limit = drv.req.rsize BY <3>3 DEF Limit
      <4> QED BY <1>2, <3>1, <3>3, <4>1, AppendOf DEF Grown
    <3> QED BY <3>2, <3>3
  <2>4. /\ g # <<>> /\ Len(g) \in Nat
        /\ \A i \in DOMAIN g : Cur(g[i]) /\ g[i].n = i
        /\ Last(g).val # POR_DIGEST_ERROR_OPCODE
    <3>1. CASE drv.req.rsize = 0
      BY <1>2, <1>7, <2>2, <2>3, <3>1 DEF EndsDigestError
    <3>2. CASE drv.req.rsize # 0
      <4>1. /\ DOMAIN g = 1 .. Len(drv.rx) + 1 /\ g[Len(drv.rx) + 1] = Head(rxq)
            /\ \A i \in DOMAIN drv.rx : g[i] = drv.rx[i]
            /\ DOMAIN drv.rx = 1 .. Len(drv.rx) /\ Len(g) = Len(drv.rx) + 1
        BY SMTT(30), <1>2, <2>3, <3>2, AppendOf
      <4> HIDE DEF g
      <4>2. ASSUME NEW i \in DOMAIN g PROVE Cur(g[i]) /\ g[i].n = i
        <5>1. i \in DOMAIN drv.rx \/ i = Len(drv.rx) + 1 BY <1>2, <4>1
        <5> QED BY <2>1, <2>2, <4>1, <5>1
      <4>3. g # <<>> /\ Last(g) = Head(rxq) BY <1>2, <4>1 DEF Last
      <4> QED BY <1>2, <2>1, <4>1, <4>2, <4>3 DEF POR_DIGEST_ERROR_OPCODE
    <3> QED BY <3>1, <3>2
  <2>5. /\ Ordered(Tail(rxq), sys.out, Head(rxq).n) /\ Tail(rxq) \in Seq(RxWords)
        /\ Head(rxq).n \in Nat
    <3>1. /\ rxq \in Seq(RxWords) /\ sys.out \in Seq(RxWords) /\ Received \in Nat
      BY TypesOf, ReceivedNat DEF PeerFields
    <3>2. Head(rxq).n \in Nat BY <1>2, <2>1
    <3>3. Tail(rxq) \in Seq(RxWords) BY <1>1, <3>1, TailOf
    <3> HIDE DEF Received, Cur
    <3> QED BY <1>1, <2>1, <3>1, <3>2, <3>3, OrderedTail DEF InOrder
  <2>6. Head(rxq).n = Limit =>
          /\ \A i \in DOMAIN Tail(rxq) : ~Cur(Tail(rxq)[i])
          /\ \A i \in DOMAIN sys.out : ~Cur(sys.out[i])
    <3>1. \A i \in DOMAIN Tail(rxq) : Readable(Tail(rxq)[i])
      <4>1. /\ Len(rxq) \in Nat \ {0} /\ DOMAIN rxq = 1 .. Len(rxq)
            /\ DOMAIN Tail(rxq) = 1 .. Len(rxq) - 1
            /\ \A i \in 1 .. Len(rxq) - 1 : Tail(rxq)[i] = rxq[i + 1]
        BY <1>1, TypesOf, TailOf
      <4>2. \A i \in DOMAIN Tail(rxq) : i + 1 \in DOMAIN rxq /\ Tail(rxq)[i] = rxq[i + 1]
        BY <4>1
      <4> QED BY <4>2 DEF Mail
    <3>2. Limit >= Limit BY <2>1, LimitOf
    <3> QED BY <2>1, <2>5, <3>1, <3>2, NoneLeft
  <2>7. Limit \in Nat /\ drv.req.rsize \in Nat /\ drv.req.rsize # 1
        /\ Limit = IF drv.req.rsize = 0 THEN 2 ELSE drv.req.rsize
    BY <2>1, LimitOf
  <2>8. CASE Len(g) = drv.req.rsize
    <3>1. /\ drv' = Completed([drv EXCEPT !.rx = g, !.state = "IDLE"])
          /\ done' = Called(Worth(g))
      BY <1>7, <2>8 DEF RxResponse
    <3>2. /\ drv'.state = "IDLE" /\ drv'.req = drv.req /\ drv'.handler = "none"
          /\ drv'.prog = FALSE
      <4> HIDE DEF g
      <4> QED BY <1>2, <2>1, <3>1 DEF Completed, Globals
    <3>3. Head(rxq).n = Limit
      <4>1. drv.req.rsize # 0 BY <2>4, <2>8
      <4> QED BY <2>1, <2>3, <2>7, <2>8, <4>1
    <3>4. done'.answer = "own"
      <4>1. Worth(g) = "own"
        <5> HIDE DEF g
        <5>1. \A i \in 1 .. Len(g) : i \in DOMAIN g \/ g = <<>> OBVIOUS
        <5> QED BY <2>4, <2>7, <2>8 DEF Worth
      <4> QED BY <2>1, <3>1, <4>1 DEF Called
    <3>5. Control' BY <1>1, <3>2 DEF Control
    <3>6. Frames' BY <1>1, <3>2 DEF Frames
    <3>7. Mail' BY <1>1, <3>2, MailTaken
    <3>8. Alone' BY <3>2 DEF Alone
    <3>9. InOrder' BY <1>1, <3>2, OrderTaken DEF Received
    <3>10. Outcome'
      BY <1>1, <2>1, <2>6, <3>3, <3>4 DEF Outcome, AnswerIsOwn, NothingLeftBehind, Range
    <3> QED BY <3>5, <3>6, <3>7, <3>8, <3>9, <3>10 DEF Kept
  <2>9. CASE Len(g) # drv.req.rsize
    <3>1. drv' = [drv EXCEPT !.rx = g] /\ done' = Nobody
      BY <1>7, <2>9 DEF RxResponse
    <3>2. /\ drv'.state = "RX_RESPONSE" /\ drv'.req = drv.req /\ drv'.rx = g
          /\ drv'.handler = drv.handler /\ drv'.prog = drv.prog
      <4> HIDE DEF g
      <4> QED BY <1>1, <1>2, <3>1 DEF Globals
    <3>3. Len(g) < Limit
      <4>1. CASE drv.req.rsize = 0
        <5>1. Limit = 2 BY <4>1 DEF Limit
        <5>2. Len(g) = 1 BY <2>3, <4>1
        <5>3. 1 < 2 OBVIOUS
        <5> QED BY Zenon, <5>1, <5>2, <5>3
      <4>2. CASE drv.req.rsize # 0 BY <2>1, <2>3, <2>7, <2>9, <4>2
      <4> QED BY <4>1, <4>2
    <3>4. Control'
      <4>1. Limit' = Limit /\ ~EndsDigestError' BY <2>4, <3>2 DEF Limit, EndsDigestError
      <4> HIDE DEF g
      <4> QED BY <1>1, <2>1, <2>4, <3>2, <3>3, <4>1 DEF Control
    <3>5. Frames' BY <1>1, <3>2 DEF Frames
    <3>6. Mail' BY <1>1, <2>1, <3>2, MailTaken
    <3>7. Alone' BY <1>1, <3>2, AloneTaken
    <3>8. InOrder'
      <4>1. Received' = Len(g) BY <1>1, <2>1, <3>2 DEF Received
      <4>2. CASE drv.req.rsize = 0
        <5>1. Head(rxq).n = Limit
          <6>1. Limit = 2 BY <4>2 DEF Limit
          <6>2. Head(rxq).n = Len(drv.rx) + 1 BY <2>1
          <6>3. Len(drv.rx) = 1 BY <2>3, <4>2
          <6> QED BY <6>1, <6>2, <6>3
        <5>2. sys.out \in Seq(RxWords) BY TypesOf DEF PeerFields
        <5>3. Ordered(Tail(rxq), sys.out, Len(g)) BY <2>6, <5>1, <5>2, OrderedNone
        <5> HIDE DEF g
        <5> QED BY <1>1, <4>1, <5>3 DEF InOrder
      <4>3. CASE drv.req.rsize # 0
        <5>1. Len(g) = Head(rxq).n BY <2>1, <2>3, <4>3
        <5> HIDE DEF g
        <5> QED BY <1>1, <2>5, <4>1, <5>1 DEF InOrder
      <4> QED BY <4>2, <4>3
    <3>9. Outcome' BY <3>1 DEF Outcome, AnswerIsOwn, NothingLeftBehind, Nobody
    <3> QED BY <3>4, <3>5, <3>6, <3>7, <3>8, <3>9 DEF Kept
  <2> QED BY <2>8, <2>9
<1> QED BY <1>5, <1>6, <1>7 DEF RxResponse

LEMMA RxPagedKeeps ==
  ASSUME Legible, IInv, RxPaged
  PROVE  Kept
<1> USE DEF IInv
<1>1. /\ cpu = "idle" /\ drv.state = "TX_PAGED_DATA" /\ rxq # <<>> /\ rxq' = Tail(rxq)
      /\ cpu' \in {"tx", "idle"} /\ UNCHANGED <<en, txq, sys>>
  BY DEF RxPaged, Receive, RxPending
<1>2. Busy /\ drv.req \in Requests /\ drv.req.kind = "paged" /\ ~Begun
  BY <1>1 DEF Control
<1>3. CASE drv' = drv /\ done' = Nobody
  <2>1. Control' BY <1>1, <1>3 DEF Control
  <2>2. Frames' BY <1>1, <1>3 DEF Frames
  <2>3. Mail' BY <1>1, <1>3, MailTaken
  <2>4. Alone' BY <1>1, <1>3, AloneTaken
  <2>5. InOrder' BY <1>1, <1>3, OrderTaken DEF Received
  <2>6. Outcome' BY <1>3 DEF Outcome, AnswerIsOwn, NothingLeftBehind, Nobody
  <2> QED BY <2>1, <2>2, <2>3, <2>4, <2>5, <2>6 DEF Kept
<1>4. CASE ~Head(rxq).cmd
  <2>1. /\ drv' = Completed([drv EXCEPT !.state = "IDLE"])
        /\ done' = Called(IF Cur(Head(rxq)) THEN "own" ELSE "foreign")
    BY <1>4 DEF RxPaged
  <2>2. /\ drv'.state = "IDLE" /\ drv'.req = drv.req /\ drv'.handler = "none"
        /\ drv'.prog = FALSE
    <3>1. drv'.prog <=> (drv.prog /\ ~Busy) BY <2>1, Ended
    <3>2. drv'.prog \in BOOLEAN BY <2>1, Ended
    <3> QED BY <1>2, <2>1, <3>1, <3>2, Ended
  <2>3. /\ Head(rxq) = rxq[1] /\ 1 \in DOMAIN rxq /\ Len(rxq) \in Nat \ {0}
        /\ DOMAIN rxq = 1 .. Len(rxq) /\ DOMAIN Tail(rxq) = 1 .. Len(rxq) - 1
        /\ \A i \in 1 .. Len(rxq) - 1 : Tail(rxq)[i] = rxq[i + 1]
        /\ Tail(rxq) \in Seq(RxWords)
    BY <1>1, TypesOf, TailOf
  <2>4. "CONFUSABLE" \notin Hazards => Cur(Head(rxq))
    BY <1>2, <1>4, <2>3 DEF Alone, Harmless
  <2>8. Control' BY <1>1, <2>2 DEF Control
  <2>9. Frames' BY <1>1, <2>2 DEF Frames
  <2>10. Mail' BY <1>1, <2>2, MailTaken
  <2>11. Alone' BY <2>2 DEF Alone
  <2>12. InOrder' BY <1>1, <2>2, OrderTaken DEF Received
  <2>13. SUFFICES Outcome' BY <2>8, <2>9, <2>10, <2>11, <2>12 DEF Kept
  <2>14. CASE ~Cur(Head(rxq))
    BY <1>2, <2>1, <2>2, <2>4, <2>14 DEF Outcome, NothingLeftBehind, Called
  <2>15. SUFFICES ASSUME Cur(Head(rxq)) PROVE Outcome' BY <2>14
  <2>5. sys.tag = "cur" /\ sys.req = NoReq BY <2>3, <2>15 DEF Mail
  <2>6. Head(rxq).n = Limit
    <3>1. Head(rxq).n \in 1 .. Limit /\ Head(rxq).n # 1
      BY <1>4, <2>3, <2>15 DEF Mail, Readable
    <3>2. drv.req.rsize <= 2 BY <1>2 DEF Legible
    <3> QED BY <1>2, <3>1, <3>2, LimitOf
  <2>7. /\ \A i \in DOMAIN Tail(rxq) : ~Cur(Tail(rxq)[i])
        /\ \A i \in DOMAIN sys.out : ~Cur(sys.out[i])
    <3>1. Ordered(Tail(rxq), sys.out, Head(rxq).n)
      <4>1. /\ rxq \in Seq(RxWords) /\ sys.out \in Seq(RxWords) /\ Received \in Nat
        BY TypesOf, ReceivedNat DEF PeerFields
      <4> HIDE DEF Received, Cur
      <4> QED BY <1>1, <2>15, <4>1, OrderedTail DEF InOrder
    <3>2. \A i \in DOMAIN Tail(rxq) : Readable(Tail(rxq)[i])
      <4>1. \A i \in DOMAIN Tail(rxq) : i + 1 \in DOMAIN rxq /\ Tail(rxq)[i] = rxq[i + 1]
        BY <2>3
      <4> QED BY <4>1 DEF Mail
    <3>3. Limit >= Limit /\ Limit \in Nat BY <1>2, LimitOf
    <3> QED BY <1>2, <2>3, <2>6, <3>1, <3>2, <3>3, NoneLeft
  <2> QED
    BY <1>1, <2>1, <2>5, <2>7, <2>15 DEF Outcome, AnswerIsOwn, NothingLeftBehind, Called, Range, Nobody
<1> QED BY <1>3, <1>4 DEF RxPaged

LEMMA RxSendingKeeps ==
  ASSUME Legible, IInv, RxSending
  PROVE  Kept
<1> USE DEF IInv, RxSending, Receive, RxPending
<1>1. ~Begun OBVIOUS
<1>2. Control' BY DEF Control
<1>3. Frames' BY DEF Frames
<1>4. Mail' BY MailTaken
<1>5. Alone' BY AloneTaken
<1>6. InOrder' BY OrderTaken DEF Received
<1>7. Outcome' BY DEF Outcome, AnswerIsOwn, NothingLeftBehind, Nobody
<1> QED BY <1>2, <1>3, <1>4, <1>5, <1>6, <1>7 DEF Kept

---------------------------------------------------------------------------
(* Each step keeps the invariant: the controller.                          *)

LEMMA TakeKeeps ==
  ASSUME Legible, IInv, Take
  PROVE  Kept
<1> USE DEF IInv
<1> DEFINE w == Head(txq)
<1>1. /\ txq # <<>> /\ sys.out = <<>> /\ txq' = Tail(txq)
      /\ UNCHANGED <<drv, cpu, en, rxq>> /\ done' = Nobody
  BY DEF Take
<1>2. /\ w = txq[1] /\ 1 \in DOMAIN txq /\ Len(txq) \in Nat \ {0}
      /\ DOMAIN txq = 1 .. Len(txq) /\ Len(txq') = Len(txq) - 1
      /\ DOMAIN txq' = 1 .. Len(txq) - 1
      /\ \A i \in 1 .. Len(txq) - 1 : txq'[i] = txq[i + 1]
      /\ w \in TxWords
  BY <1>1, TypesOf, TailOf
<1>3. w.tag \in {"cur", "old"} BY <1>2 DEF TxWords
<1>4. Control' BY <1>1 DEF Control, EndsDigestError, Limit
<1>5. Outcome' BY <1>1 DEF Outcome, AnswerIsOwn, NothingLeftBehind, Nobody
<1>6. ASSUME NEW i \in DOMAIN txq'
      PROVE  /\ i + 1 \in DOMAIN txq /\ txq'[i] = txq[i + 1]
             /\ \A j \in i + 1 .. Len(txq') :
                  j + 1 \in (i + 1) + 1 .. Len(txq) /\ txq'[j] = txq[j + 1]
  BY <1>2
<1>7. CASE w.first
  <2>1. sys.tag = "old" /\ w.req \in Requests
    BY <1>2, <1>7 DEF Frames
  <2>2. /\ sys'.req = w.req /\ sys'.tag = w.tag /\ sys'.out = sys.out
    BY <1>7, TypesOf DEF Take, Peer
  <2>3. ~Begun /\ (\A i \in DOMAIN rxq : ~Cur(rxq[i]))
    <3> HIDE DEF Begun
    <3> QED BY <2>1 DEF Mail
  <2>4. IF Cur(w)
        THEN /\ w.req = drv.req /\ drv.req \in Requests /\ cpu # "opcode"
             /\ \A j \in 1 + 1 .. Len(txq) : ~txq[j].first
        ELSE w.req.op # drv.req.op
    BY <1>2, <1>7 DEF Frames
  <2>5. Frames'
    <3>1. ASSUME NEW i \in DOMAIN txq', txq'[i].first
          PROVE  /\ ~Cur(w)
                 /\ txq'[i].req \in Requests
                 /\ IF Cur(txq'[i])
                    THEN /\ txq'[i].req = drv.req /\ drv.req \in Requests /\ cpu # "opcode"
                         /\ \A j \in i + 1 .. Len(txq') : ~txq'[j].first
                    ELSE txq'[i].req.op # drv.req.op
      <4>1. i + 1 \in 1 + 1 .. Len(txq) /\ txq[i + 1].first BY <1>2, <1>6, <3>1
      <4>2. ~Cur(w) BY <2>4, <4>1
      <4>3. /\ txq[i + 1].req \in Requests
            /\ IF Cur(txq[i + 1])
               THEN /\ txq[i + 1].req = drv.req /\ drv.req \in Requests /\ cpu # "opcode"
                    /\ \A j \in (i + 1) + 1 .. Len(txq) : ~txq[j].first
               ELSE txq[i + 1].req.op # drv.req.op
        BY <1>6, <4>1 DEF Frames
      <4> QED BY <1>6, <4>2, <4>3
    <3> HIDE DEF w
    <3>2. /\ w.tag = "cur" => drv.req \in Requests /\ cpu # "opcode"
          /\ IF w.tag = "cur" THEN w.req = drv.req ELSE w.req.op # drv.req.op
      BY <2>4
    <3> QED BY <1>1, <1>3, <2>2, <3>1, <3>2 DEF Frames
  <2>6. Mail'
    <3> HIDE DEF Begun
    <3>1. ~Begun' /\ drv' = drv BY <1>1, <2>3 DEF Begun
    <3> QED BY <1>1, <2>2, <2>3, <3>1 DEF Mail, Readable, Limit
  <2>7. Alone'
    <3>1. "CONFUSABLE" \notin Hazards /\ Busy /\ drv.req.kind = "paged" => w.tag = "cur"
      BY <1>2, <1>7 DEF Alone
    <3> HIDE DEF w
    <3> QED BY <1>1, <1>6, <2>2, <3>1 DEF Alone, Harmless
  <2>8. InOrder' BY <1>1, <2>2 DEF InOrder, Received
  <2> QED BY <1>4, <1>5, <2>5, <2>6, <2>7, <2>8 DEF Kept
<1>8. CASE ~w.first
  <2>1. sys'.req = sys.req /\ sys'.tag = sys.tag /\ sys'.out = sys.out
    <3>1. CASE sys.req # NoReq BY <1>8, <3>1, TypesOf DEF Take, Peer
    <3>2. CASE sys.req = NoReq BY <1>8, <3>2 DEF Take
    <3> QED BY <3>1, <3>2
  <2>2. Frames'
    <3>1. ASSUME NEW i \in DOMAIN txq', txq'[i].first
          PROVE  /\ sys.tag = "old" /\ txq'[i].req \in Requests
                 /\ IF Cur(txq'[i])
                    THEN /\ txq'[i].req = drv.req /\ drv.req \in Requests /\ cpu # "opcode"
                         /\ \A j \in i + 1 .. Len(txq') : ~txq'[j].first
                    ELSE txq'[i].req.op # drv.req.op
      <4>3. /\ sys.tag = "old" /\ txq[i + 1].req \in Requests
            /\ IF Cur(txq[i + 1])
               THEN /\ txq[i + 1].req = drv.req /\ drv.req \in Requests /\ cpu # "opcode"
                    /\ \A j \in (i + 1) + 1 .. Len(txq) : ~txq[j].first
               ELSE txq[i + 1].req.op # drv.req.op
        BY <1>6, <3>1 DEF Frames
      <4> QED BY SMTT(30), <1>6, <4>3
    <3> QED BY <1>1, <2>1, <3>1 DEF Frames
  <2>3. Mail'
    <3>1. Begun' <=> Begun BY <1>1
    <3> HIDE DEF Begun
    <3> QED BY <1>1, <2>1, <3>1 DEF Mail, Readable, Limit, Harmless
  <2>4. Alone' BY <1>1, <1>6, <2>1 DEF Alone, Harmless
  <2>5. InOrder' BY <1>1, <2>1 DEF InOrder, Received
  <2> QED BY <1>4, <1>5, <2>2, <2>3, <2>4, <2>5 DEF Kept
<1> QED BY <1>7, <1>8

\* The words of an answer to the command the controller has.
LEMMA MessageReadable ==
  ASSUME Legible, TypeOK, Frames, sys.req # NoReq, NEW length \in Nat,
         sys.tag = "cur" => length = drv.req.rsize \/ length = 2,
         NEW i \in 1 .. (IF length = 0 THEN 2 ELSE length)
  PROVE  LET v == Message(length, 0)[i]
         IN  Readable(v) /\ (Cur(v) <=> sys.tag = "cur") /\ v.n = i
<1>1. sys.req \in Requests /\ sys.tag \in {"cur", "old"}
  BY TypesOf DEF PeerFields
<1> DEFINE v == Message(length, 0)[i]
<1>2. /\ v.cmd <=> i = 1
      /\ v.tag = sys.tag /\ v.n = i
      /\ v.val = IF i = 1 THEN sys.req.op ELSE "byte"
  <2>1. 0 \in Nat /\ i # 0 OBVIOUS
  <2>2. /\ v.cmd <=> i = 1
        /\ v.tag = sys.tag /\ v.n = i
        /\ v.val = IF i = 1 THEN sys.req.op
                  ELSE IF i = 0 THEN POR_DIGEST_ERROR_OPCODE ELSE "byte"
    BY <2>1, MessageWord
  <2> QED BY Zenon, <2>1, <2>2
<1> HIDE DEF v
<1>3. ASSUME sys.tag = "cur" PROVE Readable(v)
  <2>1. sys.req = drv.req /\ drv.req \in Requests BY <1>3 DEF Frames
  <2>2. i \in 1 .. Limit BY <1>3, <2>1, LimitOf
  <2>3. v.tag = "cur" BY <1>2, <1>3
  <2>4. /\ v.n \in 1 .. Limit
        /\ v.cmd <=> v.n = 1
        /\ v.val = IF v.n = 1 THEN drv.req.op ELSE "byte"
    BY Zenon, <1>2, <2>1, <2>2
  <2> QED BY <2>3, <2>4 DEF Readable
<1>4. ASSUME sys.tag = "old" PROVE Readable(v)
  <2>1. sys.req.op # drv.req.op BY <1>4 DEF Frames
  <2>2. v.tag = "old" BY <1>2, <1>4
  <2>3. v.cmd => v.val = sys.req.op BY <1>2
  <2> QED BY <2>1, <2>2, <2>3 DEF Readable
<1> QED BY <1>1, <1>2, <1>3, <1>4 DEF v

\* It gives the answer.
LEMMA AnsweredKeeps ==
  ASSUME Legible, IInv, sys.req # NoReq, NEW length \in Nat,
         sys.tag = "cur" => length = drv.req.rsize \/ length = 2,
         sys' = [sys EXCEPT !.out = sys.out \o Message(length, 0), !.req = NoReq],
         done' = Nobody, UNCHANGED <<drv, cpu, en, txq, rxq>>
  PROVE  Kept
<1> USE DEF IInv
<1>1. sys.req \in Requests /\ sys.tag \in {"cur", "old"} /\ sys.out = <<>>
  BY TypesOf DEF PeerFields, Frames
<1> DEFINE out == Message(length, 0)
<1>2. /\ out \in Seq(RxWords) /\ Len(out) = IF length = 0 THEN 2 ELSE length
      /\ DOMAIN out = 1 .. Len(out)
      /\ \A i \in DOMAIN out : Readable(out[i]) /\ (Cur(out[i]) <=> sys.tag = "cur") /\ out[i].n = i
  <2>1. out \in Seq(RxWords) /\ Len(out) = IF length = 0 THEN 2 ELSE length
    BY <1>1, MessageOf
  <2>2. DOMAIN out = 1 .. Len(out) BY <2>1
  <2> HIDE DEF Cur
  <2> QED BY <2>1, <2>2, MessageReadable
<1> HIDE DEF out
<1>3. /\ sys'.req = NoReq /\ sys'.tag = sys.tag /\ sys'.out = out
  <2>1. <<>> \o out = out BY <1>2
  <2> QED BY <1>1, <2>1, TypesOf DEF Peer, out
<1>4. ~Begun /\ (\A i \in DOMAIN rxq : ~Cur(rxq[i]))
  <2> HIDE DEF Begun
  <2> QED BY DEF Mail
<1>5. Control' BY DEF Control, EndsDigestError, Limit
<1>6. Frames' BY <1>3 DEF Frames
<1>7. Mail'
  <2>1. ~Begun' /\ drv' = drv BY <1>4
  <2>2. \A i \in DOMAIN out : Cur(out[i]) => out[i].n = out[1].n + i - 1
    <3>1. out # <<>> => 1 \in DOMAIN out BY <1>2
    <3> QED BY <1>2, <3>1
  <2> HIDE DEF Begun
  <2>3. \A i \in DOMAIN rxq' : Readable(rxq'[i]) BY DEF Mail
  <2> HIDE DEF Cur
  <2>4. rxq' = rxq OBVIOUS
  <2>5. \A i \in DOMAIN sys'.out :
          /\ Readable(sys'.out[i])
          /\ Cur(sys'.out[i]) <=> sys'.tag = "cur"
          /\ Cur(sys'.out[i]) => sys'.out[i].n = sys'.out[1].n + i - 1
    BY <1>2, <1>3, <2>2
  <2>6. \A i \in DOMAIN rxq' : ~Cur(rxq'[i]) BY <1>4, <2>4
  <2>7. (\A i \in DOMAIN rxq : Readable(rxq[i]))'
    BY <2>1, <2>3 DEF Readable, Limit
  <2>8. (\A i \in DOMAIN sys.out :
            /\ Readable(sys.out[i])
            /\ Cur(sys.out[i]) <=> sys.tag = "cur"
            /\ Cur(sys.out[i]) => sys.out[i].n = sys.out[1].n + i - 1)'
    BY ZenonT(40), <2>1, <2>5 DEF Readable, Limit
  <2> QED BY <2>1, <2>6, <2>7, <2>8 DEF Mail
<1>8. Alone' BY <1>2, <1>3 DEF Alone, Harmless
<1>9. InOrder'
  <2>1. out # <<>> => 1 \in DOMAIN out BY <1>2
  <2>2. rxq \in Seq(RxWords) BY TypesOf
  <2>3. Ordered(rxq, out, 0) BY <1>2, <1>4, <2>1, <2>2, OrderedAnew
  <2> QED BY <1>3, <1>4, <2>3 DEF InOrder, Received
<1>10. Outcome' BY DEF Outcome, AnswerIsOwn, NothingLeftBehind, Nobody
<1> QED BY <1>5, <1>6, <1>7, <1>8, <1>9, <1>10 DEF Kept

LEMMA AnswerKeeps ==
  ASSUME Legible, IInv, Answer
  PROVE  Kept
<1>1. /\ sys.req # NoReq /\ done' = Nobody /\ UNCHANGED <<drv, cpu, en, txq, rxq>>
      /\ sys' = [sys EXCEPT !.out = sys.out \o Message(sys.req.rsize, 0), !.req = NoReq]
  <2>1. "DIGEST_BYTE" \notin Hazards BY DEF Legible
  <2> QED BY <2>1 DEF Answer
<1>2. sys.req \in Requests BY <1>1, TypesOf DEF IInv, PeerFields
<1>3. sys.req.rsize \in Nat BY <1>2
<1>4. sys.tag = "cur" => sys.req.rsize = drv.req.rsize
  BY <1>1 DEF IInv, Frames
<1> QED BY <1>1, <1>3, <1>4, AnsweredKeeps

LEMMA RefuseKeeps ==
  ASSUME Legible, IInv, Refuse
  PROVE  Kept
<1>1. /\ sys.req # NoReq /\ done' = Nobody /\ UNCHANGED <<drv, cpu, en, txq, rxq>>
      /\ sys' = [sys EXCEPT !.out = sys.out \o Message(2, 0), !.req = NoReq]
  BY DEF Refuse, NoReq
<1> QED BY <1>1, AnsweredKeeps

LEMMA EmitKeeps ==
  ASSUME Legible, IInv, Emit
  PROVE  Kept
<1> USE DEF IInv
<1> DEFINE w == Head(sys.out)
<1>1. /\ sys.out # <<>> /\ rxq' = Append(rxq, w) /\ done' = Nobody
      /\ UNCHANGED <<drv, cpu, en, txq>>
      /\ sys' = [sys EXCEPT !.out = Tail(sys.out)]
  BY DEF Emit
<1>2. sys'.req = sys.req /\ sys'.tag = sys.tag /\ sys'.out = Tail(sys.out)
  BY <1>1, TypesOf DEF Peer
<1>3. sys.req = NoReq BY <1>1 DEF Frames
<1>4. rxq \in Seq(RxWords) /\ sys.out \in Seq(RxWords)
  BY TypesOf DEF PeerFields
<1>5. /\ w = sys.out[1] /\ 1 \in DOMAIN sys.out /\ w \in RxWords
      /\ Len(sys.out) \in Nat /\ DOMAIN sys.out = 1 .. Len(sys.out)
      /\ DOMAIN sys'.out = 1 .. Len(sys.out) - 1
      /\ \A i \in 1 .. Len(sys.out) - 1 : sys'.out[i] = sys.out[i + 1]
  BY <1>1, <1>2, <1>4, TailOf
<1> HIDE DEF w
<1>6. /\ DOMAIN rxq = 1 .. Len(rxq) /\ DOMAIN rxq' = 1 .. Len(rxq) + 1
      /\ Len(rxq') = Len(rxq) + 1 /\ Len(rxq) \in Nat
      /\ \A i \in 1 .. Len(rxq) : rxq'[i] = rxq[i]
      /\ rxq'[Len(rxq) + 1] = w
  BY <1>1, <1>4, <1>5, AppendOf
<1>7. /\ Readable(w) /\ (Cur(w) <=> sys.tag = "cur")
  BY <1>5 DEF Mail
<1>8. Control' BY <1>1 DEF Control, EndsDigestError, Limit
<1>9. Frames' BY <1>1, <1>2, <1>3 DEF Frames
<1>10. Mail'
  <2>1. \A i \in DOMAIN rxq' : Readable(rxq'[i]) BY <1>6, <1>7 DEF Mail
  <2>2. ASSUME NEW i \in DOMAIN sys'.out
        PROVE  /\ Readable(sys'.out[i])
               /\ Cur(sys'.out[i]) <=> sys.tag = "cur"
               /\ Cur(sys'.out[i]) => sys'.out[i].n = sys'.out[1].n + i - 1
    <3>1. i + 1 \in DOMAIN sys.out /\ 2 \in DOMAIN sys.out
          /\ sys'.out[i] = sys.out[i + 1] /\ sys'.out[1] = sys.out[2]
      <4>1. i \in 1 .. Len(sys.out) - 1 BY <1>5
      <4>2. i + 1 \in 1 .. Len(sys.out) /\ 2 \in 1 .. Len(sys.out)
            /\ 1 \in 1 .. Len(sys.out) - 1 /\ 1 + 1 = 2
        BY <1>5, <4>1
      <4> QED BY <1>5, <4>1, <4>2
    <3>2. Cur(sys.out[i + 1]) => Cur(sys.out[2]) BY <3>1 DEF Mail
    <3>3. w.n \in Nat BY <1>5 DEF RxWords
    <3>4. i \in Nat BY <1>5
    <3>5. Cur(sys.out[i + 1]) => sys.out[i + 1].n = w.n + (i + 1) - 1 /\ sys.out[2].n = w.n + 2 - 1
      BY <1>5, <3>1, <3>2 DEF Mail
    <3>6. Readable(sys.out[i + 1]) /\ (Cur(sys.out[i + 1]) <=> sys.tag = "cur")
      BY <3>1 DEF Mail
    <3> QED BY <3>1, <3>3, <3>4, <3>5, <3>6
  <2>3. ASSUME NEW i \in DOMAIN rxq', Cur(rxq'[i])
        PROVE  /\ sys.tag = "cur"
               /\ \A j \in i + 1 .. Len(rxq') : Harmless(rxq'[j])
    <3>1. CASE i = Len(rxq) + 1 BY <1>6, <1>7, <2>3, <3>1
    <3>2. CASE i \in DOMAIN rxq
      <4>1. sys.tag = "cur" /\ \A j \in i + 1 .. Len(rxq) : Harmless(rxq[j])
        BY <1>6, <2>3, <3>2 DEF Mail
      <4>2. \A j \in i + 1 .. Len(rxq') : (j \in i + 1 .. Len(rxq) /\ rxq'[j] = rxq[j])
                                            \/ rxq'[j] = w
        BY <1>6, <3>2
      <4> QED BY <1>7, <4>1, <4>2 DEF Harmless
    <3> QED BY <1>6, <3>1, <3>2
  <2>4. Begun => sys.tag = "cur" /\ \A i \in DOMAIN rxq' : Harmless(rxq'[i])
    <3> HIDE DEF Begun
    <3>1. \A i \in DOMAIN rxq' : (i \in DOMAIN rxq /\ rxq'[i] = rxq[i]) \/ rxq'[i] = w BY <1>6
    <3> QED BY <1>7, <3>1 DEF Mail, Harmless
  <2>5. (Begun' <=> Begun) /\ drv' = drv BY <1>1
  <2> HIDE DEF Begun
  <2> QED BY <1>2, <1>3, <2>1, <2>2, <2>3, <2>4, <2>5 DEF Mail, Readable, Limit, Harmless
<1>11. Alone'
  <2>1. \A i \in DOMAIN rxq' : (i \in DOMAIN rxq /\ rxq'[i] = rxq[i]) \/ rxq'[i] = w BY <1>6
  <2>2. \A i \in DOMAIN sys'.out : i + 1 \in DOMAIN sys.out /\ sys'.out[i] = sys.out[i + 1]
    BY <1>5
  <2> QED BY SMTT(30), <1>1, <1>2, <1>5, <2>1, <2>2 DEF Alone, Harmless
<1>12. InOrder'
  <2>1. \A i \in DOMAIN sys.out :
          Cur(sys.out[i]) => Cur(sys.out[1]) /\ sys.out[i].n = sys.out[1].n + i - 1
    BY <1>5 DEF Mail
  <2>2. Received \in Nat BY ReceivedNat
  <2>3. Ordered(rxq', sys'.out, Received)
    <3> HIDE DEF Received, Cur
    <3> QED BY <1>1, <1>2, <1>4, <2>1, <2>2, OrderedEmit DEF InOrder, w
  <2>4. Received' = Received BY <1>1 DEF Received
  <2> QED BY <2>3, <2>4 DEF InOrder
<1>13. Outcome' BY <1>1 DEF Outcome, AnswerIsOwn, NothingLeftBehind, Nobody
<1> QED BY <1>8, <1>9, <1>10, <1>11, <1>12, <1>13 DEF Kept

LEMMA TellsKeeps ==
  ASSUME IInv, NEW message \in Unsolicited, Tells(message)
  PROVE  Kept
<1> USE DEF IInv
<1> DEFINE w == Event(message, TRUE)
<1>1. /\ rxq' = Append(rxq, w) /\ done' = Nobody /\ UNCHANGED <<drv, cpu, en, txq, sys>>
  BY DEF Tells
<1>2. w \in RxWords /\ w.tag = "event" /\ w.cmd /\ w.val \in Unsolicited
  BY DEF Event, RxWords
<1> HIDE DEF w
<1>3. rxq \in Seq(RxWords) /\ sys.out \in Seq(RxWords) /\ Received \in Nat
  BY TypesOf, ReceivedNat DEF PeerFields
<1>4. /\ DOMAIN rxq = 1 .. Len(rxq) /\ DOMAIN rxq' = 1 .. Len(rxq) + 1
      /\ Len(rxq') = Len(rxq) + 1 /\ Len(rxq) \in Nat
      /\ \A i \in 1 .. Len(rxq) : rxq'[i] = rxq[i]
      /\ rxq'[Len(rxq) + 1] = w
  BY <1>1, <1>2, <1>3, AppendOf
<1>5. ~Cur(w) /\ Harmless(w) /\ Readable(w) BY <1>2 DEF Harmless, Readable
<1>6. Control' BY <1>1 DEF Control, EndsDigestError, Limit
<1>7. Frames' BY <1>1 DEF Frames
<1>8. Mail'
  <2>1. \A i \in DOMAIN rxq' : Readable(rxq'[i]) BY <1>4, <1>5 DEF Mail
  <2>2. ASSUME NEW i \in DOMAIN rxq', Cur(rxq'[i])
        PROVE  /\ sys.tag = "cur" /\ sys.req = NoReq
               /\ \A j \in i + 1 .. Len(rxq') : Harmless(rxq'[j])
    <3>1. i \in DOMAIN rxq /\ rxq'[i] = rxq[i] BY <1>4, <1>5, <2>2
    <3>2. \A j \in i + 1 .. Len(rxq') : (j \in i + 1 .. Len(rxq) /\ rxq'[j] = rxq[j])
                                          \/ rxq'[j] = w
      BY <1>4, <3>1
    <3> HIDE DEF Harmless
    <3> QED BY <1>5, <2>2, <3>1, <3>2 DEF Mail
  <2>3. Begun => /\ sys.tag = "cur" /\ sys.req = NoReq
                 /\ \A i \in DOMAIN rxq' : Harmless(rxq'[i])
    <3> HIDE DEF Begun, Harmless
    <3>1. \A i \in DOMAIN rxq' : (i \in DOMAIN rxq /\ rxq'[i] = rxq[i]) \/ rxq'[i] = w BY <1>4
    <3> QED BY <1>5, <3>1 DEF Mail
  <2>4. (Begun' <=> Begun) /\ drv' = drv BY <1>1
  <2> HIDE DEF Begun
  <2> QED BY <1>1, <2>1, <2>2, <2>3, <2>4 DEF Mail, Readable, Limit, Harmless
<1>9. Alone'
  <2>1. \A i \in DOMAIN rxq' : (i \in DOMAIN rxq /\ rxq'[i] = rxq[i]) \/ rxq'[i] = w BY <1>4
  <2> QED BY <1>1, <1>2, <2>1 DEF Alone, Harmless
<1>10. InOrder'
  <2>1. Ordered(rxq', sys.out, Received)
    <3> HIDE DEF Received, Cur
    <3> QED BY <1>1, <1>2, <1>3, <1>5, OrderedAppend DEF InOrder
  <2>2. Received' = Received BY <1>1 DEF Received
  <2> QED BY <1>1, <2>1, <2>2 DEF InOrder
<1>11. Outcome' BY <1>1 DEF Outcome, AnswerIsOwn, NothingLeftBehind, Nobody
<1> QED BY <1>6, <1>7, <1>8, <1>9, <1>10, <1>11 DEF Kept

LEMMA ElsewhereKeeps ==
  ASSUME IInv, Elsewhere \/ UNCHANGED vars
  PROVE  Kept
<1> USE DEF IInv
<1>1. UNCHANGED <<drv, cpu, en, txq, rxq, sys>> /\ (done' = Nobody \/ done' = done)
  BY DEF Elsewhere, vars
<1>2. Control' BY <1>1 DEF Control, EndsDigestError, Limit
<1>3. Frames' BY <1>1 DEF Frames
<1>4. Mail' BY <1>1, MailSame
<1>5. Alone' BY <1>1 DEF Alone, Harmless
<1>6. InOrder' BY <1>1, OrderSame DEF Received
<1>7. Outcome' BY <1>1 DEF Outcome, NothingLeftBehind, Nobody
<1> QED BY <1>2, <1>3, <1>4, <1>5, <1>6, <1>7 DEF Kept

LEMMA InitInvariant == Init => IInv
<1> SUFFICES ASSUME Init PROVE IInv
  OBVIOUS
<1>1. TypeOK BY InitTyped
<1>2. /\ drv.state = "IDLE" /\ drv.handler = "none" /\ drv.prog = FALSE /\ cpu = "idle"
      /\ txq = <<>> /\ rxq = <<>> /\ sys.req = NoReq /\ sys.tag = "old" /\ done = Nobody
      /\ sys.out \in {<<>>, DigestError}
  BY DEF Init
<1>3. /\ DOMAIN DigestError = {1, 2}
      /\ \A i \in {1, 2} : DigestError[i].tag = "event"
      /\ DigestError[1].val = POR_DIGEST_ERROR_OPCODE /\ DigestError[2].val = "flags"
  BY DEF DigestError, Event
<1>4. /\ \A i \in DOMAIN sys.out :
           /\ sys.out[i].tag = "event"
           /\ sys.out[i].val \in Unsolicited
  BY <1>2, <1>3 DEF Unsolicited
<1>5. DOMAIN <<>> = {} OBVIOUS
<1>6. Control BY <1>2 DEF Control
<1>7. Frames BY <1>2, <1>5 DEF Frames
<1>8. Mail BY <1>2, <1>4, <1>5 DEF Mail, Readable
<1>9. Alone BY <1>2 DEF Alone
<1>10. InOrder
  <2>1. sys.out \in Seq(RxWords) BY <1>1, TypesOf DEF PeerFields
  <2>2. \A i \in DOMAIN sys.out : ~Cur(sys.out[i]) BY <1>4
  <2>3. Ordered(rxq, sys.out, Received) BY <1>2, <1>5, <2>1, <2>2, OrderedNone
  <2> QED BY <2>3 DEF InOrder
<1>11. Outcome BY <1>2 DEF Outcome, AnswerIsOwn, NothingLeftBehind, Nobody
<1> QED BY <1>1, <1>6, <1>7, <1>8, <1>9, <1>10, <1>11 DEF IInv

\* A command that is sent when no answer with its opcode is on its way.
LEMMA SendInvariant ==
  ASSUME IInv, NEW r \in Requests, Send(r), r.op \notin Owed
  PROVE  IInv'
<1>1. TypeOK' BY NextTyped DEF IInv, Step, Next
<1> QED BY <1>1, SendKeeps DEF IInv, Kept

\* Every other step, of the driver, of the controller or elsewhere in the program.
Other ==
  Driver \/ Controller \/ (\E message \in Unsolicited : Tells(message)) \/ Elsewhere

LEMMA OtherInvariant ==
  ASSUME Legible, IInv, [Other]_vars
  PROVE  IInv'
<1>1. TypeOK' BY NextTyped DEF IInv, Step, Next, Other
<1>2. SUFFICES Kept BY <1>1 DEF IInv, Kept
<1> QED
  BY SendOpcodeKeeps, SendPointerKeeps, FillWordKeeps, CommandFilledKeeps,
     RxIdleKeeps, RxWaitResponseKeeps, RxResponseKeeps, RxPagedKeeps, RxSendingKeeps,
     TxCommandKeeps, IsrCommandFilledKeeps, TxPagedKeeps, IsrDataFilledKeeps,
     TxUnexpectedKeeps, TakeKeeps, AnswerKeeps, RefuseKeeps, EmitKeeps, TellsKeeps,
     ElsewhereKeeps
  DEF Other, Driver, Controller

\* The clients of Comblk by itself send no command that can be confused.
LEMMA NextInvariant == Env /\ IInv /\ [Next]_vars => IInv'
<1>1. "event" \in Unsolicited BY DEF Unsolicited
<1>2. ASSUME Env, NEW r \in Requests, Send(r) PROVE r.op \notin Owed
  BY <1>2 DEF Env, Send, Allowed, Distinguishable
<1> QED BY <1>1, <1>2, SendInvariant, OtherInvariant DEF Env, Next, Other, Notify

---------------------------------------------------------------------------
(* Theorems.                                                               *)

\* Every variable keeps its type, whatever the controller and the clients do: the
\* response buffer is never written past the room the client gave, the FIFOs never
\* overflow and no count of what is left to send goes below zero.
THEOREM TypeCorrect == Spec => []TypeOK
<1>1. TypeOK /\ [Next]_vars => TypeOK' BY NextTyped DEF Step
<1> QED BY <1>1, InitTyped, PTL DEF Spec

\* The inductive invariant, when answers can be told apart.
THEOREM InvariantHolds == ASSUME Env PROVE Spec => []IInv
<1>1. Init => IInv BY InitInvariant
<1>2. IInv /\ [Next]_vars => IInv' BY NextInvariant
<1> QED BY <1>1, <1>2, PTL DEF Spec

\* A completion handler that is told of an answer of full length is given the bytes
\* of the answer to its own command, in order, for all commands, sizes of the FIFOs
\* and of a page, aborts, events, early refusals and late interrupts.
THEOREM AnswerIsOwnHolds == ASSUME Env PROVE Spec => []AnswerIsOwn
<1>1. IInv => AnswerIsOwn BY DEF IInv, Outcome, AnswerIsOwn, Env
<1> QED BY <1>1, InvariantHolds, PTL

\* A command is neither forgotten before its handler is called nor are words of its
\* answer left behind for the next one.
THEOREM EndsWholeHolds == ASSUME Env PROVE Spec => []EndsWhole
<1>1. IInv => EndsWhole
  BY DEF IInv, Outcome, EndsWhole, NotStranded, Control
<1> QED BY <1>1, InvariantHolds, PTL

---------------------------------------------------------------------------
(* Part 2: the services over the COMM_BLK driver.                           *)

HIDE ComblkAssumption
HIDE DEF Cur, Busy, Sending, Begun

---------------------------------------------------------------------------
(* The messages of Flash*Freeze in the receive FIFO.                        *)

\* The first word is read: it changes the clock, or does not.
LEMMA CourseTail ==
  ASSUME NEW q \in Seq(RxWords), q # <<>>, NEW from \in BOOLEAN, NEW to \in BOOLEAN,
         Course(q, from, to)
  PROVE  /\ Turning(Head(q)) => from = (Head(q).val = "exit")
         /\ Course(Tail(q), IF Turning(Head(q)) THEN ~from ELSE from, to)
<1>1. /\ Len(q) \in Nat \ {0} /\ DOMAIN q = 1 .. Len(q) /\ Head(q) = q[1]
      /\ Len(Tail(q)) = Len(q) - 1 /\ DOMAIN Tail(q) = 1 .. Len(q) - 1
      /\ \A i \in 1 .. Len(q) - 1 : Tail(q)[i] = q[i + 1]
  BY TailOf
<1>2. PICK s \in [0 .. Len(q) -> BOOLEAN] :
        /\ s[0] = from
        /\ \A i \in 0 .. Len(q) : (\A j \in DOMAIN q : j > i => ~Turning(q[j])) => s[i] = to
        /\ \A i \in DOMAIN q : IF Turning(q[i])
                               THEN s[i] = (q[i].val = "shutdown") /\ s[i - 1] = ~s[i]
                               ELSE s[i] = s[i - 1]
  BY Zenon DEF Course
<1> DEFINE n == [i \in 0 .. Len(q) - 1 |-> s[i + 1]]
           next == IF Turning(Head(q)) THEN ~from ELSE from
<1>3. \A i \in 0 .. Len(q) : s[i] \in BOOLEAN BY <1>2
<1>4. n \in [0 .. Len(Tail(q)) -> BOOLEAN]
  <2>1. \A i \in 0 .. Len(q) - 1 : i + 1 \in 0 .. Len(q) BY <1>1
  <2> QED BY <1>1, <1>3, <2>1
<1>5. /\ 1 \in DOMAIN q /\ 1 - 1 = 0 /\ s[0] \in BOOLEAN /\ s[1] \in BOOLEAN
      /\ Turning(q[1]) => s[1] = (q[1].val = "shutdown") /\ s[0] = ~s[1]
      /\ ~Turning(q[1]) => s[1] = s[0]
  <2>1. 1 \in DOMAIN q /\ 1 - 1 = 0 /\ 0 \in 0 .. Len(q) /\ 1 \in 0 .. Len(q) BY <1>1
  <2>2. IF Turning(q[1]) THEN s[1] = (q[1].val = "shutdown") /\ s[1 - 1] = ~s[1]
        ELSE s[1] = s[1 - 1]
    BY Zenon, <1>2, <2>1
  <2> QED BY Zenon, <1>3, <2>1, <2>2
<1>6. n[0] = s[1]
  BY <1>1
<1>11. ASSUME NEW i \in 0 .. Len(Tail(q)),
              \A j \in DOMAIN Tail(q) : j > i => ~Turning(Tail(q)[j])
       PROVE  n[i] = to
  <2>1. n[i] = s[i + 1] /\ i + 1 \in 0 .. Len(q) BY <1>1
  <2> HIDE DEF n
  <2>2. ASSUME NEW j \in DOMAIN q, j > i + 1 PROVE ~Turning(q[j])
    <3>1. j - 1 \in DOMAIN Tail(q) /\ j - 1 > i /\ Tail(q)[j - 1] = q[j] BY <1>1, <2>2
    <3> QED BY <1>11, <3>1
  <2> QED BY <1>2, <2>1, <2>2
<1>7. \A i \in DOMAIN Tail(q) :
        IF Turning(Tail(q)[i])
        THEN n[i] = (Tail(q)[i].val = "shutdown") /\ n[i - 1] = ~n[i]
        ELSE n[i] = n[i - 1]
  <2> TAKE i \in DOMAIN Tail(q)
  <2>1. /\ i + 1 \in DOMAIN q /\ Tail(q)[i] = q[i + 1]
        /\ n[i] = s[i + 1] /\ n[i - 1] = s[(i + 1) - 1]
    BY <1>1
  <2> HIDE DEF n
  <2>2. IF Turning(q[i + 1])
        THEN s[i + 1] = (q[i + 1].val = "shutdown") /\ s[(i + 1) - 1] = ~s[i + 1]
        ELSE s[i + 1] = s[(i + 1) - 1]
    BY Zenon, <1>2, <2>1
  <2> QED BY Zenon, <2>1, <2>2
<1> HIDE DEF n
<1>8. Turning(Head(q)) => from = (Head(q).val = "exit")
  <2> SUFFICES ASSUME Turning(q[1]) PROVE from = (q[1].val = "exit")
    BY Zenon, <1>1
  <2>1. from = ~(q[1].val = "shutdown") BY Zenon, <1>2, <1>5
  <2>2. ~(q[1].val = "shutdown") = (q[1].val = "exit") BY DEF Turning
  <2> QED BY Zenon, <2>1, <2>2
<1>9. n[0] = next
  <2>1. CASE Turning(q[1])
    <3>1. s[0] = ~s[1] BY <1>5, <2>1
    <3>2. s[1] = ~s[0] BY Zenon, <1>5, <3>1
    <3> QED BY Zenon, <1>1, <1>2, <1>6, <2>1, <3>2
  <2>2. CASE ~Turning(q[1]) BY Zenon, <1>1, <1>2, <1>5, <1>6, <2>2
  <2> QED BY Zenon, <2>1, <2>2
<1>10. Course(Tail(q), next, to) BY Zenon, <1>4, <1>7, <1>9, <1>11 DEF Course
<1> QED BY Zenon, <1>8, <1>10

\* A word comes at the end.
LEMMA CourseAppend ==
  ASSUME NEW q \in Seq(RxWords), NEW from \in BOOLEAN, NEW to \in BOOLEAN, NEW w \in RxWords,
         Course(q, from, to), Turning(w) => to = (w.val = "exit")
  PROVE  Course(Append(q, w), from, IF Turning(w) THEN ~to ELSE to)
<1>1. /\ Len(q) \in Nat /\ DOMAIN q = 1 .. Len(q)
      /\ Len(Append(q, w)) = Len(q) + 1 /\ DOMAIN Append(q, w) = 1 .. Len(q) + 1
      /\ \A i \in 1 .. Len(q) : Append(q, w)[i] = q[i]
      /\ Append(q, w)[Len(q) + 1] = w
  BY AppendOf
<1>2. PICK s \in [0 .. Len(q) -> BOOLEAN] :
        /\ s[0] = from
        /\ \A i \in 0 .. Len(q) : (\A j \in DOMAIN q : j > i => ~Turning(q[j])) => s[i] = to
        /\ \A i \in DOMAIN q : IF Turning(q[i])
                               THEN s[i] = (q[i].val = "shutdown") /\ s[i - 1] = ~s[i]
                               ELSE s[i] = s[i - 1]
  BY Zenon DEF Course
<1> DEFINE next == IF Turning(w) THEN ~to ELSE to
           n == [i \in 0 .. Len(q) + 1 |-> IF i = Len(q) + 1 THEN next ELSE s[i]]
           p == Append(q, w)
<1>3. next \in BOOLEAN BY Zenon
<1>4. \A i \in 0 .. Len(q) : s[i] \in BOOLEAN BY <1>2
<1> HIDE DEF next
<1>5. /\ n \in [0 .. Len(q) + 1 -> BOOLEAN]
      /\ \A i \in 0 .. Len(q) : n[i] = s[i]
      /\ n[Len(q) + 1] = next
  <2>1. /\ \A i \in 0 .. Len(q) : i # Len(q) + 1 /\ i \in 0 .. Len(q) + 1
        /\ \A i \in 0 .. Len(q) + 1 : i = Len(q) + 1 \/ i \in 0 .. Len(q)
        /\ Len(q) + 1 \in 0 .. Len(q) + 1
    BY <1>1
  <2> QED BY Zenon, <1>3, <1>4, <2>1
<1> HIDE DEF n
<1>6. \A i \in DOMAIN p :
        IF Turning(p[i]) THEN n[i] = (p[i].val = "shutdown") /\ n[i - 1] = ~n[i]
        ELSE n[i] = n[i - 1]
  <2> TAKE i \in DOMAIN p
  <2>1. CASE i \in 1 .. Len(q)
    <3>1. i \in DOMAIN q /\ i \in 0 .. Len(q) /\ i - 1 \in 0 .. Len(q) BY <1>1, <2>1
    <3>2. p[i] = q[i] /\ n[i] = s[i] /\ n[i - 1] = s[i - 1] BY <1>1, <1>5, <2>1, <3>1
    <3> QED BY Zenon, <1>2, <3>1, <3>2
  <2>2. CASE i = Len(q) + 1
    <3>1. i - 1 = Len(q) /\ Len(q) \in 0 .. Len(q) BY <1>1, <2>2
    <3>0. s[Len(q)] = to
      <4>1. \A j \in DOMAIN q : ~(j > Len(q)) BY <1>1
      <4> QED BY <1>2, <3>1, <4>1
    <3>2. p[i] = w /\ n[i] = next /\ n[i - 1] = to BY <1>1, <1>5, <2>2, <3>0, <3>1
    <3>3. CASE Turning(w)
      <4>1. next = ~to /\ to = (w.val = "exit") BY <3>3 DEF next
      <4>2. ~(w.val = "exit") = (w.val = "shutdown") BY <3>3 DEF Turning
      <4>3. next = (w.val = "shutdown") /\ to = ~next BY Zenon, <4>1, <4>2
      <4> QED BY Zenon, <3>2, <3>3, <4>3
    <3>4. CASE ~Turning(w) BY Zenon, <3>2, <3>4 DEF next
    <3> QED BY <3>3, <3>4
  <2> QED BY <1>1, <2>1, <2>2
<1>7. n[0] = from
  <2>1. 0 \in 0 .. Len(q) BY <1>1
  <2> QED BY <1>2, <1>5, <2>1
<1>10. ASSUME NEW i \in 0 .. Len(p), \A j \in DOMAIN p : j > i => ~Turning(p[j])
       PROVE  n[i] = next
  <2>1. CASE i = Len(q) + 1 BY <1>5, <2>1
  <2>2. CASE i # Len(q) + 1
    <3>1. i \in 0 .. Len(q) /\ Len(q) + 1 \in DOMAIN p /\ Len(q) + 1 > i /\ p[Len(q) + 1] = w
      BY <1>1, <2>2
    <3>2. ~Turning(w) BY <1>10, <3>1
    <3>3. ASSUME NEW j \in DOMAIN q, j > i PROVE ~Turning(q[j])
      <4>1. j \in DOMAIN p /\ p[j] = q[j] BY <1>1
      <4> QED BY <1>10, <3>3, <4>1
    <3>4. s[i] = to BY <1>2, <3>1, <3>3
    <3> QED BY Zenon, <1>5, <3>1, <3>2, <3>4 DEF next
  <2> QED BY <2>1, <2>2
<1>8. n \in [0 .. Len(p) -> BOOLEAN] BY <1>1, <1>5
<1> HIDE DEF p
<1>9. Course(p, from, next) BY Zenon, <1>6, <1>7, <1>8, <1>10 DEF Course
<1> QED BY <1>9 DEF p, next

\* The words of a FIFO keep their values when they are of an older command.
LEMMA CourseAged ==
  ASSUME NEW q \in Seq(RxWords), NEW from, NEW to, Course(q, from, to)
  PROVE  Course(Aged(q), from, to)
<1>1. /\ Len(Aged(q)) = Len(q) /\ DOMAIN Aged(q) = DOMAIN q
      /\ \A i \in DOMAIN q : Aged(q)[i].val = q[i].val
  BY AgedRx
<1> DEFINE p == Aged(q)
<1> HIDE DEF p
<1>2. /\ Len(p) = Len(q) /\ DOMAIN p = DOMAIN q
      /\ \A i \in DOMAIN q : (Turning(p[i]) <=> Turning(q[i])) /\ p[i].val = q[i].val
  BY Zenon, <1>1 DEF Turning, p
<1>3. PICK s \in [0 .. Len(q) -> BOOLEAN] :
        /\ s[0] = from
        /\ \A i \in 0 .. Len(q) : (\A j \in DOMAIN q : j > i => ~Turning(q[j])) => s[i] = to
        /\ \A i \in DOMAIN q : IF Turning(q[i])
                               THEN s[i] = (q[i].val = "shutdown") /\ s[i - 1] = ~s[i]
                               ELSE s[i] = s[i - 1]
  BY Zenon DEF Course
<1>4. /\ \A i \in 0 .. Len(p) : (\A j \in DOMAIN p : j > i => ~Turning(p[j])) => s[i] = to
      /\ \A i \in DOMAIN p : IF Turning(p[i])
                             THEN s[i] = (p[i].val = "shutdown") /\ s[i - 1] = ~s[i]
                             ELSE s[i] = s[i - 1]
  BY Zenon, <1>2, <1>3
<1>5. s \in [0 .. Len(p) -> BOOLEAN] BY <1>2
<1>6. Course(p, from, to) BY Zenon, <1>3, <1>4, <1>5 DEF Course
<1> QED BY <1>6 DEF p

\* With no message to read, the clock is that of the fabric.
LEMMA CourseNone ==
  ASSUME NEW q \in Seq(RxWords), NEW from, NEW to,
         \A i \in DOMAIN q : ~Turning(q[i]), Course(q, from, to)
  PROVE  from = to
<1>1. 0 \in 0 .. Len(q) OBVIOUS
<1> QED BY Zenon, <1>1 DEF Course
---------------------------------------------------------------------------
(* What a step of the driver of Comblk does to what the services look at.    *)

USE ComblkAssumption
USE DEF Cur, Busy, Sending, Begun

\* The controller and the request stay; at most one word is read and one sent; and a
\* handler that is called is forgotten: at the end of the answer, or for a command
\* that has the transmit interrupt.
Does ==
  /\ sys' = sys /\ drv'.req = drv.req
  /\ rxq' = rxq \/ (rxq # <<>> /\ rxq' = Tail(rxq))
  /\ \/ txq' = txq
     \/ \E w \in TxWords : /\ txq' = Append(txq, w)
                          /\ IF w.first THEN Cur(w) /\ Busy ELSE w.req = NoReq
  /\ IF done'.handler = "none" THEN drv'.handler = drv.handler
     ELSE done'.handler = drv.handler /\ drv'.handler = "none"
  /\ Begun' => Begun \/ (rxq # <<>> /\ rxq' = Tail(rxq) /\ Cur(Head(rxq)))
  /\ done'.handler # "none" => txq' = txq
  /\ done'.handler # "none" =>
       \/ Begun /\ done'.answer \in {"own", "foreign"}
       \/ ~Sending /\ (drv.req.kind = "paged" \/ "TX" \in en \/ cpu = "tx")

LEMMA DriverDoes ==
  ASSUME IInv, Driver
  PROVE  Does
<1> USE DEF IInv
<1>1. /\ drv \in Globals /\ rxq \in Seq(RxWords) /\ txq \in Seq(TxWords)
      /\ DOMAIN drv = {"state", "req", "cmd", "data", "pages", "rx", "handler", "prog"}
      /\ drv.req \in Requests \cup {NoReq}
  BY TypesOf DEF Globals
<1>2. Nobody.handler = "none" BY DEF Nobody
<1>3. /\ Word \in TxWords /\ ~Word.first /\ Word.req = NoReq
      /\ Busy => /\ [req |-> drv.req, tag |-> "cur", first |-> TRUE] \in TxWords
  BY <1>1 DEF Word, TxWords
<1>4. CASE SendOpcode BY <1>1, <1>2, <1>3, <1>4 DEF SendOpcode, Does, Control
<1>5. CASE SendPointer BY <1>1, <1>2, <1>3, <1>5 DEF SendPointer, Does, Control
<1>6. CASE FillWord
  <2>1. drv'.state = drv.state /\ drv'.handler = drv.handler /\ drv'.req = drv.req
        /\ drv'.rx = drv.rx
    BY <1>1, <1>6 DEF FillWord, Filling
  <2> QED BY <1>1, <1>2, <1>3, <1>6, <2>1 DEF FillWord, Does, Control
<1>7. CASE CommandFilled BY <1>1, <1>2, <1>7 DEF CommandFilled, Does, Control, AfterCommand
<1>8. CASE RxIdle BY <1>1, <1>2, <1>8 DEF RxIdle, Receive, RxPending, Does, Control
<1>9. CASE RxWaitResponse
  <2>1. /\ StartsAnswer(Head(rxq)) => Cur(Head(rxq))
        /\ rxq # <<>> /\ rxq' = Tail(rxq) /\ UNCHANGED <<en, txq, sys>> /\ done' = Nobody
        /\ cpu = "idle" /\ drv.state = "WAIT_RESPONSE"
    <3>1. ~Begun /\ drv.req \in Requests BY <1>9 DEF RxWaitResponse, Receive, Control
    <3> QED BY <1>9, <3>1, StartIsOwn DEF RxWaitResponse, Receive, RxPending
  <2>2. /\ drv'.handler = drv.handler /\ drv'.req = drv.req
        /\ ~StartsAnswer(Head(rxq)) => drv'.state = "WAIT_RESPONSE"
    BY <1>1, <1>9, <2>1 DEF RxWaitResponse
  <2>3. drv'.state = "RX_RESPONSE" => Cur(Head(rxq)) BY <2>1, <2>2
  <2> QED BY <1>2, <2>1, <2>2, <2>3 DEF Does
<1> DEFINE Ends == /\ drv'.state = "IDLE" /\ drv'.req = drv.req /\ drv'.handler = "none"
                   /\ \E a : /\ done' = Called(a)
                             /\ Busy => \/ Begun /\ a \in {"own", "foreign"}
                                        \/ /\ ~Sending
                                           /\ drv.req.kind = "paged" \/ "TX" \in en \/ cpu = "tx"
<1>10. ASSUME Ends, sys' = sys, txq' = txq, rxq' = rxq \/ (rxq # <<>> /\ rxq' = Tail(rxq))
       PROVE  Does
  BY <1>2, <1>10 DEF Does, Called
<1>11. CASE RxResponse
  <2>1. /\ rxq # <<>> /\ rxq' = Tail(rxq) /\ UNCHANGED <<en, txq, sys>>
        /\ cpu = "idle" /\ drv.state = "RX_RESPONSE" /\ cpu' \in {"tx", "idle"}
    BY <1>11 DEF RxResponse, Receive, RxPending
  <2>2. \/ drv' = drv /\ done' = Nobody
        \/ drv' = [drv EXCEPT !.state = "IDLE"] /\ done' = Nobody
        \/ \E g : drv' = [drv EXCEPT !.rx = g] /\ done' = Nobody
        \/ \E g, a : /\ drv' = Completed([drv EXCEPT !.rx = g, !.state = "IDLE"])
                     /\ done' = Called(a) /\ a \in {"own", "foreign"}
    <3>1. ASSUME NEW g, ~(Len(g) < drv.req.rsize) PROVE Worth(g) \in {"own", "foreign"}
      BY Zenon, <3>1 DEF Worth
    <3> DEFINE g == Grown(Head(rxq))
    <3>2. Len(g) = drv.req.rsize => ~(Len(g) < drv.req.rsize)
      <4>1. drv.req.rsize \in Nat BY <1>1, <1>11 DEF NoReq
      <4> HIDE DEF g
      <4> QED BY <4>1
    <3> QED BY <1>11, <3>1, <3>2 DEF RxResponse
  <2>3. ASSUME NEW g, NEW a,
               drv' = Completed([drv EXCEPT !.rx = g, !.state = "IDLE"]) /\ done' = Called(a),
               a \in {"own", "foreign"}
        PROVE  Ends
    <3>1. drv'.state = "IDLE" /\ drv'.req = drv.req /\ drv'.handler = "none"
      BY <1>1, <2>3 DEF Completed
    <3> QED BY <2>1, <2>3, <3>1
  <2>4. CASE drv' = drv /\ done' = Nobody BY <1>2, <2>1, <2>4 DEF Does
  <2>5. CASE drv' = [drv EXCEPT !.state = "IDLE"] /\ done' = Nobody
    BY <1>1, <1>2, <2>1, <2>5 DEF Does
  <2>6. CASE \E g : drv' = [drv EXCEPT !.rx = g] /\ done' = Nobody
    BY <1>1, <1>2, <2>1, <2>6 DEF Does
  <2> QED BY <1>10, <2>1, <2>2, <2>3, <2>4, <2>5, <2>6
<1>12. CASE RxPaged
  <2>1. /\ rxq # <<>> /\ rxq' = Tail(rxq) /\ UNCHANGED <<en, txq, sys>>
        /\ cpu = "idle" /\ drv.state = "TX_PAGED_DATA" /\ cpu' \in {"tx", "idle"}
    BY <1>12 DEF RxPaged, Receive, RxPending
  <2>2. CASE Head(rxq).cmd BY <1>2, <1>12, <2>1, <2>2 DEF RxPaged, Does
  <2>3. CASE ~Head(rxq).cmd
    <3>1. Busy => drv.req.kind = "paged" BY <2>1 DEF Control
    <3>2. Ends BY <1>12, <2>1, <2>3, <3>1, Ended DEF RxPaged
    <3> QED BY <1>10, <2>1, <3>2
  <2> QED BY <2>2, <2>3
<1>13. CASE RxSending BY <1>1, <1>2, <1>13 DEF RxSending, Receive, RxPending, Does
<1>14. CASE TxCommand BY <1>1, <1>2, <1>14 DEF TxCommand, Transmit, Does
<1>15. CASE IsrCommandFilled
  BY <1>1, <1>2, <1>15 DEF IsrCommandFilled, Does, Control, AfterCommand
<1>16. CASE TxPaged BY <1>1, <1>2, <1>16 DEF TxPaged, Transmit, Does
<1>17. CASE IsrDataFilled BY <1>1, <1>2, <1>17 DEF IsrDataFilled, Does, Control
<1>18. CASE TxUnexpected
  <2>1. Ends /\ UNCHANGED <<txq, rxq, sys>>
    BY <1>18, Ended DEF TxUnexpected, Transmit
  <2> QED BY <1>10, <2>1
<1> QED
  BY <1>4, <1>5, <1>6, <1>7, <1>8, <1>9, <1>11, <1>12, <1>13, <1>14, <1>15, <1>16, <1>17, <1>18
  DEF Driver

\* The transmit interrupt stays off but for a paged command.
LEMMA DriverQuiet ==
  ASSUME IInv, Quiet, Driver
  PROVE  Quiet'
<1> DEFINE Isr == {"tx", "isr_command", "isr_data"}
<1>1. /\ drv \in Globals
      /\ Sending => Busy /\ en = {}
  BY TypesOf DEF IInv, Control
<1>2. drv'.req = drv.req /\ (Busy' => Busy)
  BY DriverDoes DEF Does
<1>3. SUFFICES ASSUME Busy, ~Sending', drv.req.kind # "paged"
               PROVE  "TX" \notin en' /\ cpu' \notin Isr
  BY <1>2 DEF Quiet
<1>4. CASE SendOpcode BY <1>3, <1>4 DEF SendOpcode
<1>5. CASE SendPointer BY <1>5 DEF SendPointer
<1>6. CASE FillWord BY <1>3, <1>6 DEF FillWord, Quiet
<1>7. CASE CommandFilled BY <1>3, <1>7 DEF CommandFilled
<1>8. CASE RxIdle BY <1>3, <1>8 DEF RxIdle, Receive, Quiet
<1>9. CASE RxWaitResponse BY <1>3, <1>9 DEF RxWaitResponse, Receive, Quiet
<1>10. CASE RxResponse BY <1>3, <1>10 DEF RxResponse, Receive, Quiet
<1>11. CASE RxPaged BY <1>3, <1>11 DEF RxPaged, Receive, Quiet
<1>12. CASE RxSending BY <1>3, <1>12 DEF RxSending, Receive, Quiet
<1>13. CASE TxCommand BY <1>3, <1>13 DEF TxCommand, Transmit, Quiet
<1>14. CASE IsrCommandFilled BY <1>3, <1>14 DEF IsrCommandFilled, Quiet
<1>15. CASE TxPaged BY <1>3, <1>15 DEF TxPaged, Transmit, Quiet
<1>16. CASE IsrDataFilled BY <1>3, <1>16 DEF IsrDataFilled, Quiet
<1>17. CASE TxUnexpected BY <1>3, <1>17 DEF TxUnexpected, Transmit, Quiet
<1> QED
  BY <1>4, <1>5, <1>6, <1>7, <1>8, <1>9, <1>10, <1>11, <1>12, <1>13, <1>14, <1>15, <1>16, <1>17
  DEF Driver

\* Words go through the receive FIFO one by one.
LEMMA ReadOne ==
  ASSUME rxq \in Seq(RxWords), rxq' = rxq \/ (rxq # <<>> /\ rxq' = Tail(rxq))
  PROVE  /\ \A i \in DOMAIN rxq' : \E j \in DOMAIN rxq : rxq'[i] = rxq[j]
         /\ (\A i, j \in DOMAIN rxq : Turning(rxq[i]) /\ Cur(rxq[j]) => i < j) =>
              \A i, j \in DOMAIN rxq' : Turning(rxq'[i]) /\ Cur(rxq'[j]) => i < j
<1>1. CASE rxq' = rxq BY <1>1
<1>2. CASE rxq # <<>> /\ rxq' = Tail(rxq)
  <2>1. /\ rxq' \in Seq(RxWords) /\ Len(rxq) \in Nat \ {0} /\ DOMAIN rxq = 1 .. Len(rxq)
        /\ DOMAIN rxq' = 1 .. Len(rxq) - 1
        /\ \A i \in DOMAIN rxq' : i + 1 \in DOMAIN rxq /\ rxq'[i] = rxq[i + 1]
    <3>1. /\ Len(rxq) \in Nat \ {0} /\ DOMAIN rxq = 1 .. Len(rxq) /\ DOMAIN rxq' = 1 .. Len(rxq) - 1
          /\ \A i \in 1 .. Len(rxq) - 1 : rxq'[i] = rxq[i + 1]
      BY <1>2, TailOf
    <3>2. rxq' \in Seq(RxWords) BY <1>2
    <3>3. \A i \in DOMAIN rxq' : i \in 1 .. Len(rxq) - 1 /\ i + 1 \in DOMAIN rxq BY <3>1
    <3> QED BY Zenon, <3>1, <3>2, <3>3
  <2>2. ASSUME \A i, j \in DOMAIN rxq : Turning(rxq[i]) /\ Cur(rxq[j]) => i < j,
               NEW i \in DOMAIN rxq', NEW j \in DOMAIN rxq', Turning(rxq'[i]), Cur(rxq'[j])
        PROVE  i < j
    <3>1. i + 1 < j + 1 BY <2>1, <2>2
    <3> QED BY <2>1, <3>1
  <2> QED BY <2>1, <2>2
<1> QED BY <1>1, <1>2

---------------------------------------------------------------------------
(* Each step keeps the invariant.                                          *)

LEMMA SDriverStep ==
  ASSUME Legible, Steady, SInv, SDriver
  PROVE  SInv'
<1>1. IInv' BY OtherInvariant DEF SInv, SDriver, Other
<1>2. /\ rxq \in Seq(RxWords) /\ txq \in Seq(TxWords) /\ sys.out \in Seq(RxWords)
      /\ drv.req \in Requests \cup {NoReq} /\ drv.handler \in Handlers
      /\ DOMAIN rxq = 1 .. Len(rxq)
      /\ done'.answer \in Answers \cup {"none"}
  <2>1. TypeOK' BY <1>1 DEF IInv
  <2> QED BY <2>1, TypesOf DEF SInv, IInv, TypeOK, GlobalFields, PeerFields
<1>3. /\ sys' = sys /\ drv'.req = drv.req
      /\ rxq' = rxq \/ (rxq # <<>> /\ rxq' = Tail(rxq))
      /\ \/ txq' = txq
         \/ \E w \in TxWords : /\ txq' = Append(txq, w)
                              /\ IF w.first THEN Cur(w) /\ Busy ELSE w.req = NoReq
      /\ IF done'.handler = "none" THEN drv'.handler = drv.handler
         ELSE done'.handler = drv.handler /\ drv'.handler = "none"
      /\ Begun' => Begun \/ (rxq # <<>> /\ rxq' = Tail(rxq) /\ Cur(Head(rxq)))
      /\ done'.handler # "none" => txq' = txq
      /\ done'.handler # "none" =>
           \/ Begun /\ done'.answer \in {"own", "foreign"}
           \/ ~Sending /\ (drv.req.kind = "paged" \/ "TX" \in en \/ cpu = "tx")
  BY Zenon, DriverDoes DEF SInv, SDriver, Does
<1>0. /\ \A i \in DOMAIN rxq' : \E j \in DOMAIN rxq : rxq'[i] = rxq[j]
      /\ (\A i, j \in DOMAIN rxq : Turning(rxq[i]) /\ Cur(rxq[j]) => i < j) =>
           \A i, j \in DOMAIN rxq' : Turning(rxq'[i]) /\ Cur(rxq'[j]) => i < j
  <2>1. /\ rxq \in Seq(RxWords)
        /\ rxq' = rxq \/ (rxq # <<>> /\ rxq' = Tail(rxq))
    BY <1>2, <1>3
  <2> QED BY Zenon, <2>1, ReadOne
<1>4. /\ DOMAIN svc' = DOMAIN svc /\ svc'.main = svc.main /\ svc'.call = svc.call
      /\ svc'.todo = svc.todo
      /\ IF done'.handler = "request" THEN svc'.busy = FALSE /\ svc'.got = done'.answer
         ELSE svc' = svc
  BY DEF SDriver, Handled, SInv, Shapes
\* A handler that a service waits for is called at the end of its own answer.
<1>5. ASSUME done'.handler = "request"
      PROVE  /\ Begun /\ done'.answer = "own" /\ sys.tag = "cur" /\ sys.req = NoReq
             /\ Busy /\ svc.busy
  <2>1. Busy /\ drv.handler = "request" /\ svc.busy /\ drv.req.handler = "request"
        /\ drv.req \in Requests /\ drv.req.kind # "paged"
    BY <1>3, <1>5, ServicesAssumption DEF SInv, InCall, IInv, Control
  <2>2. Begun /\ done'.answer \in {"own", "foreign"}
    BY <1>3, <1>5, <2>1 DEF SInv, Quiet
  <2>3. done'.answer = "own" BY <1>1, <1>3, <2>1, <2>2 DEF IInv, Outcome
  <2> QED BY <2>1, <2>2, <2>3 DEF SInv, IInv, Mail
<1>6. Shapes'
  <2>1. chip' = Clocked BY DEF SDriver
  <2> QED BY <1>4, <2>1 DEF SInv, Shapes, Clocked
<1>7. InCall'
  <2>1. /\ svc'.main = "free" => svc'.call = NoReq
        /\ svc'.main # "free" => svc'.call \in Requests /\ Chain(svc'.call, svc'.todo)
    BY Zenon, <1>4 DEF SInv, InCall
  <2>2. CASE done'.handler = "request"
    <3>1. svc'.busy = FALSE /\ svc'.got = "own" /\ drv'.handler = "none"
      BY <1>3, <1>4, <1>5, <2>2
    <3>2. svc'.main = "wait" => svc'.call.handler = "request" /\ drv'.req = svc'.call
      BY <1>3, <1>4 DEF SInv, InCall
    <3> QED BY <2>1, <3>1, <3>2 DEF InCall
  <2>3. CASE done'.handler # "request"
    <3>1. svc' = svc BY <1>4, <2>3
    <3>2. drv'.handler = drv.handler \/ (~Busy' /\ (svc.main = "wait" => ~svc.busy))
      BY <1>3, <2>3 DEF SInv, InCall
    <3> QED BY <1>3, <2>1, <3>1, <3>2 DEF SInv, InCall
  <2> QED BY <2>2, <2>3
<1>8. Fresh'
  <2>1. \A i \in DOMAIN rxq' : rxq'[i].tag # "old"
    BY Zenon, <1>0 DEF SInv, Fresh
  <2>2. \A i \in DOMAIN txq' : IF txq'[i].first THEN Cur(txq'[i]) ELSE txq'[i].req = NoReq
    <3>1. ASSUME NEW w \in TxWords, txq' = Append(txq, w),
                 IF w.first THEN Cur(w) ELSE w.req = NoReq,
                 NEW i \in DOMAIN txq'
          PROVE  IF txq'[i].first THEN Cur(txq'[i]) ELSE txq'[i].req = NoReq
      <4>1. txq'[i] = w \/ (i \in DOMAIN txq /\ txq'[i] = txq[i])
        BY <1>2, <3>1, AppendOf
      <4> QED BY Zenon, <3>1, <4>1 DEF SInv, Fresh
    <3> QED BY Zenon, <1>3, <3>1 DEF SInv, Fresh
  <2> QED BY Zenon, <1>3, <2>1, <2>2 DEF SInv, Fresh
<1>9. Clear'
  <2> SUFFICES ASSUME ~svc'.busy
               PROVE  /\ sys.req = NoReq /\ \A i \in DOMAIN txq' : ~txq'[i].first
                      /\ \A i \in DOMAIN rxq' : ~Cur(rxq'[i])
                      /\ \A i \in DOMAIN sys.out : ~Cur(sys.out[i])
                      /\ svc.main = "wait" => Answered
    BY <1>3, <1>4 DEF Clear, Answered
  <2>1. CASE done'.handler = "request"
    <3>1. txq' = txq /\ (\A i \in DOMAIN txq : ~txq[i].first) /\ sys.tag # "old"
      BY <1>3, <1>5, <2>1 DEF SInv, IInv, Frames
    <3>2. /\ \A i \in DOMAIN rxq' : ~Cur(rxq'[i])
          /\ \A i \in DOMAIN sys.out : ~Cur(sys.out[i])
      <4>1. NothingLeftBehind' BY <1>1 DEF IInv, Outcome
      <4>2. done'.answer = "own" BY <1>5, <2>1
      <4>3. \A w \in Range(rxq') \cup Range(sys'.out) : w.tag # "cur"
        BY Zenon, <4>1, <4>2 DEF NothingLeftBehind
      <4> QED BY Zenon, <1>3, <4>3 DEF Range
    <3> QED BY <1>5, <2>1, <3>1, <3>2 DEF Answered
  <2>2. CASE done'.handler # "request"
    <3>1. ~svc.busy BY <1>4, <2>2
    <3>2. ~Busy BY <3>1 DEF SInv, InCall
    <3>3. \A i \in DOMAIN txq' : ~txq'[i].first
      <4>1. ASSUME NEW w \in TxWords, txq' = Append(txq, w), ~w.first, NEW i \in DOMAIN txq'
            PROVE  ~txq'[i].first
        <5>1. txq'[i] = w \/ (i \in DOMAIN txq /\ txq'[i] = txq[i])
          BY <1>2, <4>1, AppendOf
        <5> QED BY Zenon, <3>1, <4>1, <5>1 DEF SInv, Clear
      <4> QED BY Zenon, <1>3, <3>1, <3>2, <4>1 DEF SInv, Clear
    <3> QED BY Zenon, <1>0, <3>1, <3>3 DEF SInv, Clear
  <2> QED BY <2>1, <2>2
<1>10. Quiet' BY DriverQuiet DEF SInv, SDriver
<1>11. Locked'
  <2>1. chip' = Clocked BY DEF SDriver
  <2>2. chip'.locked = chip.locked BY <2>1 DEF SInv, Shapes, Clocked
  <2> QED BY Zenon, <1>3, <1>4, <2>2 DEF SInv, Locked, Answered
<1>12. /\ chip'.freeze = chip.freeze /\ chip'.kept = chip.kept
       /\ IF rxq # <<>> /\ rxq' = Tail(rxq) /\ Turning(Head(rxq))
          THEN IF Head(rxq).val = "shutdown"
               THEN chip'.clock = "standby" /\ chip'.div = "unit"
               ELSE chip'.clock = "main" /\ chip'.div = chip.kept
          ELSE chip'.clock = chip.clock /\ chip'.div = chip.div
  <2>1. chip' = Clocked /\ ~FetchesPage
    <3>1. drv.req.op # "isp_program" BY <1>2 DEF Steady, NoReq
    <3> QED BY <3>1 DEF SDriver, FetchesPage
  <2>2. /\ rxq' = rxq => ~(Len(rxq') < Len(rxq))
        /\ rxq # <<>> /\ rxq' = Tail(rxq) => Len(rxq') < Len(rxq)
    BY <1>2
  <2> QED BY <1>3, <2>1, <2>2 DEF SInv, Shapes, Clocked, Read, Turning
<1>13. Alternate'
  <2> DEFINE from == chip.clock = "standby"
             to   == chip.freeze = "frozen"
             next == IF Turning(Head(rxq)) THEN ~from ELSE from
  <2>1. Course(rxq, from, to) BY DEF SInv, Alternate
  <2>2. CASE rxq # <<>> /\ rxq' = Tail(rxq)
    <3>1. /\ Turning(Head(rxq)) => from = (Head(rxq).val = "exit")
          /\ Course(Tail(rxq), next, to)
      <4>1. from \in BOOLEAN /\ to \in BOOLEAN OBVIOUS
      <4> HIDE DEF from, to
      <4> QED BY Zenon, <1>2, <2>1, <2>2, <4>1, CourseTail
    <3>2. (chip'.clock = "standby") = next
      BY <1>12, <2>2, <3>1 DEF Turning
    <3>3. (chip'.freeze = "frozen") = to BY <1>12
    <3> HIDE DEF next, to, from
    <3> QED BY Zenon, <1>3, <2>2, <3>1, <3>2, <3>3 DEF SInv, Alternate
  <2>3. CASE rxq' = rxq
    <3>1. rxq # <<>> => rxq' # Tail(rxq)
      <4>1. ASSUME rxq # <<>> PROVE Len(Tail(rxq)) # Len(rxq)
        <5>1. Len(rxq) \in Nat /\ Len(Tail(rxq)) = Len(rxq) - 1 BY <1>2, <4>1, TailOf
        <5> QED BY <5>1
      <4> QED BY Zenon, <2>3, <4>1
    <3>2. chip'.clock = chip.clock /\ chip'.freeze = chip.freeze BY <1>12, <3>1
    <3> QED BY Zenon, <1>3, <2>1, <2>3, <3>2 DEF SInv, Alternate
  <2> QED BY <1>3, <2>2, <2>3
<1>14. Settled'
  <2>1. svc.call.op = "iap" => chip'.freeze = "no" BY <1>12 DEF SInv, Settled
  <2>2. ASSUME svc.main = "wait", svc.call.op \in {"digest", "iap"}, Answered
        PROVE  /\ chip.freeze = "no"
               /\ \A i, j \in DOMAIN rxq' : Turning(rxq'[i]) /\ Cur(rxq'[j]) => i < j
               /\ Begun' \/ ~svc'.busy => \A i \in DOMAIN rxq' : ~Turning(rxq'[i])
    <3>1. /\ chip.freeze = "no"
          /\ \A i, j \in DOMAIN rxq : Turning(rxq[i]) /\ Cur(rxq[j]) => i < j
          /\ Begun \/ ~svc.busy => \A i \in DOMAIN rxq : ~Turning(rxq[i])
      BY Zenon, <2>2 DEF SInv, Settled
    <3>2. CASE Begun \/ ~svc.busy BY Zenon, <1>0, <3>1, <3>2
    <3>3. CASE ~Begun /\ svc.busy
      <4>1. svc'.busy BY <1>4, <1>5, <3>3
      <4>2. ASSUME rxq # <<>>, rxq' = Tail(rxq), Cur(Head(rxq)), NEW i \in DOMAIN rxq'
            PROVE  ~Turning(rxq'[i])
        <5>1. /\ 1 \in DOMAIN rxq /\ Head(rxq) = rxq[1]
              /\ i + 1 \in DOMAIN rxq /\ rxq'[i] = rxq[i + 1] /\ ~(i + 1 < 1)
          BY <1>2, <4>2, TailOf
        <5> QED BY Zenon, <3>1, <4>2, <5>1
      <4> QED BY Zenon, <1>0, <1>3, <3>1, <3>3, <4>1, <4>2
    <3> QED BY <3>2, <3>3
  <2> QED BY Zenon, <1>3, <1>4, <1>12, <2>1, <2>2 DEF Settled, Answered
<1>15. Divisors' BY <1>12 DEF SInv, Divisors, DivisorsFitClock, Turning
<1> QED
  BY <1>1, <1>6, <1>7, <1>8, <1>9, <1>10, <1>11, <1>13, <1>14, <1>15 DEF SInv

---------------------------------------------------------------------------
(* The controller.                                                         *)

\* Whatever command the controller has in hand, its sender waits for the answer.
LEMMA InHand ==
  ASSUME SInv, sys.req # NoReq
  PROVE  /\ sys.tag = "cur" /\ sys.req = drv.req /\ drv.req \in Requests /\ svc.busy
         /\ ~Begun /\ sys.out = <<>> /\ \A i \in DOMAIN rxq : ~Cur(rxq[i])
         /\ IF svc.main = "wait" THEN svc.call = drv.req
            ELSE drv.req.op \in {"isp", "isp_program"} /\ drv.req.kind = "paged"
<1>1. sys.tag = "cur" /\ svc.busy BY DEF SInv, Fresh, Clear
<1>2. drv.req \in Requests /\ sys.req = drv.req /\ sys.out = <<>>
  BY <1>1 DEF SInv, IInv, Frames
<1>3. ~Begun /\ \A i \in DOMAIN rxq : ~Cur(rxq[i]) BY DEF SInv, IInv, Mail
<1>4. CASE svc.main = "wait" BY <1>1, <1>2, <1>3, <1>4 DEF SInv, InCall
<1>5. CASE svc.main # "wait"
  <2>1. drv.req.handler = "isp" BY <1>1, <1>5 DEF SInv, InCall
  <2> QED BY <1>1, <1>2, <1>3, <1>5, <2>1, ServicesAssumption
<1> QED BY <1>4, <1>5

\* Its words: none of Flash*Freeze, none of an older answer.
LEMMA Words ==
  ASSUME SInv, sys.req # NoReq, NEW length \in Nat
  PROVE  \A i \in DOMAIN (sys.out \o Message(length, 0)) :
           LET w == (sys.out \o Message(length, 0))[i]
           IN  ~Turning(w) /\ Cur(w)
<1>1. sys.out = <<>> /\ sys.tag = "cur" /\ sys.req \in Requests BY InHand
<1>2. sys.out \o Message(length, 0) = Message(length, 0)
  <2>1. Message(length, 0) \in Seq(RxWords) BY <1>1, MessageOf
  <2> QED BY <1>1, <2>1
<1>3. sys.req.op \notin {"shutdown", "exit"} BY <1>1 DEF Unsolicited
<1>4. TAKE i \in DOMAIN (sys.out \o Message(length, 0))
<1>5. /\ Message(length, 0)[i].tag = sys.tag
      /\ Message(length, 0)[i].val \in {sys.req.op, POR_DIGEST_ERROR_OPCODE, "byte"}
  BY Zenon, <1>2 DEF Message
<1>6. POR_DIGEST_ERROR_OPCODE \notin {"shutdown", "exit"} BY DEF POR_DIGEST_ERROR_OPCODE
<1> QED BY Zenon, <1>1, <1>2, <1>3, <1>5, <1>6 DEF Turning

\* The steps that send nothing of Flash*Freeze and do not answer change little.
LEMMA TakeStep ==
  ASSUME SInv, Take, UNCHANGED <<svc, chip>>
  PROVE  Shapes' /\ InCall' /\ Fresh' /\ Clear' /\ Quiet' /\ Locked' /\ Alternate' /\ Settled'
         /\ Divisors'
<1> DEFINE w == Head(txq)
<1>1. /\ txq # <<>> /\ sys.out = <<>> /\ txq' = Tail(txq)
      /\ UNCHANGED <<drv, cpu, en, rxq>> /\ sys'.out = sys.out
      /\ IF w.first THEN sys'.req = w.req /\ sys'.tag = w.tag
         ELSE sys'.req = sys.req /\ sys'.tag = sys.tag
  BY TypesOf DEF Take, SInv, IInv, Peer
<1>2. /\ txq \in Seq(TxWords) /\ w = txq[1] /\ 1 \in DOMAIN txq
      /\ \A i \in DOMAIN txq' : i + 1 \in DOMAIN txq /\ txq'[i] = txq[i + 1]
  <2>1. txq \in Seq(TxWords) BY TypesOf DEF SInv, IInv
  <2> QED BY <1>1, <2>1, TailOf
<1>3. w.first => Cur(w) /\ w.req \in Requests /\ w.req # NoReq
  BY <1>2 DEF SInv, Fresh, IInv, Frames, NoReq
<1>4. Answered' => Answered /\ ~w.first BY <1>1, <1>3 DEF Answered
<1>5. Shapes' /\ InCall' /\ Quiet' /\ Alternate' /\ Divisors'
  BY <1>1 DEF SInv, Shapes, InCall, Quiet, Alternate, Divisors, DivisorsFitClock
<1>6. Fresh'
  <2>1. \A i \in DOMAIN txq' : IF txq'[i].first THEN Cur(txq'[i]) ELSE txq'[i].req = NoReq
    BY Zenon, <1>2 DEF SInv, Fresh
  <2>2. sys'.req # NoReq => sys'.tag = "cur" BY <1>1, <1>3 DEF SInv, Fresh
  <2> QED BY Zenon, <1>1, <2>1, <2>2 DEF SInv, Fresh
<1>7. Clear'
  <2> SUFFICES ASSUME ~svc.busy PROVE Clear' BY DEF Clear
  <2>1. ~w.first BY <1>2 DEF SInv, Clear
  <2>2. \A i \in DOMAIN txq' : ~txq'[i].first BY Zenon, <1>2 DEF SInv, Clear
  <2> QED BY Zenon, <1>1, <2>1, <2>2 DEF SInv, Clear, Answered
<1>8. Locked' BY Zenon, <1>4 DEF SInv, Locked
<1>9. Settled' BY Zenon, <1>1, <1>4 DEF SInv, Settled
<1> QED BY <1>5, <1>6, <1>7, <1>8, <1>9

\* A paged command is refused.
LEMMA RefuseStep ==
  ASSUME SInv, Refuse, UNCHANGED <<svc, chip>>
  PROVE  Shapes' /\ InCall' /\ Fresh' /\ Clear' /\ Quiet' /\ Locked' /\ Alternate' /\ Settled'
         /\ Divisors'
<1>1. /\ sys.req # NoReq /\ sys.req.kind = "paged" /\ UNCHANGED <<drv, cpu, en, txq, rxq>>
      /\ sys'.out = sys.out \o Message(2, 0) /\ sys'.req = NoReq /\ sys'.tag = sys.tag
  BY TypesOf DEF Refuse, NoReq, SInv, IInv, Peer
<1>2. /\ sys.tag = "cur" /\ sys.req = drv.req /\ svc.busy /\ svc.main # "wait"
  <2>1. drv.req.kind = "paged" /\ drv.req \in Requests BY <1>1, InHand
  <2> QED BY <1>1, <2>1, InHand, ServicesAssumption DEF SInv, InCall
<1>3. \A i \in DOMAIN sys'.out : ~Turning(sys'.out[i]) /\ Cur(sys'.out[i])
  BY Zenon, <1>1, Words
<1>4. Shapes' /\ InCall' /\ Quiet' /\ Locked' /\ Divisors' /\ Settled' /\ Clear'
  BY <1>1, <1>2
  DEF SInv, Shapes, InCall, Quiet, Locked, Divisors, DivisorsFitClock, Settled, Clear
<1>5. Fresh' BY <1>1, <1>3 DEF SInv, Fresh
<1>6. Alternate' BY Zenon, <1>1, <1>3 DEF SInv, Alternate
<1> QED BY <1>4, <1>5, <1>6

\* The command is answered.
LEMMA SAnswerStep ==
  ASSUME Legible, Steady, SInv, SAnswer
  PROVE  Shapes' /\ InCall' /\ Fresh' /\ Clear' /\ Quiet' /\ Locked' /\ Alternate' /\ Settled'
         /\ Divisors'
<1>1. /\ sys.req # NoReq /\ UNCHANGED <<drv, cpu, en, txq, rxq, svc>>
      /\ sys'.out = sys.out \o Message(sys.req.rsize, 0) /\ sys'.req = NoReq
      /\ sys'.tag = sys.tag
  <2>1. "DIGEST_BYTE" \notin Hazards BY DEF Legible
  <2> QED BY <2>1, TypesOf DEF SAnswer, Answer, SInv, IInv, Peer
<1>2. /\ sys.tag = "cur" /\ sys.req = drv.req /\ drv.req \in Requests /\ svc.busy
      /\ ~Begun /\ \A i \in DOMAIN rxq : ~Cur(rxq[i])
      /\ IF svc.main = "wait" THEN svc.call = drv.req
         ELSE drv.req.op \in {"isp", "isp_program"}
  BY <1>1, InHand
<1>3. /\ DOMAIN chip' = DOMAIN chip /\ chip'.kept = chip.kept /\ chip'.div = chip.div
      /\ chip'.clock = chip.clock
      /\ chip'.locked = ((chip.locked \/ sys.req.op \in Locking)
                         /\ sys.req.op # "number_of_keys")
      /\ chip'.freeze = IF chip.freeze = "thawed" THEN "no" ELSE chip.freeze
      /\ sys.req.op = "digest" => chip.freeze = "thawed"
  <2>1. sys.req.op # "isp_program" BY <1>2 DEF Steady
  <2> QED BY <2>1 DEF SAnswer, SInv, Shapes
<1>4. \A i \in DOMAIN sys'.out : ~Turning(sys'.out[i]) /\ Cur(sys'.out[i])
  <2>1. sys.req.rsize \in Nat BY <1>2
  <2> QED BY Zenon, <1>1, <2>1, Words
<1>5. Shapes' /\ InCall' /\ Quiet' /\ Divisors' /\ Clear'
  BY <1>1, <1>2, <1>3
  DEF SInv, Shapes, InCall, Quiet, Divisors, DivisorsFitClock, Clear
<1>6. Fresh' BY <1>1, <1>2, <1>4 DEF SInv, Fresh
<1>7. Locked' BY <1>1, <1>2, <1>3 DEF SInv, Locked, Locking
<1>8. Alternate'
  <2>1. /\ (chip'.clock = "standby") = (chip.clock = "standby")
        /\ (chip'.freeze = "frozen") = (chip.freeze = "frozen")
    BY <1>3
  <2> QED BY Zenon, <1>1, <1>4, <2>1 DEF SInv, Alternate
<1>9. Settled'
  <2>1. svc.call.op = "iap" => chip'.freeze = "no" BY <1>3 DEF SInv, Settled
  <2>2. svc.main = "wait" /\ svc.call.op \in {"digest", "iap"} => chip'.freeze = "no"
    BY <1>2, <1>3, <2>1
  <2>3. ~Begun' /\ svc'.busy BY <1>1, <1>2
  <2> HIDE DEF Begun
  <2> QED BY Zenon, <1>1, <1>2, <2>1, <2>2, <2>3 DEF Settled
<1> QED BY <1>5, <1>6, <1>7, <1>8, <1>9

\* A word of the answer leaves the controller.
LEMMA EmitStep ==
  ASSUME SInv, Emit, UNCHANGED <<svc, chip>>
  PROVE  Shapes' /\ InCall' /\ Fresh' /\ Clear' /\ Quiet' /\ Locked' /\ Alternate' /\ Settled'
         /\ Divisors'
<1> DEFINE w == Head(sys.out)
<1>1. /\ sys.out # <<>> /\ rxq' = Append(rxq, w) /\ UNCHANGED <<drv, cpu, en, txq>>
      /\ sys'.out = Tail(sys.out) /\ sys'.req = sys.req /\ sys'.tag = sys.tag
  BY TypesOf DEF Emit, SInv, IInv, Peer
<1>2. /\ rxq \in Seq(RxWords) /\ sys.out \in Seq(RxWords) /\ w \in RxWords
      /\ w = sys.out[1] /\ 1 \in DOMAIN sys.out
      /\ \A i \in DOMAIN sys'.out : i + 1 \in DOMAIN sys.out /\ sys'.out[i] = sys.out[i + 1]
  <2>1. rxq \in Seq(RxWords) /\ sys.out \in Seq(RxWords)
    BY TypesOf DEF SInv, IInv, PeerFields
  <2> QED BY <1>1, <2>1, TailOf
<1>3. /\ DOMAIN rxq = 1 .. Len(rxq) /\ DOMAIN rxq' = 1 .. Len(rxq) + 1 /\ Len(rxq) \in Nat
      /\ \A i \in DOMAIN rxq : rxq'[i] = rxq[i]
      /\ rxq'[Len(rxq) + 1] = w
      /\ \A i \in DOMAIN rxq' : i \in DOMAIN rxq \/ i = Len(rxq) + 1
  BY <1>1, <1>2, AppendOf
<1>4. ~Turning(w) /\ w.tag # "old" BY <1>2 DEF SInv, Alternate, Fresh
<1>5. Shapes' /\ InCall' /\ Quiet' /\ Divisors' /\ Locked'
  BY <1>1 DEF SInv, Shapes, InCall, Quiet, Divisors, DivisorsFitClock, Locked, Answered
<1>6. Fresh' BY Zenon, <1>1, <1>2, <1>3, <1>4 DEF SInv, Fresh
<1>7. Clear' BY Zenon, <1>1, <1>2, <1>3 DEF SInv, Clear, Answered
<1>8. Alternate'
  <2> DEFINE from == chip.clock = "standby"
             to   == chip.freeze = "frozen"
  <2>1. Course(Append(rxq, w), from, to)
    <3>1. from \in BOOLEAN /\ to \in BOOLEAN /\ Course(rxq, from, to) BY DEF SInv, Alternate
    <3> HIDE DEF from, to, w
    <3> QED BY Zenon, <1>2, <1>4, <3>1, CourseAppend
  <2> QED BY Zenon, <1>1, <1>2, <2>1 DEF SInv, Alternate
<1>9. Settled'
  <2>1. ASSUME \A i, j \in DOMAIN rxq : Turning(rxq[i]) /\ Cur(rxq[j]) => i < j,
               NEW i \in DOMAIN rxq', NEW j \in DOMAIN rxq', Turning(rxq'[i]), Cur(rxq'[j])
        PROVE  i < j
    <3>1. i \in DOMAIN rxq BY Zenon, <1>3, <1>4, <2>1
    <3>2. CASE j \in DOMAIN rxq BY Zenon, <1>3, <2>1, <3>1, <3>2
    <3>3. CASE j = Len(rxq) + 1 BY <1>3, <3>1, <3>3
    <3> QED BY <1>3, <3>2, <3>3
  <2>2. (\A i \in DOMAIN rxq : ~Turning(rxq[i])) => \A i \in DOMAIN rxq' : ~Turning(rxq'[i])
    BY Zenon, <1>3, <1>4
  <2>3. Begun' = Begun BY <1>1
  <2> HIDE DEF Begun
  <2> QED BY Zenon, <1>1, <2>1, <2>2, <2>3 DEF SInv, Settled, Answered
<1> QED BY <1>5, <1>6, <1>7, <1>8, <1>9

\* A message of one byte; of Flash*Freeze, when the fabric has begun or ended it.
LEMMA TellsStep ==
  ASSUME SInv, NEW message \in Unsolicited, Tells(message), UNCHANGED svc,
         DOMAIN chip' = DOMAIN chip,
         UNCHANGED <<chip.clock, chip.div, chip.kept, chip.locked>>,
         \/ message \notin {"shutdown", "exit"} /\ chip'.freeze = chip.freeze
         \/ /\ message = "shutdown" /\ chip.freeze = "no" /\ chip'.freeze = "frozen"
            /\ svc.call.op # "iap" /\ (svc.main = "wait" => ~Answered)
         \/ /\ message = "exit" /\ chip.freeze = "frozen" /\ chip'.freeze \in {"thawed", "no"}
  PROVE  Shapes' /\ InCall' /\ Fresh' /\ Clear' /\ Quiet' /\ Locked' /\ Alternate' /\ Settled'
         /\ Divisors'
<1> DEFINE w == Event(message, TRUE)
<1>1. rxq' = Append(rxq, w) /\ UNCHANGED <<drv, cpu, en, txq, sys>>
  BY DEF Tells
<1>2. /\ rxq \in Seq(RxWords) /\ w \in RxWords
      /\ w.tag = "event" /\ w.val = message
      /\ Turning(w) <=> message \in {"shutdown", "exit"}
  BY TypesOf DEF SInv, IInv, Event, RxWords, Turning
<1> HIDE DEF w
<1>3. /\ DOMAIN rxq = 1 .. Len(rxq) /\ DOMAIN rxq' = 1 .. Len(rxq) + 1 /\ Len(rxq) \in Nat
      /\ \A i \in DOMAIN rxq : rxq'[i] = rxq[i]
      /\ rxq'[Len(rxq) + 1] = w
      /\ \A i \in DOMAIN rxq' : i \in DOMAIN rxq \/ i = Len(rxq) + 1
  BY <1>1, <1>2, AppendOf
<1>4. ~Cur(w) /\ w.tag # "old" BY <1>2
<1>5. Shapes' /\ InCall' /\ Quiet' /\ Divisors' /\ Locked'
  BY <1>1 DEF SInv, Shapes, InCall, Quiet, Divisors, DivisorsFitClock, Locked, Answered
<1>6. Fresh' BY Zenon, <1>1, <1>3, <1>4 DEF SInv, Fresh
<1>7. Clear' BY Zenon, <1>1, <1>3, <1>4 DEF SInv, Clear, Answered
<1>8. Alternate'
  <2> DEFINE from == chip.clock = "standby"
             to   == chip.freeze = "frozen"
             next == IF Turning(w) THEN ~to ELSE to
  <2>1. Course(rxq, from, to) BY DEF SInv, Alternate
  <2>2. Turning(w) => to = (w.val = "exit") BY <1>2
  <2>3. (chip'.freeze = "frozen") = next BY <1>2
  <2>4. Course(rxq', from, next)
    <3>1. from \in BOOLEAN /\ to \in BOOLEAN OBVIOUS
    <3> HIDE DEF from, to
    <3> QED BY Zenon, <1>1, <1>2, <2>1, <2>2, <3>1, CourseAppend
  <2>5. (chip'.clock = "standby") = from OBVIOUS
  <2> HIDE DEF from, next
  <2> QED BY Zenon, <1>1, <2>3, <2>4, <2>5 DEF SInv, Alternate
<1>9. Settled'
  <2>1. svc.call.op = "iap" => chip'.freeze = "no" BY DEF SInv, Settled
  <2>2. ASSUME svc.main = "wait", svc.call.op \in {"digest", "iap"}, Answered
        PROVE  /\ chip'.freeze = "no"
               /\ \A i, j \in DOMAIN rxq' : Turning(rxq'[i]) /\ Cur(rxq'[j]) => i < j
               /\ Begun \/ ~svc.busy => \A i \in DOMAIN rxq' : ~Turning(rxq'[i])
    <3>1. /\ chip.freeze = "no"
          /\ \A i, j \in DOMAIN rxq : Turning(rxq[i]) /\ Cur(rxq[j]) => i < j
          /\ Begun \/ ~svc.busy => \A i \in DOMAIN rxq : ~Turning(rxq[i])
      BY Zenon, <2>2 DEF SInv, Settled
    <3>2. message \notin {"shutdown", "exit"} /\ chip'.freeze = chip.freeze
      BY <2>2, <3>1
    <3>3. ~Turning(w) BY <1>2, <3>2
    <3> QED BY Zenon, <1>3, <1>4, <3>1, <3>2, <3>3
  <2>3. Begun' = Begun BY <1>1
  <2> HIDE DEF Begun
  <2> QED BY Zenon, <1>1, <2>1, <2>2, <2>3 DEF Settled, Answered
<1> QED BY <1>5, <1>6, <1>7, <1>8, <1>9

LEMMA SControllerStep ==
  ASSUME Legible, Steady, SInv, SController
  PROVE  SInv'
<1>1. CASE (Take \/ Refuse \/ Emit) /\ UNCHANGED <<svc, envm, chip>>
  <2>1. IInv' BY <1>1, OtherInvariant DEF SInv, Other, Controller
  <2> QED BY <1>1, <2>1, TakeStep, RefuseStep, EmitStep DEF SInv
<1>2. CASE SAnswer
  <2>1. IInv' BY <1>2, OtherInvariant DEF SInv, Other, Controller, SAnswer
  <2> QED BY <1>2, <2>1, SAnswerStep DEF SInv
<1>3. ASSUME NEW message \in Unsolicited, Tells(message) PROVE IInv'
  BY <1>3, OtherInvariant DEF SInv, Other
<1>4. "event" \in Unsolicited /\ "shutdown" \in Unsolicited /\ "exit" \in Unsolicited
  BY DEF Unsolicited
<1>5. CASE Notify /\ UNCHANGED <<svc, envm, chip>>
  <2>1. IInv' BY <1>3, <1>4, <1>5 DEF Notify
  <2> QED BY <1>4, <1>5, <2>1, TellsStep DEF SInv, Notify
<1>6. CASE Freezes
  <2>1. /\ sys.req.op \in {"freeze", "digest"} /\ Tells("shutdown") /\ UNCHANGED svc
        /\ chip.freeze = "no" /\ chip' = [chip EXCEPT !.freeze = "frozen"]
    BY <1>6 DEF Freezes, Freezing, Turns
  <2>2. /\ DOMAIN chip' = DOMAIN chip /\ chip'.freeze = "frozen"
        /\ UNCHANGED <<chip.clock, chip.div, chip.kept, chip.locked>>
    BY <2>1 DEF SInv, Shapes
  <2>3. sys.req # NoReq BY <2>1 DEF NoReq
  <2>4. svc.call.op # "iap" /\ (svc.main = "wait" => ~Answered)
    <3>1. CASE svc.main = "wait" BY <2>1, <2>3, <3>1, InHand DEF Answered
    <3>2. CASE svc.main # "wait" BY <2>1, <2>3, <3>2, InHand
    <3> QED BY <3>1, <3>2
  <2>5. IInv' BY <1>3, <1>4, <2>1
  <2> QED BY <1>4, <2>1, <2>2, <2>4, <2>5, TellsStep DEF SInv
<1>7. CASE Thaws
  <2>1. /\ Tells("exit") /\ UNCHANGED svc /\ chip.freeze = "frozen"
        /\ \E to \in {"thawed", "no"} : chip' = [chip EXCEPT !.freeze = to]
    BY <1>7 DEF Thaws, Turns
  <2>2. /\ DOMAIN chip' = DOMAIN chip /\ chip'.freeze \in {"thawed", "no"}
        /\ UNCHANGED <<chip.clock, chip.div, chip.kept, chip.locked>>
    BY <2>1 DEF SInv, Shapes
  <2>3. IInv' BY <1>3, <1>4, <2>1
  <2> QED BY <1>4, <2>1, <2>2, <2>3, TellsStep DEF SInv
<1> QED BY <1>1, <1>2, <1>5, <1>6, <1>7 DEF SController

---------------------------------------------------------------------------
(* The main loop.                                                          *)

\* The request is made, if the divisors that it keeps are those of the main clock.
LEMMA StartsStep ==
  ASSUME Legible, SInv, NEW t \in Seq(Requests), t # <<>>, Starts(t), Elsewhere,
         Chain(Head(t), Tail(t)),
         svc.main = "free" \/ (svc.main = "wait" /\ ~svc.busy),
         Head(t).op \in {"freeze", "iap"} => chip.freeze = "no" /\ chip.clock # "standby",
         chip.locked => Head(t).op = "number_of_keys"
  PROVE  SInv'
<1>1. IInv' BY OtherInvariant DEF SInv, Other
<1>2. /\ svc'.main = "spin" /\ svc'.call = Head(t) /\ svc'.todo = Tail(t)
      /\ DOMAIN svc' = DOMAIN svc /\ svc'.busy = svc.busy
      /\ DOMAIN chip' = DOMAIN chip /\ chip'.freeze = chip.freeze /\ chip'.clock = chip.clock
      /\ chip'.div = chip.div /\ chip'.locked = chip.locked
      /\ chip'.kept = IF Head(t).op \in {"freeze", "iap"} THEN chip.div ELSE chip.kept
  BY DEF Starts, SInv, Shapes
<1>3. UNCHANGED <<drv, cpu, en, txq, rxq, sys>> BY DEF Elsewhere
<1>4. Head(t) \in Requests BY TailOf
<1>5. Shapes' /\ Fresh' /\ Clear' /\ Quiet' /\ Settled'
  BY <1>2, <1>3 DEF SInv, Shapes, Fresh, Clear, Quiet, Settled
<1>6. InCall' BY <1>2, <1>3, <1>4 DEF SInv, InCall
<1>7. Locked' /\ Divisors'
  BY <1>2 DEF SInv, Locked, Divisors, DivisorsFitClock
<1>8. Alternate' BY Zenon, <1>2, <1>3 DEF SInv, Alternate
<1> QED BY <1>1, <1>5, <1>6, <1>7, <1>8 DEF SInv

\* What follows in a service.
LEMMA ChainTail ==
  ASSUME NEW call, NEW t, t # <<>>, Chain(call, t)
  PROVE  /\ t \in Seq(Requests) /\ Chain(Head(t), Tail(t))
         /\ call.op \in Locking => Head(t).op = "number_of_keys"
         /\ Head(t).op \in {"freeze", "iap"} => Head(t).op = "iap" /\ call.op = "digest"
<1>1. t \in Seq(Requests) BY DEF Chain
<1>2. /\ Len(t) \in Nat \ {0} /\ Head(t) = t[1] /\ Tail(t) \in Seq(Requests)
      /\ Len(Tail(t)) = Len(t) - 1 /\ \A i \in 1 .. Len(t) - 1 : Tail(t)[i] = t[i + 1]
  BY <1>1, TailOf
<1>3. ASSUME NEW i \in 0 .. Len(Tail(t))
      PROVE  LET op == IF i = 0 THEN Head(t).op ELSE Tail(t)[i].op
             IN /\ op \in Locking => /\ i < Len(Tail(t))
                                     /\ Tail(t)[i + 1].op = "number_of_keys"
                /\ i < Len(Tail(t)) /\ Tail(t)[i + 1].op \in {"freeze", "iap"} =>
                     Tail(t)[i + 1].op = "iap" /\ op = "digest"
  <2>1. /\ i + 1 \in 0 .. Len(t) /\ i + 1 # 0 /\ (i < Len(Tail(t)) <=> i + 1 < Len(t))
        /\ (IF i = 0 THEN Head(t).op ELSE Tail(t)[i].op) = t[i + 1].op
        /\ i < Len(Tail(t)) => Tail(t)[i + 1] = t[(i + 1) + 1]
    BY <1>2
  <2> QED BY <2>1 DEF Chain
<1>4. /\ 0 \in 0 .. Len(t) /\ 0 < Len(t) /\ t[0 + 1] = Head(t)
  BY <1>2
<1>5. /\ call.op \in Locking => Head(t).op = "number_of_keys"
      /\ Head(t).op \in {"freeze", "iap"} => Head(t).op = "iap" /\ call.op = "digest"
  BY <1>4 DEF Chain
<1> QED BY <1>1, <1>2, <1>3, <1>5 DEF Chain

LEMMA ServiceChain ==
  ASSUME NEW s \in Services
  PROVE  s \in Seq(Requests) /\ s # <<>> /\ Chain(Head(s), Tail(s))
<1>1. s \in Seq(Requests) /\ s # <<>> BY ServicesAssumption
<1>2. /\ Len(s) \in Nat \ {0} /\ Head(s) = s[1] /\ Tail(s) \in Seq(Requests)
      /\ Len(Tail(s)) = Len(s) - 1 /\ \A i \in 1 .. Len(s) - 1 : Tail(s)[i] = s[i + 1]
  BY <1>1, TailOf
<1>3. ASSUME NEW i \in 0 .. Len(Tail(s))
      PROVE  LET op == IF i = 0 THEN Head(s).op ELSE Tail(s)[i].op
             IN /\ op \in Locking => /\ i < Len(Tail(s))
                                     /\ Tail(s)[i + 1].op = "number_of_keys"
                /\ i < Len(Tail(s)) /\ Tail(s)[i + 1].op \in {"freeze", "iap"} =>
                     Tail(s)[i + 1].op = "iap" /\ op = "digest"
  <2>1. /\ i + 1 \in 1 .. Len(s) /\ (i < Len(Tail(s)) <=> i + 1 < Len(s))
        /\ (IF i = 0 THEN Head(s).op ELSE Tail(s)[i].op) = s[i + 1].op
        /\ i < Len(Tail(s)) => /\ Tail(s)[i + 1] = s[(i + 1) + 1]
                              /\ (i + 1) + 1 \in 2 .. Len(s) /\ ((i + 1) + 1) - 1 = i + 1
    BY <1>2
  <2>2. s[i + 1].op \in Locking => i + 1 < Len(s) /\ s[(i + 1) + 1].op = "number_of_keys"
    BY <2>1, ServicesAssumption
  <2>3. ASSUME i < Len(Tail(s)), s[(i + 1) + 1].op \in {"freeze", "iap"}
        PROVE  s[(i + 1) + 1].op = "iap" /\ s[i + 1].op = "digest"
    BY <2>1, <2>3, ServicesAssumption
  <2> QED BY <2>1, <2>2, <2>3
<1> QED BY <1>1, <1>2, <1>3 DEF Chain

LEMMA CallStep ==
  ASSUME Legible, Steady, SInv, NEW s \in Services, Call(s)
  PROVE  SInv'
<1>1. /\ svc.main = "free" /\ Starts(s) /\ Elsewhere
      /\ Head(s).op \in {"freeze", "iap"} => chip.freeze = "no" /\ chip.clock # "standby"
  BY DEF Call, Elsewhere, Steady
<1>2. ~chip.locked BY <1>1 DEF SInv, Locked
<1> QED BY <1>1, <1>2, ServiceChain, StartsStep

\* A service has the answer that it waited for.
LEMMA HasReturned ==
  ASSUME SInv, svc.main = "wait", ~svc.busy
  PROVE  /\ svc.got = "own" /\ Answered
         /\ svc.call.op \in {"digest", "iap"} => chip.freeze = "no" /\ chip.clock # "standby"
         /\ chip.locked => svc.call.op \in Locking
<1>1. svc.got = "own" /\ Answered BY DEF SInv, InCall, Clear
<1>2. chip.locked => svc.call.op \in Locking BY <1>1 DEF SInv, Locked
<1>3. ASSUME svc.call.op \in {"digest", "iap"}
      PROVE  chip.freeze = "no" /\ chip.clock # "standby"
  <2> DEFINE from == chip.clock = "standby"
             to   == chip.freeze = "frozen"
  <2>1. chip.freeze = "no" /\ \A i \in DOMAIN rxq : ~Turning(rxq[i])
    BY Zenon, <1>1, <1>3 DEF SInv, Settled
  <2>2. Course(rxq, from, to) /\ rxq \in Seq(RxWords)
    BY TypesOf DEF SInv, Alternate, IInv
  <2>3. from = to
    <3> HIDE DEF from, to
    <3> QED BY Zenon, <2>1, <2>2, CourseNone
  <2> QED BY <2>1, <2>3
<1> QED BY <1>1, <1>2, <1>3

LEMMA ReturnStep ==
  ASSUME Legible, Steady, SInv, Return
  PROVE  SInv'
<1>1. /\ svc.main = "wait" /\ ~svc.busy /\ Elsewhere
      /\ svc.call \in Requests /\ Chain(svc.call, svc.todo)
  BY DEF Return, Elsewhere, SInv, InCall
<1>2. CASE svc.todo # <<>>
  <2>1. Starts(svc.todo) BY <1>2 DEF Return
  <2> QED BY <1>1, <1>2, <2>1, HasReturned, ChainTail, StartsStep
<1>3. CASE svc.todo = <<>>
  <2> DEFINE iap == svc.call.op = "iap"
  <2>1. /\ svc' = [svc EXCEPT !.main = "free", !.call = NoReq]
        /\ chip' = [chip EXCEPT !.div = IF iap THEN chip.kept ELSE @]
    BY <1>3 DEF Return
  <2>2. /\ svc'.main = "free" /\ svc'.call = NoReq /\ svc'.busy = svc.busy
        /\ DOMAIN svc' = DOMAIN svc
        /\ DOMAIN chip' = DOMAIN chip /\ chip'.freeze = chip.freeze
        /\ chip'.clock = chip.clock /\ chip'.locked = chip.locked /\ chip'.kept = chip.kept
        /\ chip'.div = IF iap THEN chip.kept ELSE chip.div
    BY <2>1 DEF SInv, Shapes
  <2>3. UNCHANGED <<drv, cpu, en, txq, rxq, sys>> BY <1>1 DEF Elsewhere
  <2>4. svc.call.op \notin Locking
    <3>1. Len(svc.todo) = 0 /\ 0 \in 0 .. Len(svc.todo) BY <1>3
    <3> QED BY <1>1, <3>1 DEF Chain
  <2>5. IInv' BY <1>1, OtherInvariant DEF SInv, Other
  <2>6. Shapes' /\ InCall' /\ Fresh' /\ Clear' /\ Quiet'
    BY <1>1, <2>2, <2>3 DEF SInv, Shapes, InCall, Fresh, Clear, Quiet
  <2>7. Locked' BY <1>1, <2>2, <2>4, HasReturned DEF Locked
  <2>8. Divisors' BY <1>1, <2>2, HasReturned DEF SInv, Divisors, DivisorsFitClock
  <2>9. Settled' BY <2>2 DEF Settled, NoReq
  <2>10. Alternate' BY Zenon, <2>2, <2>3 DEF SInv, Alternate
  <2> QED BY <2>5, <2>6, <2>7, <2>8, <2>9, <2>10 DEF SInv
<1> QED BY <1>2, <1>3

LEMMA EnterStep ==
  ASSUME SInv, Enter
  PROVE  SInv'
<1> DEFINE r == svc.call
<1>1. /\ svc.main = "spin" /\ ~svc.busy /\ Send(r) /\ UNCHANGED chip /\ r \in Requests
      /\ Chain(r, svc.todo)
  BY DEF Enter, SInv, InCall
<1>2. /\ svc'.busy = TRUE /\ svc'.got = "none" /\ svc'.todo = svc.todo
      /\ DOMAIN svc' = DOMAIN svc
      /\ svc'.main = IF r.handler = "isp" THEN "free" ELSE "wait"
      /\ svc'.call = IF r.handler = "isp" THEN NoReq ELSE r
  BY DEF Enter, SInv, Shapes
<1>3. /\ rxq \in Seq(RxWords) /\ txq \in Seq(TxWords) /\ sys.out \in Seq(RxWords)
      /\ DOMAIN sys = {"req", "tag", "need", "out"}
      /\ DOMAIN drv = {"state", "req", "cmd", "data", "pages", "rx", "handler", "prog"}
  BY TypesOf DEF SInv, IInv, PeerFields, Globals, Peer
\* Nothing of the last command is left.
<1>4. /\ sys.req = NoReq /\ \A i \in DOMAIN txq : ~txq[i].first /\ txq[i].req = NoReq
      /\ \A i \in DOMAIN rxq : rxq[i].tag = "event" /\ rxq[i].val \in Unsolicited
      /\ \A i \in DOMAIN sys.out : sys.out[i].tag = "event" /\ sys.out[i].val \in Unsolicited
      /\ ~drv.prog
  <2>1. /\ \A i \in DOMAIN rxq : rxq[i] \in RxWords
        /\ \A i \in DOMAIN sys.out : sys.out[i] \in RxWords
    BY <1>3
  <2>2. \A w \in RxWords : w.tag \in {"cur", "old", "event"} BY DEF RxWords
  <2>3. /\ \A i \in DOMAIN rxq : rxq[i].tag = "event"
        /\ \A i \in DOMAIN sys.out : sys.out[i].tag = "event"
    BY <1>1, <2>1, <2>2 DEF SInv, Fresh, Clear
  <2>4. /\ \A i \in DOMAIN rxq : rxq[i].val \in Unsolicited
        /\ \A i \in DOMAIN sys.out : sys.out[i].val \in Unsolicited
    BY <2>3 DEF SInv, IInv, Mail, Readable
  <2>5. ~Busy BY <1>1 DEF SInv, InCall
  <2>6. ~drv.prog BY <2>5 DEF SInv, IInv, Control
  <2> QED BY <1>1, <2>3, <2>4, <2>6 DEF SInv, Fresh, Clear
<1>5. r.op \notin Owed
  <2>1. r.op \notin Unsolicited \cup {"none"} BY <1>1
  <2>2. Unflushed = txq BY <1>4 DEF Unflushed
  <2>3. r.op \notin {w.val : w \in Range(rxq) \cup Range(sys.out)}
    BY <1>4, <2>1 DEF Range
  <2>4. r.op \notin {txq[i].req.op : i \in DOMAIN txq} /\ r.op # sys.req.op
    BY <1>4, <2>1 DEF NoReq
  <2> QED BY <2>2, <2>3, <2>4 DEF Owed
<1>6. IInv' BY <1>1, <1>5, SendInvariant DEF SInv
<1>7. /\ drv'.req = r /\ drv'.handler = r.handler /\ cpu' = "opcode"
      /\ txq' = Aged(txq) /\ rxq' = Aged(rxq)
      /\ sys'.tag = "old" /\ sys'.req = NoReq /\ sys'.out = Aged(sys.out)
  BY <1>1, <1>3, <1>4 DEF Send, Unflushed
<1>8. /\ DOMAIN rxq' = DOMAIN rxq /\ \A i \in DOMAIN rxq : rxq'[i] = rxq[i]
      /\ DOMAIN sys'.out = DOMAIN sys.out /\ \A i \in DOMAIN sys.out : sys'.out[i] = sys.out[i]
      /\ DOMAIN txq' = DOMAIN txq
      /\ \A i \in DOMAIN txq : txq'[i].first = txq[i].first /\ txq'[i].req = txq[i].req
  <2>1. /\ DOMAIN rxq' = DOMAIN rxq /\ \A i \in DOMAIN rxq : rxq'[i] = rxq[i]
        /\ DOMAIN sys'.out = DOMAIN sys.out
        /\ \A i \in DOMAIN sys.out : sys'.out[i] = sys.out[i]
    BY <1>4, <1>7 DEF Aged
  <2> QED BY <1>3, <1>7, <2>1, AgedTx
<1>9. Shapes' BY <1>1, <1>2 DEF SInv, Shapes
<1>10. InCall' BY <1>1, <1>2, <1>7, ServicesAssumption DEF InCall
<1>11. Fresh' BY <1>4, <1>7, <1>8 DEF Fresh
<1>12. Clear' /\ Quiet' BY <1>2, <1>7 DEF Clear, Quiet
<1>13. Locked'
  <2>1. ~Answered' BY <1>7 DEF Answered
  <2>2. chip.locked => r.op = "number_of_keys" /\ r.handler # "isp"
    BY <1>1, ServicesAssumption DEF SInv, Locked
  <2> QED BY <1>1, <1>2, <2>1, <2>2 DEF Locked
<1>14. Alternate'
  <2>1. Course(Aged(rxq), chip.clock = "standby", chip.freeze = "frozen")
    BY <1>3, CourseAged DEF SInv, Alternate
  <2>2. \A i \in DOMAIN sys'.out : ~Turning(sys'.out[i])
    BY Zenon, <1>8 DEF SInv, Alternate
  <2> QED BY Zenon, <1>1, <1>7, <2>1, <2>2 DEF Alternate
<1>15. Settled'
  <2>1. ~Answered' BY <1>7 DEF Answered
  <2> QED BY <1>1, <1>2, <2>1 DEF SInv, Settled, NoReq
<1>16. Divisors' BY <1>1 DEF SInv, Divisors, DivisorsFitClock
<1> QED
  BY <1>6, <1>9, <1>10, <1>11, <1>12, <1>13, <1>14, <1>15, <1>16 DEF SInv

---------------------------------------------------------------------------
(* All steps.                                                              *)

LEMMA SInitInvariant == SInit => SInv
<1> SUFFICES ASSUME SInit PROVE SInv
  OBVIOUS
<1>1. IInv BY InitInvariant DEF SInit
<1>2. /\ drv.handler = "none" /\ drv.req = NoReq /\ cpu = "idle" /\ txq = <<>> /\ rxq = <<>>
      /\ sys.req = NoReq /\ sys.tag = "old" /\ sys.out \in {<<>>, DigestError}
  BY DEF SInit, Init
<1>3. /\ svc.main = "free" /\ svc.call = NoReq /\ svc.busy = FALSE
      /\ chip.freeze = "no" /\ chip.clock # "standby" /\ chip.div = "design"
      /\ chip.kept = "design" /\ chip.locked = FALSE
  BY DEF SInit
<1>4. \A i \in DOMAIN sys.out : ~Turning(sys.out[i]) /\ sys.out[i].tag = "event"
  BY <1>2 DEF DigestError, Event, Turning, POR_DIGEST_ERROR_OPCODE
<1>5. Shapes BY DEF SInit, Shapes
<1>6. InCall /\ Clear /\ Quiet /\ Locked /\ Divisors /\ Fresh
  BY <1>2, <1>3, <1>4
  DEF InCall, Clear, Quiet, Locked, Divisors, DivisorsFitClock, Fresh
<1>7. Settled BY <1>3 DEF Settled, NoReq
<1>8. Alternate
  <2> DEFINE standby == [i \in {0} |-> FALSE]
  <2>1. /\ standby \in [0 .. Len(rxq) -> BOOLEAN] /\ standby[0] = FALSE
        /\ DOMAIN rxq = {} /\ \A i \in 0 .. Len(rxq) : standby[i] = FALSE
    BY <1>2
  <2> HIDE DEF standby
  <2>2. Course(rxq, FALSE, FALSE) BY Zenon, <2>1 DEF Course
  <2>3. (chip.clock = "standby") = FALSE /\ (chip.freeze = "frozen") = FALSE BY <1>3
  <2> QED BY Zenon, <1>4, <2>2, <2>3 DEF Alternate
<1> QED BY <1>1, <1>5, <1>6, <1>7, <1>8 DEF SInv

\* A step of the services, or one elsewhere in the program, which leaves them alone.
Aside == Elsewhere /\ UNCHANGED <<svc, chip>>
SStep == SNext \/ Aside \/ UNCHANGED svars

LEMMA SStepInvariant ==
  ASSUME Legible, Steady, SInv, SStep
  PROVE  SInv'
<1>1. CASE Aside \/ UNCHANGED svars
  <2>1. UNCHANGED <<drv, cpu, en, txq, rxq, sys, svc, chip>>
    BY <1>1 DEF Aside, Elsewhere, svars, vars
  <2>2. IInv' BY <1>1, OtherInvariant DEF SInv, Other, Aside, svars
  <2>3. Shapes' /\ InCall' /\ Fresh' /\ Clear' /\ Quiet' /\ Locked' /\ Divisors'
    BY <2>1
    DEF SInv, Shapes, InCall, Fresh, Clear, Quiet, Locked, Answered, Divisors, DivisorsFitClock
  <2>4. Settled' /\ Alternate' BY Zenon, <2>1 DEF SInv, Settled, Alternate, Answered
  <2> QED BY <2>2, <2>3, <2>4 DEF SInv
<1> QED
  BY <1>1, CallStep, EnterStep, ReturnStep, SDriverStep, SControllerStep DEF SStep, SNext

\* To the caller: asked, answered by its own answer, returned.
LEMMA CallSimulated ==
  ASSUME SInv, SInv', SStep
  PROVE  [ABS!Next]_(ABS!vars)
<1> DEFINE call   == IF svc.main = "wait" THEN svc.call ELSE NoReq
           status == IF svc.main = "wait" THEN svc.got ELSE "none"
<1> USE DEF ABS!Next, ABS!vars
<1>1. SUFFICES \/ call' = call /\ status' = status
               \/ call = NoReq /\ call' \in Requests /\ status' = "none"
               \/ call # NoReq /\ status = "none" /\ status' = "own" /\ call' = call
               \/ status # "none" /\ call' = NoReq /\ status' = "none"
  BY Zenon DEF ABS!Ask, ABS!Reply, ABS!Return
<1>2. NoReq \notin Requests BY DEF NoReq
<1>3. CASE Aside \/ UNCHANGED svars BY <1>3 DEF Aside, svars
<1>4. ASSUME NEW s \in Services, Call(s) PROVE call' = call /\ status' = status
  BY <1>4 DEF Call, Starts, SInv, Shapes
<1>5. CASE Enter
  <2>1. /\ svc.main = "spin" /\ svc.call \in Requests /\ svc'.got = "none"
        /\ svc'.main = IF svc.call.handler = "isp" THEN "free" ELSE "wait"
        /\ svc'.call = IF svc.call.handler = "isp" THEN NoReq ELSE svc.call
    BY <1>5 DEF Enter, SInv, Shapes, InCall
  <2> QED BY <2>1
<1>6. CASE Return
  <2>1. svc.main = "wait" /\ svc.got = "own" /\ svc'.main \in {"spin", "free"}
    <3>1. svc.main = "wait" /\ ~svc.busy BY <1>6 DEF Return
    <3>2. svc'.main \in {"spin", "free"} BY <1>6 DEF Return, Starts, SInv, Shapes
    <3> QED BY <3>1, <3>2, HasReturned
  <2> QED BY <2>1
<1>7. CASE SDriver
  <2>1. \/ svc' = svc
        \/ /\ svc'.main = svc.main /\ svc'.call = svc.call /\ svc'.busy = FALSE
           /\ done'.handler = "request"
    BY <1>7 DEF SDriver, Handled, SInv, Shapes
  <2>2. CASE svc' = svc BY <2>2
  <2>3. CASE svc.busy /\ svc.main = "wait" /\ svc'.main = svc.main /\ svc'.call = svc.call
             /\ svc'.busy = FALSE
    <3>1. svc.got = "none" /\ svc'.got = "own" /\ svc.call \in Requests
      BY <2>3 DEF SInv, InCall
    <3> QED BY <1>2, <2>3, <3>1
  <2>4. CASE ~svc.busy /\ svc'.main = svc.main /\ svc'.call = svc.call /\ svc'.busy = FALSE
    <3>1. svc.main = "wait" => svc.got = "own" /\ svc'.got = "own"
      BY <2>4 DEF SInv, InCall
    <3> QED BY <2>4, <3>1
  <2>5. CASE svc.main # "wait" /\ svc'.main = svc.main BY <2>5
  <2>6. svc.busy \in BOOLEAN BY DEF SInv, Shapes
  <2> QED BY <2>1, <2>2, <2>3, <2>4, <2>5, <2>6
<1>8. CASE SController
  <2>1. svc' = svc
    BY <1>8 DEF SController, SAnswer, Freezes, Thaws, Turns
  <2> QED BY <2>1
<1> QED BY <1>3, <1>4, <1>5, <1>6, <1>7, <1>8 DEF SStep, SNext

---------------------------------------------------------------------------
(* The theorems.                                                           *)

\* The inductive invariant.
THEOREM SInvariantHolds ==
  ASSUME Legible, Steady PROVE SSpec => []SInv
<1>1. SInit => SInv BY SInitInvariant
<1>2. SInv /\ [SNext]_svars => SInv' BY SStepInvariant DEF SStep
<1> QED BY <1>1, <1>2, PTL DEF SSpec

\* When a service has returned the controller does not hold eNVM-1.
THEOREM EnvmReleasedHolds ==
  ASSUME Legible, Steady PROVE SSpec => []EnvmReleased
<1>1. SInv => EnvmReleased BY DEF SInv, Locked, EnvmReleased
<1> QED BY <1>1, SInvariantHolds, PTL

\* The divisors are those of the clock that the processor runs from.
THEOREM DivisorsFitClockHolds ==
  ASSUME Legible, Steady PROVE SSpec => []DivisorsFitClock
<1>1. SInv => DivisorsFitClock BY DEF SInv, Divisors
<1> QED BY <1>1, SInvariantHolds, PTL

\* Every step is one that ServiceCall lets a caller see.
THEOREM CallsAreServed ==
  ASSUME Legible, Steady PROVE SSpec => ABS!Init /\ [][ABS!Next]_(ABS!vars)
<1>1. SInit => ABS!Init BY DEF SInit, ABS!Init
<1>2. SInv /\ SInv' /\ [SNext]_svars => [ABS!Next]_(ABS!vars)
  BY CallSimulated DEF SStep
<1> QED BY <1>1, <1>2, SInvariantHolds, PTL DEF SSpec

---------------------------------------------------------------------------
(* Part 3: the eNVM driver beside the services.                             *)

HIDE ComblkAssumption
HIDE DEF Cur, Busy, Sending, Begun

---------------------------------------------------------------------------
(* Pages, areas and buffers.  The numbers are too large to be enumerated:    *)
(* bounds are stated as inequalities.                                        *)

\* The sizes of the eNVM.
LEMMA Sizes ==
  /\ NVM_TOP \in Nat /\ NVM_TOP = 2 * NVM1_BOTTOM - 1
  /\ NVM1_BOTTOM = BYTES_PER_PAGE * PAGES_PER_BLOCK
  /\ BYTES_PER_PAGE = 128 /\ PAGES_PER_BLOCK = 2048
BY SMT DEF NVM_TOP, NVM1_BOTTOM, BYTES_PER_PAGE, PAGES_PER_BLOCK

\* The block of a byte and the page in it make the page that is meant.
LEMMA PageInBlock ==
  ASSUME NEW offset \in Nat, offset <= NVM_TOP
  PROVE  Block(offset) * PAGES_PER_BLOCK + (offset % NVM1_BOTTOM) \div BYTES_PER_PAGE
           = offset \div BYTES_PER_PAGE
<1> DEFINE q == offset \div 128
           r == offset % 128
<1>1. q \in Nat /\ r \in Nat /\ r < 128 /\ offset = 128 * q + r BY Sizes, SMT
<1>2. NVM1_BOTTOM = 262144 BY Sizes, SMT
<1>3. CASE offset < NVM1_BOTTOM
  <2>1. offset % NVM1_BOTTOM = offset BY SMT, Sizes, <1>2, <1>3
  <2> QED BY SMT, <1>1, <1>3, <2>1, Sizes DEF Block
<1>4. CASE ~(offset < NVM1_BOTTOM)
  <2>1. offset % NVM1_BOTTOM = offset - 262144 BY SMT, Sizes, <1>2, <1>4
  <2>2. (offset - 262144) = 128 * (q - 2048) + r BY SMT, <1>1
  <2>3. q - 2048 \in Nat BY SMT, <1>1, <1>2, <1>4
  <2>4. (offset - 262144) \div 128 = q - 2048 
    <3> HIDE DEF q, r
    <3> QED BY SMT, <1>1, <2>2, <2>3
  <2> QED BY SMT, <1>1, <1>4, <2>1, <2>4, Sizes DEF Block
<1> QED BY <1>3, <1>4

\* The areas of a device begin and end with a page.
LEMMA LayoutInPages ==
  ASSUME NEW device \in Devices
  PROVE  /\ Layout(device).reserved \in Nat /\ Layout(device).reserved <= NVM_TOP
         /\ \A a \in Layout(device).areas :
              /\ a.id \in 0 .. 3
              /\ a.id = 0 => a.from = 0
              /\ \E k, l \in Nat : a.from = 128 * k /\ a.to = 128 * l + 127
<1> DEFINE PagedArea(a) ==
             /\ a.id \in 0 .. 3
             /\ a.id = 0 => a.from = 0
             /\ \E k, l \in Nat : a.from = 128 * k /\ a.to = 128 * l + 127
           Paged(l) == /\ l.reserved \in Nat /\ l.reserved <= NVM_TOP
                       /\ \A a \in l.areas : PagedArea(a)
<1>1. Layout(device) \in {Device005, Device010, Device060, Device090}
  BY NvmAssumption DEF Layout
<1>2. /\ PagedArea(Lower0)
      /\ PagedArea(Area(1, 126976, 131071)) /\ PagedArea(Area(1, 258048, 262143))
      /\ PagedArea(Area(3, 249856, 253951))
      /\ PagedArea(Area(1, 512000, 516095)) /\ PagedArea(Area(2, 507904, 511999))
      /\ PagedArea(Area(3, 503808, 507903))
  BY SMT DEF Lower0, Area
<1> HIDE DEF PagedArea
<1>3. 512000 - 1 = 511999 BY SMT
<1>4. Paged(Device005) /\ Paged(Device010) /\ Paged(Device060)
  BY SMT, <1>2 DEF Device005, Device010, Device060, NVM_TOP
<1>7. Paged(Device090) BY SMT, <1>2, <1>3 DEF Device090, NVM_TOP
<1> HIDE DEF Paged
<1>8. Paged(Layout(device)) BY <1>1, <1>4, <1>7
<1> QED BY <1>8 DEF Paged, PagedArea

\* The pages of a range of bytes that ends below an area of whole pages, or begins
\* above it, are none of that area.
LEMMA ApartInPages ==
  ASSUME NEW first \in Nat, NEW last \in Nat, NEW k \in Nat, NEW l \in Nat,
         last < 128 * k \/ first > 128 * l + 127
  PROVE  (first \div 128 .. last \div 128)
           \cap ((128 * k) \div 128 .. (128 * l + 127) \div 128) = {}
<1>1. (128 * k) \div 128 = k /\ (128 * l + 127) \div 128 = l
  OBVIOUS
<1>2. last < 128 * k => last \div 128 < k OBVIOUS
<1>3. first > 128 * l + 127 => first \div 128 > l OBVIOUS
<1>4. first \div 128 \in Nat /\ last \div 128 \in Nat OBVIOUS
<1> QED BY <1>1, <1>2, <1>3, <1>4

\* What a call is.
LEMMA CallFields ==
  ASSUME NEW c \in NvmCalls
  PROVE  /\ DOMAIN c = {"op", "start", "length", "lock"}
         /\ c.op \in {"write", "unlock", "count"}
         /\ c.start \in Nat /\ c.length \in Nat
<1>1. c \in [op : {"write", "unlock", "count"}, start : 0 .. NVM_TOP,
            length : 0 .. NVM_TOP, lock : 0 .. 2]
  BY NvmAssumption
<1>2. c.op \in {"write", "unlock", "count"} /\ c.start \in 0 .. NVM_TOP /\ c.length \in 0 .. NVM_TOP
  BY <1>1
<1>3. DOMAIN c = {"op", "start", "length", "lock"} BY <1>1
<1>4. NVM_TOP \in Nat BY Sizes
<1> HIDE DEF NVM_TOP
<1> QED BY <1>2, <1>3, <1>4

\* check_protection_reserved_nvm permits what a call needs.
LEMMA CheckedIsPermitted ==
  ASSUME Careful, NEW c \in NvmCalls, NEW device \in Devices, NEW p \in Protections,
         c.op # "count", ~Invalid(c),
         CheckProtection(device, p, c.start, c.length) = "SUCCESS"
  PROVE  Permitted(c, device, p)
<1> DEFINE last == c.start + c.length - 1
           L == Layout(device)
<1>1. c.start \in Nat /\ c.length \in Nat /\ c.length > 0 /\ last \in Nat
  BY SMT, CallFields DEF Invalid
<1>0. L.reserved \in Nat BY LayoutInPages
<1>2. /\ \A a \in L.areas : p[a.id] # "rw" => ~Meets(a, c.start, last)
      /\ ~(last >= L.reserved)
  <2> HIDE DEF L
  <2> QED BY SMT, <1>1 DEF CheckProtection, ProtectionCheck, L
<1>3. ASSUME NEW a \in L.areas, p[a.id] # "rw"
      PROVE  PagesOf(c) \cap (a.from \div BYTES_PER_PAGE .. a.to \div BYTES_PER_PAGE) = {}
  <2>1. PICK k, l \in Nat : a.from = 128 * k /\ a.to = 128 * l + 127
    BY LayoutInPages
  <2>2. a.id = 0 => a.from = 0 /\ c.start # 0 BY <1>3, LayoutInPages DEF Careful
  <2>3. last < 128 * k \/ c.start > 128 * l + 127
    <3>1. ~Meets(a, c.start, last) BY <1>2, <1>3
    <3> QED BY SMT, <1>1, <2>1, <2>2, <3>1 DEF Meets
  <2> QED BY SMT, <1>1, <2>1, <2>3, ApartInPages DEF PagesOf, BYTES_PER_PAGE
<1>4. last < L.reserved BY SMT, <1>0, <1>1, <1>2
<1> QED BY <1>1, <1>3, <1>4 DEF Permitted

\* The page of a byte of a call that is permitted may be written.
LEMMA PermittedPage ==
  ASSUME NEW call, NEW device \in Devices, NEW protection, Permitted(call, device, protection),
         call.start \in Nat, call.length \in Nat, NEW page \in PagesOf(call)
  PROVE  /\ page * BYTES_PER_PAGE < Layout(device).reserved
         /\ \A a \in Layout(device).areas :
              protection[a.id] # "rw" =>
                page \notin a.from \div BYTES_PER_PAGE .. a.to \div BYTES_PER_PAGE
<1> DEFINE last == call.start + call.length - 1
           L == Layout(device)
<1>1. L.reserved \in Nat BY LayoutInPages
<1>2. last \in Nat /\ last < L.reserved BY SMT DEF Permitted
<1>3. page \in Nat /\ page <= last \div 128
  <2>1. page \in call.start \div 128 .. last \div 128 BY DEF PagesOf, BYTES_PER_PAGE
  <2>2. call.start \div 128 \in Nat /\ last \div 128 \in Nat BY SMT, <1>2
  <2> QED BY SMT, <2>1, <2>2
<1> HIDE DEF last, L
<1>4. (last \div 128) * 128 <= last BY SMT, <1>2
<1>5. page * 128 <= (last \div 128) * 128 BY SMT, <1>2, <1>3
<1>6. page * 128 < L.reserved BY SMT, <1>1, <1>2, <1>3, <1>4, <1>5
<1> QED BY <1>6 DEF Permitted, BYTES_PER_PAGE, L

\* A piece of a write stays in its page and in what is left.
LEMMA PieceInPage ==
  ASSUME NEW offset \in Nat, NEW left \in Nat \ {0}
  PROVE  /\ RemainingPageLength(offset, left) \in Nat
         /\ RemainingPageLength(offset, left) \in 1 .. left
         /\ (offset % 128) + RemainingPageLength(offset, left) <= 128
         /\ offset % 128 \in Nat
<1> DEFINE q == offset \div 128
           r == offset % 128
<1>1. q \in Nat /\ r \in Nat /\ r < 128 /\ offset = 128 * q + r OBVIOUS
<1>2. (offset + left) \div 128 >= q + 1 <=> offset + left >= 128 * (q + 1) BY <1>1
<1>3. RemainingPageLength(offset, left) = IF r + left >= 128 THEN 128 - r ELSE left
  BY <1>1, <1>2 DEF RemainingPageLength, BYTES_PER_PAGE
<1> QED BY <1>1, <1>3

\* The buffer of a piece holds each byte of its page, read or given.
LEMMA BufferIsWhole ==
  ASSUME NEW offset \in Nat, NEW n \in Nat, n > 0, offset % 128 \in Nat, (offset % 128) + n <= 128
  PROVE  Seeds(offset, n) \cup Data(offset, n) = 0 .. BYTES_PER_PAGE - 1
<1> DEFINE f == offset % 128
           e == (offset + n) % 128
<1>1. f \in Nat /\ f < 128 /\ f + n <= 128 OBVIOUS
<1>2. e = IF f + n = 128 THEN 0 ELSE f + n
  OBVIOUS
<1>3. Data(offset, n) = f .. f + n - 1 BY DEF Data, BYTES_PER_PAGE
<1>4. n # 128 => Seeds(offset, n) = (0 .. 4 * ((f + 3) \div 4) - 1) \cup (4 * (e \div 4) .. 127)
  <2>1. BYTES_PER_PAGE = 128 /\ WORD = 4 /\ 128 - 1 = 127 /\ f + 4 - 1 = f + 3
     BY SMT, <1>1 DEF BYTES_PER_PAGE, WORD
  <2> QED BY Zenon, <2>1 DEF Seeds
<1>5. n = 128 => Seeds(offset, n) = {} BY DEF Seeds, BYTES_PER_PAGE
<1>0. BYTES_PER_PAGE - 1 = 127 BY DEF BYTES_PER_PAGE
<1> HIDE DEF f, e
<1>6. /\ 4 * ((f + 3) \div 4) \in Nat /\ 4 * ((f + 3) \div 4) >= f /\ 4 * ((f + 3) \div 4) <= 128
      /\ 4 * (e \div 4) \in Nat /\ 4 * (e \div 4) <= e
  BY <1>1, <1>2
<1>7. CASE n = 128 BY <1>0, <1>1, <1>3, <1>5, <1>7
<1>8. CASE n # 128
  <2> DEFINE u == 4 * ((f + 3) \div 4)
             v == 4 * (e \div 4)
  <2>1. u \in Nat /\ u >= f /\ u <= 128 /\ v \in Nat /\ v <= f + n BY <1>1, <1>2, <1>6
  <2>2. Seeds(offset, n) = (0 .. u - 1) \cup (v .. 127) BY <1>4, <1>8
  <2> HIDE DEF u, v
  <2> QED BY <1>0, <1>1, <1>3, <2>1, <2>2
<1> QED BY <1>7, <1>8

---------------------------------------------------------------------------
(* The services.                                                            *)

\* A step of the driver keeps the completion handler, or calls and forgets it.
LEMMA DriverStep ==
  ASSUME DOMAIN drv = {"state", "req", "cmd", "data", "pages", "rx", "handler", "prog"}, Driver
  PROVE  /\ DOMAIN drv' = DOMAIN drv
         /\ \/ drv'.handler = drv.handler /\ done'.handler = "none"
            \/ drv'.handler = "none" /\ drv.handler # "none" /\ done'.handler = drv.handler
<1> DEFINE Keeps == drv'.handler = drv.handler /\ done'.handler = "none"
           Calls == drv'.handler = "none" /\ (drv.handler = "none" => done'.handler = "none")
                    /\ (drv.handler # "none" => done'.handler = drv.handler)
           Same == DOMAIN drv' = DOMAIN drv
<1>0. Nobody.handler = "none" BY DEF Nobody
<1>1. CASE SendOpcode \/ SendPointer \/ RxSending \/ TxCommand \/ IsrDataFilled
  BY <1>0, <1>1 DEF SendOpcode, SendPointer, RxSending, TxCommand, IsrDataFilled
<1>2. CASE FillWord BY <1>0, <1>2 DEF FillWord, Filling
<1>3. CASE CommandFilled BY <1>0, <1>3 DEF CommandFilled
<1>4. CASE RxIdle BY <1>0, <1>4 DEF RxIdle
<1>5. CASE RxWaitResponse BY <1>0, <1>5 DEF RxWaitResponse
<1>6. CASE RxResponse
  <2>1. CASE drv' = drv /\ done' = Nobody BY <1>0, <2>1
  <2>2. CASE drv' = [drv EXCEPT !.state = "IDLE"] /\ done' = Nobody BY <1>0, <2>2
  <2>3. ASSUME NEW g, drv' = Completed([drv EXCEPT !.rx = g, !.state = "IDLE"]),
               done' = Called(Worth(g))
        PROVE Same /\ Calls
    BY <2>3, <1>0 DEF Completed, Called
  <2>4. ASSUME NEW g, drv' = [drv EXCEPT !.rx = g], done' = Nobody PROVE Same /\ Keeps
    BY <1>0, <2>4
  <2> QED BY <1>6, <2>1, <2>2, <2>3, <2>4 DEF RxResponse
<1>7. CASE RxPaged
  <2>1. CASE drv' = drv /\ done' = Nobody BY <1>0, <2>1
  <2>2. ASSUME NEW a, drv' = Completed([drv EXCEPT !.state = "IDLE"]), done' = Called(a)
        PROVE Same /\ Calls
    BY <2>2, <1>0 DEF Completed, Called
  <2> QED BY <1>7, <2>1, <2>2 DEF RxPaged
<1>8. CASE IsrCommandFilled BY <1>0, <1>8 DEF IsrCommandFilled
<1>9. CASE TxPaged BY <1>0, <1>9 DEF TxPaged
<1>10. CASE TxUnexpected BY <1>0, <1>10 DEF TxUnexpected, Completed, Called
<1> QED BY <1>1, <1>2, <1>3, <1>4, <1>5, <1>6, <1>7, <1>8, <1>9, <1>10 DEF Driver

\* What is left of the requests of a service.
LEMMA TailOfService ==
  ASSUME NEW t \in Seq(Requests), t # <<>>,
         \A i \in 1 .. Len(t) - 1 : t[i].op \notin Programming
  PROVE  /\ Head(t) \in Requests /\ Tail(t) \in Seq(Requests)
         /\ \A i \in 1 .. Len(Tail(t)) - 1 : Tail(t)[i].op \notin Programming
         /\ Head(t).op \in Programming => Tail(t) = <<>>
<1>1. Head(t) \in Requests /\ Tail(t) \in Seq(Requests) /\ Head(t) = t[1] /\ Len(t) >= 1
  OBVIOUS
<1>2. Len(t) > 1 => Head(t).op \notin Programming BY <1>1
<1>3. Len(t) = 1 => Tail(t) = <<>>
  <2>1. Len(t) = 1 => Len(Tail(t)) = 0 OBVIOUS
  <2>2. \A q \in Seq(Requests) : Len(q) = 0 => q = <<>> OBVIOUS
  <2> QED BY <1>1, <2>1, <2>2, Zenon
<1>4. \A i \in 1 .. Len(Tail(t)) - 1 : Tail(t)[i] = t[i + 1] /\ i + 1 \in 1 .. Len(t) - 1
  OBVIOUS
<1> QED BY <1>1, <1>2, <1>3, <1>4

\* What the services leave alone of the eNVM driver.
LEMMA NvmKept ==
  ASSUME UInv, UNCHANGED nvm
  PROVE  AtWork' /\ AtCommand' /\ WritesWhatWasAsked'
<1>1. AtWork' BY Zenon DEF UInv, AtWork, Written, Offset
<1>2. AtCommand' BY Zenon DEF UInv, AtCommand, Safe
<1>3. WritesWhatWasAsked' BY Zenon DEF UInv, WritesWhatWasAsked
<1> QED BY <1>1, <1>2, <1>3

\* The first of the requests t is made by a service, out of a call or behind the
\* request before it.
LEMMA StartsKeep ==
  ASSUME UInv, nvm.pc = "idle", UNCHANGED <<nvm, drv>>,
         svc.main = "free" \/ (svc.main = "wait" /\ ~svc.busy),
         svc.call.op \notin Programming,
         NEW t \in Seq(Requests), t # <<>>,
         \A i \in 1 .. Len(t) - 1 : t[i].op \notin Programming,
         Starts(t)
  PROVE  UInv'
<1> DEFINE r == Head(t)
           rest == Tail(t)
           saved == IF r.op \in Programming THEN envm ELSE svc.saved
<1>1. /\ r \in Requests /\ rest \in Seq(Requests)
      /\ \A i \in 1 .. Len(rest) - 1 : rest[i].op \notin Programming
      /\ r.op \in Programming => rest = <<>>
  BY TailOfService
<1>2. svc' = [svc EXCEPT !.main = "spin", !.call = r, !.todo = rest, !.saved = saved]
  BY Zenon DEF Starts
<1> HIDE DEF r, rest, saved
<1>3. /\ svc'.main = "spin" /\ svc'.call = r /\ svc'.todo = rest /\ svc'.saved = saved
      /\ svc'.busy = svc.busy /\ DOMAIN svc' = DOMAIN svc
  BY <1>2 DEF UInv, Records
<1>4. envm' = IF r.op \in Programming THEN "programming" ELSE envm BY Zenon DEF Starts, r
<1>5. Records' BY <1>3 DEF UInv, Records
<1>6. Flag' BY <1>3 DEF UInv, Flag
<1>7. Plan' BY <1>1, <1>3 DEF UInv, Plan
<1>8. Setting'
  <2>1. CASE r.op \in Programming
    <3>1. drv.handler = "isp" => svc.busy BY DEF UInv, Flag
    <3>2. drv.handler # "isp" => envm = "design" BY DEF UInv, Setting
    <3> QED BY <1>3, <1>4, <2>1, <3>1, <3>2 DEF Setting, Overwritten, saved
  <2>2. CASE r.op \notin Programming
    BY <1>3, <1>4, <2>2 DEF UInv, Setting, Overwritten, saved
  <2> QED BY <2>1, <2>2
<1>9. AtCall' BY DEF UInv, AtCall
<1> QED BY <1>5, <1>6, <1>7, <1>8, <1>9, NvmKept DEF UInv

\* Service: the main loop calls a service.
LEMMA ServiceStep ==
  ASSUME UInv, NEW s \in Services, Service(s) PROVE UInv'
<1>1. /\ s \in Seq(Requests) /\ s # <<>>
      /\ \A i \in 1 .. Len(s) - 1 : s[i].op \notin Programming
  BY ServicesAssumption
<1>2. svc.main = "free" /\ Starts(s) /\ UNCHANGED drv /\ nvm.pc = "idle" /\ UNCHANGED nvm
  BY Zenon DEF Service, Call
<1>3. svc.call.op \notin Programming BY <1>2 DEF UInv, Plan, NoReq, Programming
<1> QED BY <1>1, <1>2, <1>3, StartsKeep

\* Enter: the request is sent, and its handler is the one to call.
LEMMA EnterKeeps ==
  ASSUME UInv, Enter, UNCHANGED nvm PROVE UInv'
<1>1. /\ svc.main = "spin" /\ ~svc.busy /\ UNCHANGED envm
      /\ svc' = [svc EXCEPT !.busy = TRUE, !.got = "none",
                        !.main = IF svc.call.handler = "isp" THEN "free" ELSE "wait",
                        !.call = IF svc.call.handler = "isp" THEN NoReq ELSE @]
      /\ drv' = [drv EXCEPT !.req = svc.call, !.cmd = svc.call.size, !.data = svc.call.data,
                  !.pages = svc.call.pages, !.rx = <<>>, !.handler = svc.call.handler,
                  !.prog = TRUE]
  BY Zenon DEF Enter, Send
<1>2. /\ svc.call \in Requests /\ svc.call.handler \in {"request", "isp"}
      /\ svc.call.handler = "isp" <=> svc.call.op \in {"isp", "isp_program"}
  BY <1>1, ServicesAssumption DEF UInv, Plan
<1>3. drv'.handler = svc.call.handler /\ DOMAIN drv' = DOMAIN drv BY <1>1 DEF UInv, Records
<1>4. /\ svc'.busy = TRUE /\ svc'.todo = svc.todo /\ svc'.saved = svc.saved
      /\ DOMAIN svc' = DOMAIN svc
      /\ svc'.main = IF svc.call.handler = "isp" THEN "free" ELSE "wait"
      /\ svc'.call = IF svc.call.handler = "isp" THEN NoReq ELSE svc.call
  BY <1>1 DEF UInv, Records
<1>5. Records' BY <1>2, <1>3, <1>4 DEF UInv, Records
<1>6. Flag' BY <1>2, <1>3, <1>4 DEF Flag
<1>7. Plan' BY <1>2, <1>4 DEF UInv, Plan, NoReq, Programming
<1>8. nvm.pc = "idle" BY <1>1 DEF UInv, AtCall
<1>9. Setting'
  BY <1>1, <1>2, <1>3, <1>4, <1>8 DEF UInv, Setting, Overwritten, NoReq, Programming, Flag
<1>10. AtCall' BY <1>8 DEF UInv, AtCall
<1> QED BY <1>5, <1>6, <1>7, <1>9, <1>10, NvmKept DEF UInv

\* Return: the request that follows, or the end of the service.
LEMMA ReturnKeeps ==
  ASSUME UInv, Return, UNCHANGED nvm PROVE UInv'
<1>1. svc.main = "wait" /\ ~svc.busy /\ UNCHANGED drv /\ nvm.pc = "idle" /\ drv.handler # "isp"
  BY DEF Return, UInv, AtCall, Flag
<1>2. CASE svc.todo # <<>>
  <2>1. Starts(svc.todo) BY <1>2 DEF Return
  <2>2. /\ svc.todo \in Seq(Requests) /\ svc.call.op \notin Programming
        /\ \A i \in 1 .. Len(svc.todo) - 1 : svc.todo[i].op \notin Programming
    BY <1>2 DEF UInv, Plan
  <2> QED BY <1>1, <1>2, <2>1, <2>2, StartsKeep
<1>3. CASE svc.todo = <<>>
  <2>1. /\ svc' = [svc EXCEPT !.main = "free", !.call = NoReq]
        /\ envm' = IF svc.call.op = "iap" THEN svc.saved ELSE envm
    BY <1>3, Zenon DEF Return
  <2>2. /\ svc'.main = "free" /\ svc'.call = NoReq /\ svc'.todo = svc.todo /\ svc'.busy = svc.busy
        /\ svc'.saved = svc.saved /\ DOMAIN svc' = DOMAIN svc
    BY <2>1 DEF UInv, Records
  <2>3. Records' BY <1>1, <2>2 DEF UInv, Records
  <2>4. Flag' BY <1>1, <2>2 DEF UInv, Flag
  <2>5. Plan' BY <2>2 DEF UInv, Plan, NoReq, Programming
  <2>6. svc.call \in Requests /\ svc.call.op \notin {"isp", "isp_program"}
    BY <1>1, ServicesAssumption DEF UInv, Plan
  <2>7. envm' = "design" BY <1>1, <2>1, <2>6 DEF UInv, Setting, Overwritten, Programming
  <2>8. Setting' BY <1>1, <2>2, <2>7 DEF Setting, NoReq, Programming
  <2>9. AtCall' BY <1>1 DEF UInv, AtCall
  <2> QED BY <2>3, <2>4, <2>5, <2>8, <2>9, NvmKept DEF UInv
<1> QED BY <1>2, <1>3

\* SDriver: a completion handler clears the flag, or puts the setting back.
LEMMA SDriverKeeps ==
  ASSUME UInv, SDriver, UNCHANGED nvm PROVE UInv'
<1>1. /\ DOMAIN drv' = DOMAIN drv
      /\ \/ drv'.handler = drv.handler /\ done'.handler = "none"
         \/ drv'.handler = "none" /\ drv.handler # "none" /\ done'.handler = drv.handler
  BY DriverStep DEF SDriver, UInv, Records
<1>2. Handled BY DEF SDriver
<1>3. CASE drv'.handler = drv.handler /\ done'.handler = "none"
  <2>1. UNCHANGED <<svc, envm>> BY <1>2, <1>3, Zenon DEF Handled
  <2> QED BY <1>1, <1>3, <2>1, NvmKept
          DEF UInv, Records, Flag, Plan, Setting, Overwritten, AtCall
<1>4. CASE drv'.handler = "none" /\ drv.handler = "isp" /\ done'.handler = "isp"
  <2>1. envm' = svc.saved /\ UNCHANGED svc BY <1>2, <1>4, Zenon DEF Handled
  <2>2. nvm.pc = "idle" BY <1>4 DEF UInv, AtCall
  <2>3. Records' BY <1>1, <1>4, <2>1 DEF UInv, Records
  <2>4. Flag' /\ Plan' BY <1>4, <2>1 DEF UInv, Flag, Plan
  <2>5. Setting' 
     BY <1>4, <2>1 DEF UInv, Setting, Overwritten, Flag, Plan, Records, NoReq, Programming
  <2>6. AtCall' BY <2>2 DEF UInv, AtCall
  <2> QED BY <2>3, <2>4, <2>5, <2>6, NvmKept DEF UInv
<1>5. CASE drv'.handler = "none" /\ drv.handler = "request" /\ done'.handler = "request"
  <2>1. svc' = [svc EXCEPT !.busy = FALSE, !.got = done'.answer] /\ UNCHANGED envm
    BY <1>2, <1>5, Zenon DEF Handled
  <2>2. /\ svc'.busy = FALSE /\ svc'.main = svc.main /\ svc'.call = svc.call /\ svc'.todo = svc.todo
        /\ svc'.saved = svc.saved /\ DOMAIN svc' = DOMAIN svc
    BY <2>1 DEF UInv, Records
  <2>3. Records' BY <1>1, <1>5, <2>2 DEF UInv, Records
  <2>4. Flag' /\ Plan' BY <1>5, <2>2 DEF UInv, Flag, Plan
  <2>5. Setting' BY <1>5, <2>1, <2>2 DEF UInv, Setting, Overwritten, Flag
  <2>6. AtCall' BY <1>5, <2>1, <2>2 DEF UInv, AtCall
  <2> QED BY <2>3, <2>4, <2>5, <2>6, NvmKept DEF UInv
<1> QED BY <1>1, <1>3, <1>4, <1>5 DEF UInv, Records

\* The System Controller changes nothing of the program.
LEMMA SControllerKeeps ==
  ASSUME UInv, SController, UNCHANGED nvm PROVE UInv'
<1>1. UNCHANGED <<drv, svc, envm>>
  BY DEF SController, Take, Refuse, Emit, Notify, SAnswer, Answer, Freezes, Thaws, Tells,
     Turns
<1> QED BY <1>1, NvmKept DEF UInv, Records, Flag, Plan, Setting, Overwritten, AtCall

---------------------------------------------------------------------------
(* The eNVM driver.                                                         *)

\* The eNVM driver leaves the services alone.
LEMMA ServicesKept ==
  ASSUME UInv, UNCHANGED <<drv, svc, envm>>, DOMAIN nvm' = DOMAIN nvm, nvm.pc # "idle",
         nvm'.pc # "idle"
  PROVE  Records' /\ Flag' /\ Plan' /\ Setting'
BY DEF UInv, Records, Flag, Plan, Setting, Overwritten

\* A step within a call keeps what the call is.
LEMMA CallKept ==
  ASSUME UInv, UNCHANGED <<drv, svc, envm>>, nvm.pc # "idle", nvm'.pc \in Working \cup {"end"},
         nvm'.call = nvm.call, nvm'.saved = nvm.saved
  PROVE  AtCall'
BY DEF UInv, AtCall, Working

\* What the access is asked for.
LEMMA BlocksOf ==
  ASSUME NEW call, call.start \in Nat, call.length \in Nat, call.op # "count" => call.length > 0
  PROVE  /\ Blocks(call) \subseteq {0, 1} /\ Blocks(call) # {}
         /\ \A offset \in call.start .. call.start + call.length - 1 :
              call.op # "count" => Block(offset) \in Blocks(call)
<1>0. NVM1_BOTTOM \in Nat BY Sizes, SMT
<1> DEFINE last == call.start + Length(call) - 1
<1>1. /\ last \in Nat /\ last >= call.start
      /\ call.op # "count" => last = call.start + call.length - 1
  BY SMT DEF Length
<1>2. \A o \in Nat : Block(o) \in {0, 1} BY SMT, <1>0 DEF Block
<1>3. \A o, p \in Nat : o <= p => Block(o) <= Block(p) BY SMT, <1>0 DEF Block
<1>4. Blocks(call) = Block(call.start) .. Block(last) BY DEF Blocks
<1> HIDE DEF last
<1>5. Block(call.start) \in {0, 1} /\ Block(last) \in {0, 1} /\ Block(call.start) <= Block(last)
  BY <1>1, <1>2, <1>3
<1> QED BY SMT, <1>1, <1>2, <1>3, <1>4, <1>5

\* The status after a page says whether a page was past its limit.
LEMMA WarningKept ==
  ASSUME NEW status \in Going, NEW flags \in SUBSET Flags, NEW worn,
         worn <=> status = "WRITE_THRESHOLD_WARNING",
         StatusAfter(status, flags) \in Going
  PROVE  (worn \/ "worn" \in flags) <=> StatusAfter(status, flags) = "WRITE_THRESHOLD_WARNING"
<1>1. CASE flags = {} BY Zenon, <1>1 DEF StatusAfter
<1>2. CASE flags # {}
  <2>1. StatusAfter(status, flags) = ErrorCode(flags) BY <1>2 DEF StatusAfter
  <2>2. ErrorCode(flags) = "WRITE_THRESHOLD_WARNING" /\ "worn" \in flags
    BY <1>2, <2>1 DEF ErrorCode, Flags, Going
  <2> QED BY Zenon, <2>1, <2>2
<1> QED BY <1>1, <1>2

\* NvmBegins: the parameters and the protection are checked, behind the setting.
LEMMA BeginStep ==
  ASSUME UInv, Careful, svc.main = "free", drv.handler # "isp", UNCHANGED <<drv, svc>>,
         NEW c \in NvmCalls, NEW device \in Devices, NEW p \in Protections,
         Begin(c, device, p)
  PROVE  UInv'
<1> DEFINE status == IF Invalid(c) THEN "INVALID_PARAMETER"
                     ELSE CheckProtection(device, p, c.start,
                                          IF c.op = "count" THEN 0 ELSE c.length)
           call == [c EXCEPT !.lock = LockOf(c, device)]
           pc == IF status = "SUCCESS" THEN "request" ELSE "end"
           page == c.start \div BYTES_PER_PAGE
<1>1. /\ nvm.pc = "idle"
      /\ nvm' = [Idle EXCEPT !.pc = pc, !.call = call, !.device = device, !.protection = p,
                   !.left = c.length, !.page = page, !.status = status, !.saved = envm]
      /\ envm' = IF c.op = "count" THEN envm ELSE "programming"
  BY Zenon DEF Begin
<1>2. /\ DOMAIN c = {"op", "start", "length", "lock"}
      /\ c.op \in {"write", "unlock", "count"} /\ c.start \in Nat /\ c.length \in Nat
  BY CallFields
<1>3. call.op = c.op /\ call.start = c.start /\ call.length = c.length BY <1>2
<1>4. status # "WRITE_THRESHOLD_WARNING" /\ status \in Statuses
  BY DEF CheckProtection, Statuses
<1>5. status = "SUCCESS" => ~Invalid(c) BY Zenon
<1>6. status = "SUCCESS" /\ c.op # "count" => Permitted(c, device, p)
  <2>1. status = "SUCCESS" /\ c.op # "count" =>
          CheckProtection(device, p, c.start, c.length) = "SUCCESS"
    BY <1>5
  <2> QED BY <1>5, <2>1, CheckedIsPermitted
<1>7. Permitted(c, device, p) => Permitted(call, device, p) BY Zenon, <1>3 DEF Permitted, PagesOf
<1> HIDE DEF status, call, page
<1>8. /\ DOMAIN nvm' = DOMAIN Idle /\ nvm'.pc = pc /\ nvm'.call = call /\ nvm'.device = device
      /\ nvm'.protection = p /\ nvm'.left = c.length /\ nvm'.page = page /\ nvm'.status = status
      /\ nvm'.saved = envm /\ nvm'.held = {} /\ nvm'.flags = {} /\ nvm'.wrote = {}
      /\ nvm'.cmd = NoCmd /\ nvm'.worn = FALSE
  BY <1>1 DEF Idle
<1>9. svc.call.op \notin Programming BY DEF UInv, Plan, NoReq, Programming
<1>10. envm = "design" BY <1>1, <1>9 DEF UInv, Setting
<1>11. Records' /\ Flag' /\ Plan' BY <1>8 DEF UInv, Records, Flag, Plan
<1>12. Setting' BY <1>8, <1>9 DEF Setting
<1>13. AtCall'
  <2>1. pc \in Working \cup {"end"} /\ pc # "idle" BY DEF Working
  <2>2. nvm'.call.op = c.op /\ nvm'.call.start = c.start /\ nvm'.call.length = c.length
    BY <1>3, <1>8
  <2> HIDE DEF pc
  <2> QED BY <1>1, <1>2, <1>8, <1>10, <2>1, <2>2 DEF AtCall
<1>14. AtWork'
  <2>0. SUFFICES ASSUME pc = "request" PROVE AtWork' BY <1>8 DEF AtWork, Working
  <2>1. status = "SUCCESS" BY <2>0
  <2>2. c.op # "count" => Permitted(call, device, p) BY <1>6, <1>7, <2>1
  <2>3. c.op # "count" => c.length > 0 BY <2>2, <1>3 DEF Permitted
  <2>4. Blocks(call) # {} BY <1>2, <1>3, <2>3, BlocksOf
  <2>5. c.op = "unlock" => page \in PagesOf(call) /\ c.start + c.length <= NVM1_BOTTOM
    <3>1. c.op = "unlock" => page \in PagesOf(call)
      <4>1. c.length > 0 => /\ c.start + c.length - 1 \in Nat /\ c.start \div 128 \in Nat
                            /\ (c.start + c.length - 1) \div 128 \in Nat
                            /\ c.start \div 128 <= (c.start + c.length - 1) \div 128
        BY SMT, <1>2
      <4>2. c.length > 0 =>
              c.start \div 128 \in c.start \div 128 .. (c.start + c.length - 1) \div 128
        BY SMT, <4>1
      <4> QED BY <2>3, <1>3, <4>2, Zenon DEF PagesOf, page, BYTES_PER_PAGE
    <3> QED BY <3>1 DEF Careful
  <2>6. c.op = "write" => c.length \in 1 .. c.length BY <1>2, <2>3
  <2>7. Written' = nvm'.call.start .. Offset' - 1
    <3>1. Offset' = c.start + c.length - c.length BY <1>3, <1>8 DEF Offset
    <3>2. Offset' = c.start BY SMT, <1>2, <3>1
    <3>3. nvm'.call.start = c.start BY <1>3, <1>8
    <3>4. Written' = {} BY <1>8 DEF Written
    <3>5. \A n \in Nat : n .. n - 1 = {} OBVIOUS
    <3> HIDE DEF Offset, Written
    <3>6. nvm'.call.start .. Offset' - 1 = {} BY <1>2, <3>2, <3>3, <3>5, Zenon
    <3> QED BY <3>4, <3>6
  <2> QED BY <1>2, <1>3, <1>8, <2>0, <2>1, <2>2, <2>4, <2>5, <2>6, <2>7 DEF AtWork, Going
<1>15. AtCommand' BY <1>8 DEF AtCommand
<1>16. WritesWhatWasAsked'
  <2>0. SUFFICES ASSUME pc = "end" PROVE WritesWhatWasAsked' BY <1>8 DEF WritesWhatWasAsked
  <2>1. status \notin Going BY <1>4, <2>0 DEF Going
  <2>2. UNION {r[1] .. r[2] : r \in nvm'.wrote} = {} BY <1>8
  <2> QED BY Zenon, <1>8, <2>1, <2>2 DEF WritesWhatWasAsked
<1> QED BY <1>11, <1>12, <1>13, <1>14, <1>15, <1>16 DEF UInv

\* What the invariant says of a call at work, in words that SMT takes.
LEMMA AtWorkFields ==
  ASSUME UInv, nvm.pc \in Working
  PROVE  /\ DOMAIN nvm = DOMAIN Idle
         /\ DOMAIN nvm = {"pc", "call", "device", "protection", "left", "page", "ready", "status",
                          "held", "saved", "flags", "wrote", "cmd", "worn"}
         /\ nvm.pc # "idle" /\ nvm.pc # "end"
         /\ nvm.call.op \in {"write", "unlock", "count"}
         /\ nvm.call.start \in Nat /\ nvm.call.length \in Nat
         /\ nvm.call.op # "count" => nvm.call.length > 0
BY DEF UInv, AtCall, AtWork, Records, Working, Permitted, Idle

\* Request: a controller is the processor's, or none is.
LEMMA RequestStep ==
  ASSUME UInv, Request, UNCHANGED <<drv, svc>> PROVE UInv'
<1> DEFINE B == Blocks(nvm.call)
           b == CHOOSE b \in B \ nvm.held : \A o \in B \ nvm.held : b <= o
           held == nvm.held \cup {b}
<1>1. nvm.pc = "request" /\ UNCHANGED envm BY DEF Request
<1>2. nvm.pc \in Working BY <1>1 DEF Working
<1>3. nvm.held \subseteq B /\ nvm.held # B BY <1>1, <1>2 DEF UInv, AtWork
<1>4. B \subseteq {0, 1} BY <1>2, AtWorkFields, BlocksOf
<1>5. b \in B
  <2>1. \E x \in B \ nvm.held : \A o \in B \ nvm.held : x <= o BY SMT, <1>3, <1>4
  <2> HIDE DEF B
  <2> QED BY <2>1
<1>6. \/ nvm' = [nvm EXCEPT !.held = held, !.pc = IF held = B THEN "pages" ELSE @]
      \/ nvm' = [nvm EXCEPT !.held = {}, !.status = "IN_USE", !.pc = "end"]
  BY Zenon DEF Request
<1>7. held \subseteq B BY <1>3, <1>5
<1> HIDE DEF b, held, B
<1>8. CASE nvm' = [nvm EXCEPT !.held = held, !.pc = IF held = B THEN "pages" ELSE @]
  <2>1. /\ DOMAIN nvm' = DOMAIN nvm /\ nvm'.held = held
        /\ nvm'.pc = IF held = B THEN "pages" ELSE "request"
        /\ nvm'.call = nvm.call /\ nvm'.saved = nvm.saved /\ nvm'.status = nvm.status
        /\ nvm'.worn = nvm.worn /\ nvm'.flags = nvm.flags /\ nvm'.cmd = nvm.cmd
        /\ nvm'.device = nvm.device /\ nvm'.protection = nvm.protection /\ nvm'.page = nvm.page
        /\ nvm'.left = nvm.left /\ nvm'.wrote = nvm.wrote
    BY <1>1, <1>2, <1>8, AtWorkFields
  <2>2. Records' /\ Flag' /\ Plan' /\ Setting' BY <1>1, <1>2, <2>1, AtWorkFields, ServicesKept
  <2>3. AtCall' BY <1>1, <1>2, <2>1, AtWorkFields, CallKept DEF Working
  <2>4. Written' = Written /\ Offset' = Offset BY <2>1 DEF Written, Offset
  <2>5. AtWork' BY <1>1, <1>2, <1>7, <2>1, <2>4 DEF UInv, AtWork, B
  <2>6. AtCommand' BY <1>1, <1>2, <2>1 DEF UInv, AtWork, AtCommand
  <2>7. WritesWhatWasAsked' BY <2>1 DEF WritesWhatWasAsked
  <2> QED BY <2>2, <2>3, <2>5, <2>6, <2>7 DEF UInv
<1>9. CASE nvm' = [nvm EXCEPT !.held = {}, !.status = "IN_USE", !.pc = "end"]
  <2>1. /\ DOMAIN nvm' = DOMAIN nvm /\ nvm'.held = {} /\ nvm'.pc = "end" /\ nvm'.status = "IN_USE"
        /\ nvm'.call = nvm.call /\ nvm'.saved = nvm.saved
        /\ nvm'.cmd = nvm.cmd /\ nvm'.wrote = nvm.wrote
    BY <1>2, <1>9, AtWorkFields
  <2>2. Records' /\ Flag' /\ Plan' /\ Setting' BY <1>1, <1>2, <2>1, AtWorkFields, ServicesKept
  <2>3. AtCall' BY <1>1, <1>2, <2>1, AtWorkFields, CallKept
  <2>4. AtWork' BY <2>1 DEF AtWork, Working
  <2>5. AtCommand' BY <1>1, <1>2, <2>1 DEF UInv, AtWork, AtCommand
  <2>6. nvm.call.op = "write" => Written \subseteq Asked(nvm.call)
    <3>0. SUFFICES ASSUME nvm.call.op = "write" PROVE Written \subseteq Asked(nvm.call) OBVIOUS
    <3>1. nvm.left \in 1 .. nvm.call.length /\ Written = nvm.call.start .. Offset - 1
      BY <1>1, <1>2, <3>0 DEF UInv, AtWork
    <3>2. Offset - 1 <= nvm.call.start + nvm.call.length - 1 /\ Offset \in Int
      BY <1>2, <3>1, AtWorkFields DEF Offset
    <3>3. Asked(nvm.call) = nvm.call.start .. nvm.call.start + nvm.call.length - 1
      BY <3>0 DEF Asked, Length
    <3> QED BY <1>2, <3>1, <3>2, <3>3, AtWorkFields
  <2>7. WritesWhatWasAsked'
    <3>1. UNION {r[1] .. r[2] : r \in nvm'.wrote} = Written BY <2>1 DEF Written
    <3>2. "IN_USE" \notin Going BY DEF Going
    <3> QED BY Zenon, <2>1, <2>6, <3>1, <3>2 DEF WritesWhatWasAsked
  <2> QED BY <2>2, <2>3, <2>4, <2>5, <2>7 DEF UInv
<1> QED BY <1>6, <1>8, <1>9

\* End: the setting that was found is put back.
LEMMA EndStep ==
  ASSUME UInv, End, UNCHANGED <<drv, svc>> PROVE UInv'
<1>1. /\ nvm.pc = "end" /\ nvm' = Idle
      /\ envm' = IF nvm.call.op = "count" THEN envm ELSE nvm.saved
  BY Zenon DEF End
<1>2. Idle.pc = "idle" /\ Idle.cmd = NoCmd BY DEF Idle
<1>3. envm' = "design" BY <1>1 DEF UInv, AtCall
<1>4. svc.main = "free" /\ drv.handler # "isp" BY <1>1 DEF UInv, AtCall
<1>5. svc.call.op \notin Programming BY <1>4 DEF UInv, Plan, NoReq, Programming
<1>6. Records' /\ Flag' /\ Plan' BY <1>1 DEF UInv, Records, Flag, Plan
<1>7. Setting' BY <1>3, <1>4, <1>5 DEF Setting
<1>8. AtCall' BY <1>1, <1>2 DEF AtCall
<1>9. AtWork' /\ AtCommand' /\ WritesWhatWasAsked'
  BY <1>1, <1>2 DEF AtWork, Working, AtCommand, WritesWhatWasAsked
<1> QED BY <1>6, <1>7, <1>8, <1>9 DEF UInv

\* A step from one place of a call to another keeps the services and the call.
LEMMA WorkStep ==
  ASSUME UInv, nvm.pc \in Working, UNCHANGED <<drv, svc, envm>>, DOMAIN nvm' = DOMAIN nvm,
         nvm'.pc \in Working, nvm'.call = nvm.call, nvm'.saved = nvm.saved
  PROVE  Records' /\ Flag' /\ Plan' /\ Setting' /\ AtCall' /\ WritesWhatWasAsked'
<1>1. nvm'.pc # "idle" /\ nvm'.pc # "end" /\ nvm.pc # "idle" BY DEF Working
<1>2. Records' /\ Flag' /\ Plan' /\ Setting' BY <1>1, ServicesKept
<1>3. AtCall' BY <1>1, CallKept
<1>4. WritesWhatWasAsked' BY <1>1 DEF WritesWhatWasAsked
<1> QED BY <1>2, <1>3, <1>4

\* The ranges of bytes that are written, with one more.
LEMMA WrittenGrows ==
  ASSUME NEW W, NEW a, NEW b
  PROVE  UNION {r[1] .. r[2] : r \in W \cup {<<a, b>>}}
           = (UNION {r[1] .. r[2] : r \in W}) \cup (a .. b)
<1> DEFINE L == UNION {r[1] .. r[2] : r \in W \cup {<<a, b>>}}
           R == UNION {r[1] .. r[2] : r \in W}
           t == <<a, b>>
<1>0. t[1] = a /\ t[2] = b OBVIOUS
<1>1. ASSUME NEW x \in L PROVE x \in R \cup (a .. b)
  <2>1. PICK r \in W \cup {t} : x \in r[1] .. r[2] BY <1>1
  <2>2. CASE r = t BY <2>1, <2>2, <1>0
  <2>3. CASE r \in W BY <2>1, <2>3
  <2> QED BY <2>1, <2>2, <2>3
<1>2. ASSUME NEW x \in R PROVE x \in L
  <2>1. PICK r \in W : x \in r[1] .. r[2] BY <1>2
  <2> QED BY <2>1
<1>3. ASSUME NEW x \in a .. b PROVE x \in L
  <2>1. t \in W \cup {t} /\ x \in t[1] .. t[2] BY <1>0, <1>3
  <2> QED BY Zenon, <2>1
<1> HIDE DEF L, R
<1>4. L = R \cup (a .. b) BY <1>1, <1>2, <1>3
<1> QED BY <1>4 DEF L, R

\* Where a write is.
LEMMA AtOffset ==
  ASSUME UInv, nvm.pc \in Working, nvm.call.op = "write"
  PROVE  /\ nvm.left \in Nat \ {0} /\ nvm.left <= nvm.call.length
         /\ Offset \in Nat /\ Offset >= nvm.call.start
         /\ Offset + nvm.left = nvm.call.start + nvm.call.length
         /\ Offset \in nvm.call.start .. nvm.call.start + nvm.call.length - 1
         /\ RemainingPageLength(Offset, nvm.left) \in 1 .. nvm.left
         /\ RemainingPageLength(Offset, nvm.left) \in Nat
<1>1. nvm.left \in 1 .. nvm.call.length BY DEF UInv, AtWork
<1>2. /\ nvm.left \in Nat \ {0} /\ nvm.left <= nvm.call.length
      /\ Offset \in Nat /\ Offset >= nvm.call.start
      /\ Offset + nvm.left = nvm.call.start + nvm.call.length
      /\ Offset \in nvm.call.start .. nvm.call.start + nvm.call.length - 1
  BY <1>1, AtWorkFields DEF Offset
<1> QED BY <1>2, PieceInPage

\* ProgramPage: the command is for the page of the offset, and its buffer is whole.
LEMMA ProgramPageStep ==
  ASSUME UInv, ProgramPage, UNCHANGED <<drv, svc>> PROVE UInv'
<1> DEFINE o == Offset
           n == RemainingPageLength(o, nvm.left)
           page == o \div BYTES_PER_PAGE
           cmd == [block |-> Block(o), page |-> (o % NVM1_BOTTOM) \div BYTES_PER_PAGE,
                   meant |-> page, seeded |-> Seeds(o, n), data |-> Data(o, n), envm |-> envm]
           wrote == nvm.wrote \cup {<<o, o + n - 1>>}
<1>1. /\ nvm.pc = "pages" /\ nvm.call.op = "write" /\ UNCHANGED envm
      /\ nvm' = [Commanded(cmd, "program") EXCEPT !.wrote = @ \cup {<<o, o + n - 1>>}]
  BY Zenon DEF ProgramPage, Offset
<1>2. nvm.pc \in Working BY <1>1 DEF Working
<1>3. /\ nvm.left \in Nat \ {0} /\ nvm.left <= nvm.call.length
      /\ o \in Nat /\ o >= nvm.call.start /\ n \in Nat /\ n \in 1 .. nvm.left
      /\ o + nvm.left = nvm.call.start + nvm.call.length
      /\ o \in nvm.call.start .. nvm.call.start + nvm.call.length - 1
  BY <1>1, <1>2, AtOffset
<1>4. (o % 128) + n <= 128 /\ o % 128 \in Nat BY <1>3, PieceInPage
<1>5. Seeds(o, n) \cup Data(o, n) = 0 .. BYTES_PER_PAGE - 1 BY <1>3, <1>4, BufferIsWhole
<1>6. /\ Permitted(nvm.call, nvm.device, nvm.protection) /\ nvm.device \in Devices
      /\ nvm.held = Blocks(nvm.call)
  BY <1>1, <1>2 DEF UInv, AtWork
<1>7. o <= NVM_TOP
  <2>1. /\ nvm.call.start + nvm.call.length - 1 < Layout(nvm.device).reserved
        /\ Layout(nvm.device).reserved \in Nat /\ Layout(nvm.device).reserved <= NVM_TOP
    BY <1>6, LayoutInPages DEF Permitted
  <2>2. NVM_TOP \in Nat BY Sizes
  <2> HIDE DEF o
  <2> QED BY SMT, <1>2, <1>3, <2>1, <2>2, AtWorkFields
<1>8. Block(o) * PAGES_PER_BLOCK + (o % NVM1_BOTTOM) \div BYTES_PER_PAGE = page
  BY <1>3, <1>7, PageInBlock
<1>9. page \in PagesOf(nvm.call)
  <2> DEFINE s == nvm.call.start
             l == nvm.call.start + nvm.call.length - 1
  <2>1. s \in Nat /\ l \in Nat /\ s <= o /\ o <= l BY <1>2, <1>3, AtWorkFields
  <2> HIDE DEF s, l, o
  <2>2. o \div 128 \in s \div 128 .. l \div 128 BY SMT, <1>3, <2>1
  <2> QED BY <2>2 DEF PagesOf, BYTES_PER_PAGE, s, l
<1>10. Block(o) \in Blocks(nvm.call) BY <1>1, <1>2, <1>3, AtWorkFields, BlocksOf
<1>11. /\ page * BYTES_PER_PAGE < Layout(nvm.device).reserved
       /\ \A a \in Layout(nvm.device).areas :
            nvm.protection[a.id] # "rw" =>
              page \notin a.from \div BYTES_PER_PAGE .. a.to \div BYTES_PER_PAGE
  BY <1>2, <1>6, <1>9, AtWorkFields, PermittedPage
<1>12. envm = "programming" BY <1>1 DEF UInv, AtCall
<1>13. UNION {r[1] .. r[2] : r \in wrote} = nvm.call.start .. o + n - 1
  <2>1. Written = nvm.call.start .. o - 1 BY <1>1, <1>2 DEF UInv, AtWork
  <2>2. UNION {r[1] .. r[2] : r \in wrote} = Written \cup (o .. o + n - 1)
    BY WrittenGrows DEF Written
  <2> HIDE DEF o, n, wrote
  <2>3. nvm.call.start \in Nat BY <1>2, AtWorkFields
  <2>4. (nvm.call.start .. o - 1) \cup (o .. o + n - 1) = nvm.call.start .. o + n - 1
    BY SMT, <1>3, <2>3
  <2> QED BY <2>1, <2>2, <2>4
<1>14. Safe(cmd)
  BY Zenon, <1>5, <1>8, <1>10, <1>11, <1>12 DEF Safe
<1> HIDE DEF o, n, page, cmd, wrote
<1>15. nvm' = [nvm EXCEPT !.cmd = cmd, !.pc = "program", !.ready = 0, !.wrote = wrote]
  BY <1>1, <1>2, AtWorkFields DEF Commanded, wrote
<1>16. "program" \in Working BY DEF Working
<1>17. /\ DOMAIN nvm' = DOMAIN nvm /\ nvm'.held = nvm.held /\ nvm'.pc = "program"
       /\ nvm'.call = nvm.call /\ nvm'.saved = nvm.saved /\ nvm'.status = nvm.status
       /\ nvm'.worn = nvm.worn /\ nvm'.flags = nvm.flags /\ nvm'.cmd = cmd
       /\ nvm'.device = nvm.device /\ nvm'.protection = nvm.protection /\ nvm'.page = nvm.page
       /\ nvm'.left = nvm.left /\ nvm'.wrote = wrote
  BY <1>2, <1>15, AtWorkFields
<1>18. Written' = nvm.call.start .. o + n - 1 /\ Offset' = o
  BY <1>13, <1>17 DEF Written, Offset, o
<1>19. AtWork' BY <1>1, <1>2, <1>17, <1>18 DEF UInv, AtWork, n
<1>20. AtCommand' BY Zenon, <1>6, <1>14, <1>17 DEF AtCommand, Safe
<1>21. Records' /\ Flag' /\ Plan' /\ Setting' /\ AtCall' /\ WritesWhatWasAsked'
  BY <1>1, <1>2, <1>16, <1>17, WorkStep
<1> QED BY <1>19, <1>20, <1>21 DEF UInv

\* UnlockPage: the command is for the page.
LEMMA UnlockPageStep ==
  ASSUME UInv, UnlockPage, UNCHANGED <<drv, svc>> PROVE UInv'
<1> DEFINE cmd == [block |-> UnlockBlock(nvm.page), page |-> nvm.page, meant |-> nvm.page,
                       seeded |-> 0 .. BYTES_PER_PAGE - 1, data |-> {}, envm |-> envm]
<1>1. /\ nvm.pc = "pages" /\ nvm.call.op = "unlock" /\ UNCHANGED envm
      /\ nvm' = Commanded(cmd, "unlock")
  BY Zenon DEF UnlockPage
<1>2. nvm.pc \in Working /\ "unlock" \in Working BY <1>1 DEF Working
<1>3. /\ Permitted(nvm.call, nvm.device, nvm.protection) /\ nvm.device \in Devices
      /\ nvm.held = Blocks(nvm.call) /\ nvm.page \in PagesOf(nvm.call)
      /\ nvm.call.start + nvm.call.length <= NVM1_BOTTOM
  BY <1>1, <1>2 DEF UInv, AtWork
<1>4. nvm.call.start \in Nat /\ nvm.call.length \in Nat /\ nvm.call.length > 0
  BY <1>1, <1>2, AtWorkFields
<1>5. nvm.page \in Nat /\ nvm.page < 2048
  <2> DEFINE s == nvm.call.start
             l == nvm.call.start + nvm.call.length - 1
  <2>1. s \in Nat /\ l \in Nat /\ l < 128 * 2048 BY SMT, <1>3, <1>4, Sizes
  <2>2. nvm.page \in s \div 128 .. l \div 128 BY <1>3 DEF PagesOf, BYTES_PER_PAGE
  <2> HIDE DEF s, l
  <2>3. s \div 128 \in Nat /\ l \div 128 \in Nat /\ l \div 128 < 2048 BY SMT, <2>1
  <2> QED BY SMT, <2>2, <2>3
<1>6. UnlockBlock(nvm.page) = 0 /\ UnlockBlock(nvm.page) * PAGES_PER_BLOCK + nvm.page = nvm.page
  BY SMT, <1>5 DEF UnlockBlock, PAGES_PER_BLOCK
<1>7. 0 \in Blocks(nvm.call)
  <2>1. nvm.call.start \in nvm.call.start .. nvm.call.start + nvm.call.length - 1 BY <1>4
  <2>2. Block(nvm.call.start) \in Blocks(nvm.call) BY <1>1, <1>4, <2>1, BlocksOf
  <2>3. Block(nvm.call.start) = 0 BY SMT, <1>3, <1>4, Sizes DEF Block
  <2> QED BY <2>2, <2>3
<1>8. /\ nvm.page * BYTES_PER_PAGE < Layout(nvm.device).reserved
      /\ \A a \in Layout(nvm.device).areas :
            nvm.protection[a.id] # "rw" =>
              nvm.page \notin a.from \div BYTES_PER_PAGE .. a.to \div BYTES_PER_PAGE
  BY <1>3, <1>4, PermittedPage
<1>9. envm = "programming" BY <1>1 DEF UInv, AtCall
<1>10. (0 .. BYTES_PER_PAGE - 1) \cup {} = 0 .. BYTES_PER_PAGE - 1 BY Zenon
<1>11. Safe(cmd) BY Zenon, <1>6, <1>7, <1>8, <1>9, <1>10 DEF Safe
<1> HIDE DEF cmd
<1>12. nvm' = [nvm EXCEPT !.cmd = cmd, !.pc = "unlock", !.ready = 0, !.wrote = nvm.wrote]
  BY <1>1, <1>2, AtWorkFields DEF Commanded
<1>13. /\ DOMAIN nvm' = DOMAIN nvm /\ nvm'.held = nvm.held /\ nvm'.pc = "unlock"
       /\ nvm'.call = nvm.call /\ nvm'.saved = nvm.saved /\ nvm'.status = nvm.status
       /\ nvm'.worn = nvm.worn /\ nvm'.flags = nvm.flags /\ nvm'.cmd = cmd
       /\ nvm'.device = nvm.device /\ nvm'.protection = nvm.protection /\ nvm'.page = nvm.page
       /\ nvm'.left = nvm.left /\ nvm'.wrote = nvm.wrote
  BY <1>2, <1>12, AtWorkFields
<1>14. AtWork' BY <1>1, <1>2, <1>13 DEF UInv, AtWork
<1>15. AtCommand' BY Zenon, <1>3, <1>11, <1>13 DEF AtCommand, Safe
<1>16. Records' /\ Flag' /\ Plan' /\ Setting' /\ AtCall' /\ WritesWhatWasAsked'
  BY <1>1, <1>2, <1>13, WorkStep
<1> QED BY <1>14, <1>15, <1>16 DEF UInv

\* ReadCount: no page is written.
LEMMA ReadCountStep ==
  ASSUME UInv, ReadCount, UNCHANGED <<drv, svc>> PROVE UInv'
<1>1. /\ nvm.pc = "pages" /\ nvm.call.op = "count" /\ UNCHANGED envm
      /\ nvm' = Commanded(nvm.cmd, "count")
  BY DEF ReadCount
<1>2. nvm.pc \in Working /\ "count" \in Working BY <1>1 DEF Working
<1>3. nvm.cmd = NoCmd BY <1>1, <1>2 DEF UInv, AtWork
<1>4. nvm' = [nvm EXCEPT !.cmd = nvm.cmd, !.pc = "count", !.ready = 0, !.wrote = nvm.wrote]
  BY <1>1, <1>2, AtWorkFields DEF Commanded
<1>5. /\ DOMAIN nvm' = DOMAIN nvm /\ nvm'.held = nvm.held /\ nvm'.pc = "count"
       /\ nvm'.call = nvm.call /\ nvm'.saved = nvm.saved /\ nvm'.status = nvm.status
       /\ nvm'.worn = nvm.worn /\ nvm'.flags = nvm.flags /\ nvm'.cmd = nvm.cmd
       /\ nvm'.device = nvm.device /\ nvm'.protection = nvm.protection /\ nvm'.page = nvm.page
       /\ nvm'.left = nvm.left /\ nvm'.wrote = nvm.wrote
  BY <1>2, <1>4, AtWorkFields
<1>6. AtWork' BY <1>1, <1>2, <1>5 DEF UInv, AtWork
<1>7. AtCommand' BY <1>3, <1>5 DEF AtCommand
<1>8. Records' /\ Flag' /\ Plan' /\ Setting' /\ AtCall' /\ WritesWhatWasAsked'
  BY <1>1, <1>2, <1>5, WorkStep
<1> QED BY <1>6, <1>7, <1>8 DEF UInv

\* The end of a call keeps the services, the call and the command.
LEMMA EndsStep ==
  ASSUME UInv, nvm.pc \in Working, nvm.pc # "request", UNCHANGED <<drv, svc, envm>>,
         DOMAIN nvm' = DOMAIN nvm, nvm'.pc \in Working \cup {"end"}, nvm'.call = nvm.call,
         nvm'.saved = nvm.saved, nvm'.held = nvm.held, nvm'.cmd = nvm.cmd,
         nvm'.device = nvm.device, nvm'.protection = nvm.protection
  PROVE  Records' /\ Flag' /\ Plan' /\ Setting' /\ AtCall' /\ AtCommand'
<1>1. nvm'.pc # "idle" /\ nvm.pc # "idle" BY DEF Working
<1>2. Records' /\ Flag' /\ Plan' /\ Setting' BY <1>1, ServicesKept
<1>3. AtCall' BY <1>1, CallKept
<1>4. AtCommand' BY Zenon DEF UInv, AtCommand, Safe
<1> QED BY <1>2, <1>3, <1>4

\* GetReady: the controller has met what it has.
LEMMA GetReadyStep ==
  ASSUME UInv, NEW met \in SUBSET Flags, GetReady(met), UNCHANGED <<drv, svc>> PROVE UInv'
<1>1. /\ nvm.pc \in {"program", "verify", "unlock", "count"} /\ UNCHANGED envm
      /\ nvm' = [nvm EXCEPT !.ready = 1, !.flags = @ \cup met]
  BY Zenon DEF GetReady
<1>2. nvm.pc \in Working BY <1>1 DEF Working
<1>3. /\ DOMAIN nvm' = DOMAIN nvm /\ nvm'.held = nvm.held /\ nvm'.pc = nvm.pc
      /\ nvm'.call = nvm.call /\ nvm'.saved = nvm.saved /\ nvm'.status = nvm.status
      /\ nvm'.worn = nvm.worn /\ nvm'.flags = nvm.flags \cup met /\ nvm'.cmd = nvm.cmd
      /\ nvm'.device = nvm.device /\ nvm'.protection = nvm.protection /\ nvm'.page = nvm.page
      /\ nvm'.left = nvm.left /\ nvm'.wrote = nvm.wrote
  BY <1>1, <1>2, AtWorkFields
<1>4. Written' = Written /\ Offset' = Offset BY <1>3 DEF Written, Offset
<1>5. Records' /\ Flag' /\ Plan' /\ Setting' /\ AtCall' /\ AtCommand'
  BY <1>1, <1>2, <1>3, EndsStep
<1>6. AtWork' BY <1>1, <1>2, <1>3, <1>4 DEF UInv, AtWork
<1>7. WritesWhatWasAsked' BY <1>1, <1>3 DEF WritesWhatWasAsked
<1> QED BY <1>5, <1>6, <1>7 DEF UInv

\* PageWritten: the write goes on behind the page, or ends with its status.
LEMMA PageWrittenStep ==
  ASSUME UInv, nvm.pc \in {"program", "verify"}, nvm' = PageWritten, UNCHANGED <<drv, svc, envm>>
  PROVE  UInv'
<1> DEFINE status == StatusAfter(nvm.status, nvm.flags)
           n == RemainingPageLength(Offset, nvm.left)
           left == IF status \in Going THEN nvm.left - n ELSE 0
           worn == nvm.worn \/ "worn" \in nvm.flags
           pc == IF left = 0 THEN "end" ELSE "pages"
<1>1. nvm' = [nvm EXCEPT !.left = left, !.status = status, !.ready = 0, !.flags = {},
                 !.pc = pc, !.worn = worn]
  BY Zenon DEF PageWritten, Offset
<1>2. nvm.pc \in Working /\ nvm.pc # "request" BY DEF Working
<1>3. /\ nvm.call.op = "write" /\ nvm.status \in Going /\ nvm.flags \in SUBSET Flags
      /\ nvm.held = Blocks(nvm.call)
      /\ Permitted(nvm.call, nvm.device, nvm.protection)
      /\ nvm.device \in Devices /\ nvm.protection \in Protections
      /\ Written = nvm.call.start .. Offset + n - 1
  BY <1>2 DEF UInv, AtWork
<1>4. nvm.worn <=> nvm.status = "WRITE_THRESHOLD_WARNING" BY <1>2, Zenon DEF UInv, AtWork
<1>5. status \in Going => (worn <=> status = "WRITE_THRESHOLD_WARNING")
  BY Zenon, <1>3, <1>4, WarningKept
<1>6. /\ nvm.left \in Nat \ {0} /\ nvm.left <= nvm.call.length
      /\ Offset \in Nat /\ Offset >= nvm.call.start /\ n \in Nat /\ n \in 1 .. nvm.left
      /\ Offset + nvm.left = nvm.call.start + nvm.call.length
      /\ nvm.call.start \in Nat /\ nvm.call.length \in Nat
  BY <1>2, <1>3, AtOffset, AtWorkFields
<1> HIDE DEF status, n, left, worn, pc
<1>7. /\ DOMAIN nvm' = DOMAIN nvm /\ nvm'.held = nvm.held /\ nvm'.pc = pc
      /\ nvm'.call = nvm.call /\ nvm'.saved = nvm.saved /\ nvm'.status = status
      /\ nvm'.worn = worn /\ nvm'.flags = {} /\ nvm'.cmd = nvm.cmd
      /\ nvm'.device = nvm.device /\ nvm'.protection = nvm.protection
      /\ nvm'.left = left /\ nvm'.wrote = nvm.wrote
  BY <1>1, <1>2, AtWorkFields
<1>8. pc \in {"pages", "end"} /\ (pc = "end" <=> left = 0) BY DEF pc
<1>9. Records' /\ Flag' /\ Plan' /\ Setting' /\ AtCall' /\ AtCommand'
  BY <1>2, <1>7, <1>8, EndsStep DEF Working
<1>10. Written' = Written BY <1>7 DEF Written
<1>11. AtWork'
  <2>0. SUFFICES ASSUME pc = "pages" PROVE AtWork' BY <1>7, <1>8 DEF AtWork, Working
  <2>1. status \in Going /\ left = nvm.left - n /\ left # 0 BY <1>8, <2>0 DEF left
  <2>2. left \in 1 .. nvm.call.length BY <1>6, <2>1
  <2>3. Offset' = Offset + n BY <1>6, <1>7, <2>1 DEF Offset
  <2>4. Written' = nvm.call.start .. Offset' - 1
    <3>1. Offset' - 1 = Offset + n - 1 BY <1>6, <2>3
    <3> QED BY Zenon, <1>3, <1>10, <3>1
  <2>5. nvm'.worn <=> nvm'.status = "WRITE_THRESHOLD_WARNING" BY Zenon, <1>5, <1>7, <2>1
  <2> QED BY <1>3, <1>7, <2>0, <2>1, <2>2, <2>4, <2>5 DEF AtWork
<1>12. WritesWhatWasAsked'
  <2>0. SUFFICES ASSUME pc = "end" PROVE WritesWhatWasAsked' BY <1>7, <1>8 DEF WritesWhatWasAsked
  <2>1. Asked(nvm.call) = nvm.call.start .. nvm.call.start + nvm.call.length - 1
    BY <1>3 DEF Asked, Length
  <2>2. Written \subseteq Asked(nvm.call) BY <1>3, <1>6, <2>1
  <2>3. status \in Going => Written = Asked(nvm.call)
    <3>0. left = 0 BY <1>8, <2>0
    <3>1. status \in Going => nvm.left = n
      <4>1. status \in Going => nvm.left - n = 0 BY <3>0 DEF left
      <4> QED BY <1>6, <4>1
    <3> QED BY <1>3, <1>6, <2>1, <3>1
  <2>4. UNION {r[1] .. r[2] : r \in nvm'.wrote} = Written BY <1>7 DEF Written
  <2> QED BY Zenon, <1>5, <1>7, <2>2, <2>3, <2>4 DEF WritesWhatWasAsked
<1> QED BY <1>9, <1>11, <1>12 DEF UInv

\* Programmed: errors end the page, or it is verified.
LEMMA ProgrammedStep ==
  ASSUME UInv, NEW read, Programmed(read), UNCHANGED <<drv, svc>> PROVE UInv'
<1>1. nvm.pc = "program" /\ UNCHANGED envm BY DEF Programmed, Returned
<1>2. nvm' = PageWritten \/ nvm' = Commanded(nvm.cmd, "verify") BY Zenon DEF Programmed
<1>3. CASE nvm' = PageWritten BY <1>1, <1>3, PageWrittenStep
<1>4. CASE nvm' = Commanded(nvm.cmd, "verify")
  <2>1. nvm.pc \in Working /\ nvm.pc # "request" BY <1>1 DEF Working
  <2>2. /\ DOMAIN nvm' = DOMAIN nvm /\ nvm'.held = nvm.held /\ nvm'.pc = "verify"
        /\ nvm'.call = nvm.call /\ nvm'.saved = nvm.saved /\ nvm'.status = nvm.status
        /\ nvm'.worn = nvm.worn /\ nvm'.flags = nvm.flags /\ nvm'.cmd = nvm.cmd
        /\ nvm'.device = nvm.device /\ nvm'.protection = nvm.protection /\ nvm'.page = nvm.page
        /\ nvm'.left = nvm.left /\ nvm'.wrote = nvm.wrote
    BY <1>4, <2>1, AtWorkFields DEF Commanded
  <2>3. Written' = Written /\ Offset' = Offset BY <2>2 DEF Written, Offset
  <2>4. Records' /\ Flag' /\ Plan' /\ Setting' /\ AtCall' /\ AtCommand'
    BY <1>1, <2>1, <2>2, EndsStep DEF Working
  <2>5. AtWork' BY <1>1, <2>1, <2>2, <2>3 DEF UInv, AtWork
  <2>6. WritesWhatWasAsked' BY <2>2 DEF WritesWhatWasAsked
  <2> QED BY <2>4, <2>5, <2>6 DEF UInv
<1> QED BY <1>2, <1>3, <1>4

\* PageUnlocked: the next page, or the end with the status.
LEMMA PageUnlockedStep ==
  ASSUME UInv, NEW read, PageUnlocked(read), UNCHANGED <<drv, svc>> PROVE UInv'
<1> DEFINE last == (nvm.call.start + nvm.call.length - 1) \div BYTES_PER_PAGE
           status == StatusAfter(nvm.status, read)
           worn == nvm.worn \/ "worn" \in nvm.flags
           pc == IF nvm.page < last /\ status \in Going THEN "pages" ELSE "end"
<1>1. /\ nvm.pc = "unlock" /\ read = nvm.flags /\ UNCHANGED envm
      /\ nvm' = [nvm EXCEPT !.page = @ + 1, !.status = status, !.ready = 0, !.flags = {},
                           !.pc = pc, !.worn = worn]
  <2>1. NeededReads = 2 BY DEF NeededReads
  <2> QED BY Zenon, <2>1 DEF PageUnlocked, Returned
<1>2. nvm.pc \in Working /\ nvm.pc # "request" BY <1>1 DEF Working
<1>3. /\ nvm.call.op = "unlock" /\ nvm.status \in Going /\ nvm.flags \in SUBSET Flags
      /\ nvm.held = Blocks(nvm.call)
      /\ Permitted(nvm.call, nvm.device, nvm.protection)
      /\ nvm.device \in Devices /\ nvm.protection \in Protections
      /\ nvm.page \in PagesOf(nvm.call) /\ nvm.call.start + nvm.call.length <= NVM1_BOTTOM
  BY <1>1, <1>2 DEF UInv, AtWork
<1>4. nvm.worn <=> nvm.status = "WRITE_THRESHOLD_WARNING" BY <1>2, Zenon DEF UInv, AtWork
<1>5. status \in Going => (worn <=> status = "WRITE_THRESHOLD_WARNING")
  BY Zenon, <1>1, <1>3, <1>4, WarningKept
<1>6. nvm.page < last => nvm.page + 1 \in PagesOf(nvm.call)
  <2> DEFINE s == nvm.call.start
             l == nvm.call.start + nvm.call.length - 1
  <2>1. s \in Nat /\ l \in Nat BY <1>2, <1>3, AtWorkFields
  <2>2. nvm.page \in s \div 128 .. l \div 128 BY <1>3 DEF PagesOf, BYTES_PER_PAGE
  <2>3. last = l \div 128 BY DEF BYTES_PER_PAGE
  <2> HIDE DEF s, l, last
  <2>4. s \div 128 \in Nat /\ l \div 128 \in Nat BY SMT, <2>1
  <2>5. nvm.page < last => nvm.page + 1 \in s \div 128 .. l \div 128 BY SMT, <2>2, <2>3, <2>4
  <2> QED BY <2>5 DEF PagesOf, BYTES_PER_PAGE, s, l
<1>7. pc \in {"pages", "end"} /\ (pc = "pages" => nvm.page < last /\ status \in Going) OBVIOUS
<1> HIDE DEF status, last, worn, pc
<1>8. /\ DOMAIN nvm' = DOMAIN nvm /\ nvm'.held = nvm.held /\ nvm'.pc = pc
      /\ nvm'.call = nvm.call /\ nvm'.saved = nvm.saved /\ nvm'.status = status
      /\ nvm'.worn = worn /\ nvm'.flags = {} /\ nvm'.cmd = nvm.cmd /\ nvm'.page = nvm.page + 1
      /\ nvm'.device = nvm.device /\ nvm'.protection = nvm.protection
  BY <1>1, <1>2, AtWorkFields
<1>9. Records' /\ Flag' /\ Plan' /\ Setting' /\ AtCall' /\ AtCommand'
  BY <1>1, <1>2, <1>7, <1>8, EndsStep DEF Working
<1>10. nvm'.status \in Going => (nvm'.worn <=> nvm'.status = "WRITE_THRESHOLD_WARNING")
  BY Zenon, <1>5, <1>8
<1>11. AtWork'
  <2>0. SUFFICES ASSUME pc = "pages" PROVE AtWork' BY <1>7, <1>8 DEF AtWork, Working
  <2> QED BY <1>3, <1>6, <1>7, <1>8, <1>10, <2>0 DEF AtWork
<1>12. WritesWhatWasAsked' BY Zenon, <1>3, <1>8, <1>10 DEF WritesWhatWasAsked
<1> QED BY <1>9, <1>11, <1>12 DEF UInv

\* Counted: nothing has been written.
LEMMA CountedStep ==
  ASSUME UInv, Counted, UNCHANGED <<drv, svc>> PROVE UInv'
<1>1. /\ nvm.pc = "count" /\ UNCHANGED envm
      /\ nvm' = [nvm EXCEPT !.pc = "end", !.ready = 0, !.flags = {}]
  BY DEF Counted, Returned
<1>2. nvm.pc \in Working /\ nvm.pc # "request" BY <1>1 DEF Working
<1>3. /\ DOMAIN nvm' = DOMAIN nvm /\ nvm'.held = nvm.held /\ nvm'.pc = "end"
      /\ nvm'.call = nvm.call /\ nvm'.saved = nvm.saved /\ nvm'.status = nvm.status
      /\ nvm'.worn = nvm.worn /\ nvm'.cmd = nvm.cmd
      /\ nvm'.device = nvm.device /\ nvm'.protection = nvm.protection
  BY <1>1, <1>2, AtWorkFields
<1>4. Records' /\ Flag' /\ Plan' /\ Setting' /\ AtCall' /\ AtCommand'
  BY <1>1, <1>2, <1>3, EndsStep
<1>5. AtWork' BY <1>3 DEF AtWork, Working
<1>6. nvm.call.op = "count" /\ (nvm.worn <=> nvm.status = "WRITE_THRESHOLD_WARNING")
  BY Zenon, <1>1, <1>2 DEF UInv, AtWork
<1>7. nvm'.call.op # "write" /\ (nvm'.worn <=> nvm'.status = "WRITE_THRESHOLD_WARNING")
  BY Zenon, <1>3, <1>6
<1>8. WritesWhatWasAsked' BY Zenon, <1>7 DEF WritesWhatWasAsked
<1> QED BY <1>4, <1>5, <1>8 DEF UInv

---------------------------------------------------------------------------
(* The two together.                                                        *)

\* At the power up nothing is called.
LEMMA UInitInvariant ==
  ASSUME UInit PROVE UInv
<1>1. /\ svc = [main |-> "free", call |-> NoReq, todo |-> <<>>, busy |-> FALSE,
                got |-> "none", saved |-> "design"]
      /\ envm = "design" /\ nvm = Idle
      /\ drv = [state |-> "IDLE", req |-> NoReq, cmd |-> 0, data |-> 0, pages |-> 0,
                rx |-> <<>>, handler |-> "none", prog |-> FALSE]
  BY DEF UInit, SInit, Init
<1>2. Records BY <1>1 DEF Records
<1>3. Flag /\ Plan BY <1>1 DEF Flag, Plan, NoReq, Programming
<1>4. Setting BY <1>1 DEF Setting, NoReq, Programming
<1>5. AtCall /\ AtWork /\ AtCommand /\ WritesWhatWasAsked
  BY <1>1 DEF AtCall, AtWork, AtCommand, WritesWhatWasAsked, Idle, Working
<1> QED BY <1>2, <1>3, <1>4, <1>5 DEF UInv

\* Each step of the services or of the eNVM driver keeps the invariant.
LEMMA UNextInvariant ==
  ASSUME Careful, UInv, [UNext]_uvars PROVE UInv'
<1>1. CASE UNCHANGED uvars
  <2>1. UNCHANGED <<drv, svc, envm, nvm>> BY <1>1 DEF uvars, svars, vars
  <2> QED BY <2>1, NvmKept DEF UInv, Records, Flag, Plan, Setting, Overwritten, AtCall
<1>2. ASSUME NEW s \in Services, Service(s) PROVE UInv' BY <1>2, ServiceStep
<1>3. CASE ServiceGoes
  BY <1>3, EnterKeeps, ReturnKeeps, SDriverKeeps, SControllerKeeps DEF ServiceGoes
<1>4. CASE NvmStep
  <2>1. UNCHANGED <<drv, svc>> BY <1>4 DEF NvmStep
  <2>2. CASE NvmBegins
    <3>1. svc.main = "free" /\ drv.handler # "isp" BY <2>2 DEF NvmBegins, Careful
    <3>2. PICK c \in NvmCalls, device \in Devices, p \in Protections : Begin(c, device, p)
      BY <2>2 DEF NvmBegins
    <3> QED BY <2>1, <3>1, <3>2, BeginStep
  <2>3. CASE NvmGoes
    <3>1. CASE Request BY <2>1, <3>1, RequestStep
    <3>2. CASE End BY <2>1, <3>2, EndStep
    <3>3. CASE ProgramPage BY <2>1, <3>3, ProgramPageStep
    <3>4. CASE UnlockPage BY <2>1, <3>4, UnlockPageStep
    <3>5. CASE Verified
      <4>1. nvm.pc = "verify" /\ nvm' = PageWritten /\ UNCHANGED envm
        BY <3>5 DEF Verified, Returned
      <4> QED BY <2>1, <4>1, PageWrittenStep
    <3>6. CASE ReadCount BY <2>1, <3>6, ReadCountStep
    <3>7. CASE Counted BY <2>1, <3>7, CountedStep
    <3>8. ASSUME NEW bits \in SUBSET Flags, GetReady(bits) \/ Programmed(bits) \/ PageUnlocked(bits)
          PROVE  UInv'
      BY <2>1, <3>8, GetReadyStep, ProgrammedStep, PageUnlockedStep
    <3> QED BY <2>3, <3>1, <3>2, <3>3, <3>4, <3>5, <3>6, <3>7, <3>8 DEF NvmGoes
  <2> QED BY <1>4, <2>2, <2>3 DEF NvmStep
<1> QED BY <1>1, <1>2, <1>3, <1>4 DEF UNext

\* The inductive invariant holds whatever services and calls of the eNVM driver the
\* main loop makes, one at a time, and whenever the interrupts come.
THEOREM UInvariantHolds ==
  ASSUME Careful PROVE USpec => []UInv
<1>1. UInit => UInv BY UInitInvariant
<1>2. UInv /\ [UNext]_uvars => UInv' BY UNextInvariant
<1> QED BY <1>1, <1>2, PTL DEF USpec

\* A write that returns a success has programmed what it was asked for and nothing
\* else, and the warning about a worn page reaches the caller (mss_nvm.c:207-212).
THEOREM WritesWhatWasAskedHolds ==
  ASSUME Careful PROVE USpec => []WritesWhatWasAsked
<1>1. UInv => WritesWhatWasAsked BY DEF UInv
<1> QED BY <1>1, UInvariantHolds, PTL

\* Each command is for a page that may be written, on a controller that the processor
\* holds, with a whole buffer and the setting for programming (mss_nvm.c:159-165).
THEOREM CommandsAreSafeHolds ==
  ASSUME Careful PROVE USpec => []CommandsAreSafe
<1>1. UInv => CommandsAreSafe BY Zenon DEF UInv, AtCommand, Safe, CommandsAreSafe
<1> QED BY <1>1, UInvariantHolds, PTL

\* Out of a call of the eNVM driver, and with no programming service called or going
\* on behind the main loop, ENVM_CR has the setting of the hardware design.
THEOREM RegistersRestoredHolds ==
  ASSUME Careful PROVE USpec => [](nvm.pc = "idle" => RegistersRestored)
<1>1. UInv => (nvm.pc = "idle" => RegistersRestored) BY DEF UInv, Setting, RegistersRestored
<1> QED BY <1>1, UInvariantHolds, PTL

---------------------------------------------------------------------------
(* The services, with the eNVM driver aside.                                *)

LEMMA ServicesGo ==
  ASSUME [UNext]_uvars
  PROVE  SStep
BY DEF UNext, Service, ServiceGoes, NvmStep, SStep, SNext, Aside, Elsewhere, uvars

LEMMA UServicesHold ==
  ASSUME Legible, Steady PROVE USpec => []SInv
<1>1. UInit => SInv BY SInitInvariant DEF UInit
<1>2. SInv /\ [UNext]_uvars => SInv' BY SStepInvariant, ServicesGo
<1> QED BY <1>1, <1>2, PTL DEF USpec

\* Between the calls, and with no ISP in the background, the eNVM and the clocks are
\* as the hardware design has them, and the controller does not hold eNVM-1, for all
\* services, calls, devices and protections.
THEOREM EnvmLeftAsFoundHolds ==
  ASSUME Careful, Legible, Steady PROVE USpec => []EnvmLeftAsFound
<1>1. UInv /\ SInv => EnvmLeftAsFound
  BY DEF UInv, Setting, RegistersRestored, SInv, Locked, EnvmReleased, Divisors, EnvmLeftAsFound
<1> QED BY <1>1, UInvariantHolds, UServicesHold, PTL

\* Each service gets its own answer and returns, whatever the eNVM driver does between
\* the services: every step is one that ServiceCall lets a caller see.
THEOREM CallsAreServedBeside ==
  ASSUME Legible, Steady PROVE USpec => ABS!Init /\ [][ABS!Next]_(ABS!vars)
<1>1. UInit => ABS!Init BY DEF UInit, SInit, ABS!Init
<1>2. SInv /\ SInv' /\ [UNext]_uvars => [ABS!Next]_(ABS!vars)
  BY CallSimulated, ServicesGo
<1> QED BY <1>1, <1>2, UServicesHold, PTL DEF USpec
=============================================================================
