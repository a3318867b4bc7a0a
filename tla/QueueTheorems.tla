---------------------------- MODULE QueueTheorems ----------------------------
(***************************************************************************)
(* What the queues of the program's models share: requests are appended at *)
(* the back of a sequence and taken from its front.                        *)
(***************************************************************************)
EXTENDS Sequences, Integers, SequenceTheorems, TLAPS

\* What waits in a queue, and that nothing waits in it twice.
Waiting(s) == {s[i] : i \in 1 .. Len(s)}
Once(s) == \A i, j \in 1 .. Len(s) : s[i] = s[j] => i = j

\* An element appended to a queue waits there beside those that did.
LEMMA AppendWaiting ==
  ASSUME NEW S, NEW s \in Seq(S), NEW e \in S
  PROVE  /\ Append(s, e) \in Seq(S)
         /\ Append(s, e) # <<>> /\ Len(Append(s, e)) = Len(s) + 1
         /\ Waiting(Append(s, e)) = Waiting(s) \cup {e}
         /\ Once(s) /\ e \notin Waiting(s) => Once(Append(s, e))
<1> DEFINE t == Append(s, e)
<1>1. /\ t \in Seq(S) /\ t # <<>> /\ Len(t) = Len(s) + 1 /\ Len(s) \in Nat
      /\ \A i \in 1 .. Len(s) : t[i] = s[i]
      /\ t[Len(s) + 1] = e
  BY AppendProperties, LenProperties
<1>2. \A i \in 1 .. Len(t) : i \in 1 .. Len(s) \/ i = Len(s) + 1
  BY <1>1
<1>3. Len(s) + 1 \in 1 .. Len(t) /\ \A i \in 1 .. Len(s) : i \in 1 .. Len(t)
  BY <1>1
<1> HIDE DEF t
<1>4. Waiting(t) = Waiting(s) \cup {e}
  <2>1. \A x \in Waiting(t) : x \in Waiting(s) \cup {e}
    BY <1>1, <1>2 DEF Waiting
  <2>2. \A x \in Waiting(s) \cup {e} : x \in Waiting(t)
    BY <1>1, <1>3 DEF Waiting
  <2>3. QED
    BY <2>1, <2>2
<1>5. ASSUME Once(s), e \notin Waiting(s) PROVE Once(t)
  <2> SUFFICES ASSUME NEW i \in 1 .. Len(t), NEW j \in 1 .. Len(t), t[i] = t[j]
               PROVE  i = j
    BY DEF Once
  <2>1. CASE i \in 1 .. Len(s) /\ j \in 1 .. Len(s)
    BY <1>1, <1>5, <2>1 DEF Once
  <2>2. \A n \in 1 .. Len(s) : s[n] # e
    BY <1>5 DEF Waiting
  <2>3. QED
    BY <1>1, <1>2, <2>1, <2>2
<1>6. QED
  BY <1>1, <1>4, <1>5 DEF t

\* The element at the front waits no longer once it is taken, if it was there once;
\* the others still do.
LEMMA TailWaiting ==
  ASSUME NEW S, NEW s \in Seq(S), s # <<>>
  PROVE  /\ Head(s) \in Waiting(s) /\ Head(s) \in S
         /\ Tail(s) \in Seq(S) /\ Len(Tail(s)) = Len(s) - 1
         /\ Waiting(s) = Waiting(Tail(s)) \cup {Head(s)}
         /\ Once(s) => Once(Tail(s)) /\ Head(s) \notin Waiting(Tail(s))
<1> DEFINE t == Tail(s)
<1>1. /\ t \in Seq(S) /\ Head(s) \in S /\ Len(t) = Len(s) - 1
      /\ Len(s) \in Nat \ {0} /\ Head(s) = s[1]
      /\ \A i \in 1 .. Len(t) : t[i] = s[i + 1]
  BY HeadTailProperties, EmptySeq
<1>2. \A i \in 1 .. Len(s) : i = 1 \/ (i - 1 \in 1 .. Len(t) /\ s[i] = t[i - 1])
  BY <1>1
<1>3. 1 \in 1 .. Len(s) /\ \A i \in 1 .. Len(t) : i + 1 \in 1 .. Len(s) /\ i + 1 # 1
  BY <1>1
<1> HIDE DEF t
<1>4. Head(s) \in Waiting(s)
  BY <1>1, <1>3 DEF Waiting
<1>5. Waiting(s) = Waiting(t) \cup {Head(s)}
  <2>1. ASSUME NEW x \in Waiting(s) PROVE x \in Waiting(t) \cup {Head(s)}
    <3>1. PICK i \in 1 .. Len(s) : x = s[i]
      BY DEF Waiting
    <3>2. QED
      BY <1>1, <1>2, <3>1 DEF Waiting
  <2>2. \A x \in Waiting(t) : x \in Waiting(s)
    BY <1>1, <1>3 DEF Waiting
  <2>3. QED
    BY <1>4, <2>1, <2>2
<1>6. ASSUME Once(s) PROVE Once(t) /\ Head(s) \notin Waiting(t)
  <2>1. Once(t)
    <3> SUFFICES ASSUME NEW i \in 1 .. Len(t), NEW j \in 1 .. Len(t), t[i] = t[j]
                 PROVE  i = j
      BY DEF Once
    <3>1. i + 1 = j + 1
      BY <1>1, <1>3, <1>6 DEF Once
    <3>2. QED
      BY <1>1, <3>1
  <2>2. ASSUME NEW i \in 1 .. Len(t) PROVE t[i] # Head(s)
    BY <1>1, <1>3, <1>6 DEF Once
  <2>3. QED
    BY <2>1, <2>2 DEF Waiting
<1>7. QED
  BY <1>1, <1>4, <1>5, <1>6 DEF t

\* Nothing waits in an empty queue, and something does in any other.
LEMMA EmptyWaiting ==
  ASSUME NEW S
  PROVE  /\ Waiting(<<>>) = {} /\ Once(<<>>) /\ <<>> \in Seq(S)
         /\ \A s \in Seq(S) : s = <<>> <=> Waiting(s) = {}
<1>1. Waiting(<<>>) = {} /\ Once(<<>>) /\ <<>> \in Seq(S)
  BY EmptySeq DEF Waiting, Once
<1>2. ASSUME NEW s \in Seq(S), s # <<>> PROVE Waiting(s) # {}
  BY <1>2, TailWaiting
<1>3. QED
  BY <1>1, <1>2
=============================================================================
