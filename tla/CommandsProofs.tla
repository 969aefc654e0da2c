--------------------------- MODULE CommandsProofs ---------------------------
(***************************************************************************)
(* Theorems about the kernel folders, for any number of processes, folders *)
(* and command lines, and any kernels that are there before.               *)
(***************************************************************************)
EXTENDS RemoteKernelProofs, FiniteSetTheorems, SequenceTheorems

----------------------------------------------------------------------------
(* Sets of positions                                                       *)

\* A set of positions has a last one.
LEMMA LastPosition ==
    ASSUME NEW n \in Nat, NEW T, T \subseteq 1..n, T # {}
    PROVE  \E i \in T : \A j \in T : j <= i
<1> DEFINE B == {m \in Nat : \A j \in T : j <= m}
<1>0. \A j \in T : j \in Nat /\ 1 <= j /\ j <= n
  OBVIOUS
<1>1. B \subseteq Nat /\ n \in B
  BY <1>0
<1>2. PICK m \in B : \A b \in B : m <= b
  BY <1>1, LeastNumber
<1>3. m \in T
  <2>1. SUFFICES ASSUME m \notin T PROVE FALSE
    OBVIOUS
  <2>2. m \in Nat /\ \A j \in T : j \in Nat /\ 1 <= j /\ j <= m /\ j # m
    BY <1>0, <2>1
  <2>3. m # 0
    <3>1. PICK j \in T : TRUE
      OBVIOUS
    <3>2. m \in Nat /\ j \in Nat /\ 1 <= j /\ j <= m
      BY <2>2
    <3>3. QED
      BY <3>2
  <2>4. PICK l \in Nat : l = m - 1
    BY <2>2, <2>3
  <2>5. \A j \in T : j <= l
    BY <2>2, <2>4
  <2>6. l \in B
    BY <2>5
  <2>7. m <= l
    BY <2>6, <1>2
  <2>8. QED
    BY <2>2, <2>4, <2>7
<1>4. QED
  BY <1>3

\* Every element of a set of positions has its number in it.
LEMMA NthPosition ==
    ASSUME NEW n \in Nat, NEW S, S \subseteq 1..n, NEW k \in 1..Cardinality(S)
    PROVE  Nth(S, k) \in S
<1> DEFINE Below(m) == {j \in S : j <= m}
           C(m) == Cardinality(Below(m))
           B == {m \in Nat : k <= C(m)}
<1>0. \A j \in S : j \in Nat /\ 1 <= j /\ j <= n
  OBVIOUS
<1>1. IsFiniteSet(S) /\ Cardinality(S) \in Nat
  <2>1. 1 \in Int /\ n \in Int
    OBVIOUS
  <2>2. IsFiniteSet(1..n)
    BY <2>1, FS_Interval
  <2>3. QED
    BY <2>2, FS_Subset, FS_CardinalityType
<1>2. ASSUME NEW m \in Nat PROVE IsFiniteSet(Below(m)) /\ C(m) \in Nat
  <2>1. Below(m) \subseteq S
    OBVIOUS
  <2>2. QED
    BY <1>1, <2>1, FS_Subset, FS_CardinalityType
<1>3. Below(n) = S
  BY <1>0
<1>4. k \in Nat /\ n \in B /\ B \subseteq Nat
  BY <1>1, <1>3
<1>5. PICK m \in B : \A b \in B : m <= b
  BY <1>4, LeastNumber
<1>6. m # 0
  <2>1. ASSUME NEW j \in S PROVE ~(j <= 0)
    <3>1. j \in Nat /\ 1 <= j
      BY <1>0
    <3>2. QED
      BY <3>1
  <2>2. C(0) = 0
    BY <2>1, FS_EmptySet
  <2>3. m \in Nat /\ k <= C(m)
    BY <1>5
  <2>4. QED
    BY <2>2, <2>3
<1>7. PICK l \in Nat : l = m - 1
  BY <1>4, <1>5, <1>6
<1>8. m \in Nat /\ k <= C(m) /\ ~(k <= C(l))
  <2>1. m \in Nat /\ k <= C(m)
    BY <1>5
  <2>2. ~(m <= l)
    BY <1>7, <2>1
  <2>3. l \notin B
    BY <1>5, <2>2
  <2>4. QED
    BY <2>1, <2>3
<1>9. \A j \in S : j <= m <=> j <= l \/ j = m
  BY <1>0, <1>7, <1>8
<1>10. m \in S
  <2>1. SUFFICES ASSUME m \notin S PROVE FALSE
    OBVIOUS
  <2>2. Below(m) = Below(l)
    BY <2>1, <1>9
  <2>3. QED
    BY <2>2, <1>8
<1>11. Below(m) = Below(l) \cup {m} /\ m \notin Below(l)
  BY <1>7, <1>8, <1>9, <1>10
<1>12. C(m) = C(l) + 1
  BY <1>2, <1>7, <1>11, FS_AddElement
<1>13. C(m) \in Nat /\ C(l) \in Nat
  BY <1>2, <1>7, <1>8
<1> HIDE DEF C, Below
<1>14. C(m) = k
  BY <1>4, <1>8, <1>12, <1>13
<1>15. m \in S /\ Cardinality({j \in S : j <= m}) = k
  BY <1>10, <1>14 DEF C, Below
<1>16. QED
  BY <1>15 DEF Nth

----------------------------------------------------------------------------
(* Command lines of several parts                                          *)

\* The texts that install_kernel() stores itself (install.py:112-140).
Stored ==
    {"python", "-m", "remote_kernel", "-t", "-J", "-i", "-pc", "-k", "--no-remote-files", "-f",
     Connection, "-s", "--no-recursive", "--bi-directional", "--local-folder", "--remote-folder"}

\* What is where in a command line of three parts.
LEMMA ThreeParts ==
    ASSUME NEW S, NEW a \in Seq(S), NEW x \in Seq(S), NEW b \in Seq(S),
           NEW s, s = a \o x \o b
    PROVE  /\ s \in Seq(S) /\ Len(a) \in Nat /\ Len(x) \in Nat /\ Len(b) \in Nat
           /\ Len(s) = Len(a) + Len(x) + Len(b) /\ DOMAIN s = 1..Len(s)
           /\ \A i \in 1..Len(x) : s[Len(a) + i] = x[i]
           /\ SubSeq(s, 1, Len(a)) = a
           /\ SubSeq(s, Len(a) + Len(x) + 1, Len(s)) = b
<1>1. PICK l, m, n : l = Len(a) /\ m = Len(x) /\ n = Len(b)
  OBVIOUS
<1>2. l \in Nat /\ m \in Nat /\ n \in Nat
  BY <1>1, LenProperties
<1>3. PICK u : u = a \o x
  OBVIOUS
<1>4. u \in Seq(S) /\ Len(u) = l + m
      /\ \A i \in 1..l + m : u[i] = IF i <= l THEN a[i] ELSE x[i - l]
  BY <1>1, <1>3, ConcatProperties
<1>5. s = u \o b
  BY <1>3
<1>6. s \in Seq(S) /\ Len(s) = l + m + n
      /\ \A i \in 1..l + m + n : s[i] = IF i <= l + m THEN u[i] ELSE b[i - (l + m)]
  BY <1>1, <1>4, <1>5, ConcatProperties
<1>7. DOMAIN s = 1..Len(s)
  BY <1>6, LenProperties
<1>8. ASSUME NEW i \in 1..m PROVE s[l + i] = x[i]
  <2>1. l + i \in 1..l + m + n /\ l + i <= l + m /\ l + i \in 1..l + m /\ ~(l + i <= l)
        /\ (l + i) - l = i
    BY <1>2
  <2>2. QED
    BY <1>4, <1>6, <2>1
<1>9. SubSeq(s, 1, l) = a
  <2>1. ASSUME NEW i \in 1..l PROVE s[i] = a[i] /\ s[i] \in S
    <3>1. i \in 1..l + m + n /\ i <= l + m /\ i \in 1..l + m /\ i <= l
      BY <1>2
    <3>2. s[i] = a[i]
      BY <1>4, <1>6, <3>1
    <3>3. a[i] \in S
      BY <1>1, ElementOfSeq
    <3>4. QED
      BY <3>2, <3>3
  <2>2. PICK t : t = SubSeq(s, 1, l)
    OBVIOUS
  <2>3. t \in Seq(S) /\ Len(t) = (IF 1 <= l THEN l - 1 + 1 ELSE 0)
        /\ \A i \in 1..l - 1 + 1 : t[i] = s[1 + i - 1]
    <3>1. \A i \in 1..l : s[i] \in S
      BY <2>1
    <3>2. 1 \in Int /\ l \in Int
      BY <1>2
    <3>3. QED
      BY ONLY <3>1, <3>2, <2>2, SubSeqProperties
  <2>4. Len(t) = l
    BY <1>2, <2>3
  <2>5. \A i \in 1..l : t[i] = a[i]
    <3>1. ASSUME NEW i \in 1..l PROVE t[i] = a[i]
      <4>1. i \in 1..l - 1 + 1 /\ 1 + i - 1 = i
        BY <1>2
      <4>2. QED
        BY <2>1, <2>3, <4>1
    <3>2. QED
      BY <3>1
  <2>6. QED
    BY <1>1, <2>2, <2>3, <2>4, <2>5, SeqEqual
<1>10. SubSeq(s, l + m + 1, Len(s)) = b
  <2>1. PICK p, q : p = l + m + 1 /\ q = l + m + n
    OBVIOUS
  <2>2. p \in Int /\ q \in Int /\ q - p + 1 = n /\ (p <= q <=> 1 <= n)
    BY <1>2, <2>1
  <2>3. ASSUME NEW i \in p..q PROVE s[i] \in S
    <3>1. i \in 1..l + m + n
      BY <1>2, <2>1
    <3>2. QED
      BY <1>6, <3>1, ElementOfSeq
  <2>4. PICK t : t = SubSeq(s, p, q)
    OBVIOUS
  <2>5. t \in Seq(S) /\ Len(t) = (IF p <= q THEN q - p + 1 ELSE 0)
        /\ \A i \in 1..q - p + 1 : t[i] = s[p + i - 1]
    BY ONLY <2>2, <2>3, <2>4, SubSeqProperties
  <2>6. Len(t) = n
    BY <1>2, <2>2, <2>5
  <2>7. ASSUME NEW i \in 1..n PROVE t[i] = b[i]
    <3>1. PICK j : j = p + i - 1
      OBVIOUS
    <3>2. i \in 1..q - p + 1
      BY <2>2
    <3>3. j \in 1..l + m + n /\ ~(j <= l + m) /\ j - (l + m) = i
      BY <1>2, <2>1, <3>1
    <3>4. s[j] = b[i]
      BY <1>6, <3>3
    <3>5. QED
      BY <2>5, <3>1, <3>2, <3>4
  <2>8. t = b
    BY <1>1, <2>5, <2>6, <2>7, SeqEqual
  <2>9. QED
    BY <1>6, <2>1, <2>4, <2>8
<1>11. QED
  BY <1>1, <1>2, <1>6, <1>7, <1>8, <1>9, <1>10

\* What the first and the last part do not hold is in the middle one.
LEMMA InTheMiddle ==
    ASSUME NEW Q, NEW a \in Seq(Q), NEW b \in Seq(Q), NEW S, NEW x \in Seq(S),
           NEW i \in DOMAIN (a \o x \o b), (a \o x \o b)[i] \notin Q
    PROVE  i \in Nat /\ i - Len(a) \in 1..Len(x)
<1>1. PICK U : U = Q \cup S
  OBVIOUS
<1>2. a \in Seq(U) /\ b \in Seq(U) /\ x \in Seq(U)
  BY <1>1
<1>3. PICK l, m, n, u, s : l = Len(a) /\ m = Len(x) /\ n = Len(b) /\ u = a \o x /\ s = a \o x \o b
  OBVIOUS
<1>4. l \in Nat /\ m \in Nat /\ n \in Nat
  BY <1>3, LenProperties
<1>5. u \in Seq(U) /\ Len(u) = l + m
      /\ \A j \in 1..l + m : u[j] = IF j <= l THEN a[j] ELSE x[j - l]
  BY <1>2, <1>3, ConcatProperties
<1>6. Len(s) = l + m + n /\ DOMAIN s = 1..Len(s)
      /\ \A j \in 1..l + m + n : s[j] = IF j <= l + m THEN u[j] ELSE b[j - (l + m)]
  <2>1. s = u \o b
    BY <1>3
  <2>2. QED
    BY <1>2, <1>3, <1>5, <2>1, ConcatProperties, LenProperties
<1>7. i \in Nat /\ i \in 1..l + m + n /\ s[i] \notin Q
  BY <1>3, <1>4, <1>6
<1>8. ~(i <= l)
  <2>1. ASSUME i <= l PROVE s[i] \in Q
    <3>1. i \in 1..l /\ i \in 1..l + m /\ i <= l + m
      BY <1>4, <1>7, <2>1
    <3>2. s[i] = a[i]
      BY <1>5, <1>6, <1>7, <2>1, <3>1
    <3>3. QED
      BY <1>3, <3>1, <3>2, ElementOfSeq
  <2>2. QED
    BY <1>7, <2>1
<1>9. i <= l + m
  <2>1. ASSUME ~(i <= l + m) PROVE s[i] \in Q
    <3>1. PICK j : j = i - (l + m)
      OBVIOUS
    <3>2. j \in 1..n
      BY <1>4, <1>7, <2>1, <3>1
    <3>3. s[i] = b[j]
      BY <1>6, <1>7, <2>1, <3>1
    <3>4. QED
      BY <1>3, <3>2, <3>3, ElementOfSeq
  <2>2. QED
    BY <1>7, <2>1
<1>10. i - l \in 1..m
  BY <1>4, <1>7, <1>8, <1>9
<1>11. QED
  BY <1>3, <1>7, <1>10

\* None of these strings is one of the names.
Free(Q, names) == \A q \in Q : q \notin Words(names)

\* A part that does not speak of an option.
LEMMA NotSaid ==
    ASSUME NEW N, NEW Q, Free(Q, N), NEW s \in Seq(Q)
    PROVE  Places(s, N) = {}
<1>1. \A i \in DOMAIN s : s[i] \in Q
  OBVIOUS
<1>2. QED
  BY <1>1 DEF Places, Free

\* The one place of the names, and what stands there and behind.
OnlyAt(s, names, i, w, v) ==
    i \in Nat /\ Places(s, names) = {i} /\ s[i] = w /\ s[i + 1] = v

\* The only part that speaks of an option with a value.
LEMMA SaidOnce ==
    ASSUME NEW N, NEW Q, Free(Q, N), NEW a \in Seq(Q), NEW b \in Seq(Q),
           NEW w \in Words(N), NEW v, v \notin Words(N), NEW x, x = <<w, v>>,
           NEW s, s = a \o x \o b
    PROVE  OnlyAt(s, N, Len(a) + 1, w, v)
<1>1. PICK U : U = Q \cup {w, v}
  OBVIOUS
<1>2. a \in Seq(U) /\ b \in Seq(U) /\ x \in Seq(U) /\ x \in Seq({w, v}) /\ Len(x) = 2 /\ x[1] = w /\ x[2] = v
  BY <1>1
<1>3. s = a \o x \o b
  OBVIOUS
<1>4. /\ Len(a) \in Nat /\ Len(b) \in Nat /\ Len(s) = Len(a) + 2 + Len(b)
      /\ DOMAIN s = 1..Len(s) /\ \A i \in 1..2 : s[Len(a) + i] = x[i]
  BY <1>2, <1>3, ThreeParts
<1>5. s[Len(a) + 1] = w /\ s[Len(a) + 2] = v /\ Len(a) + 1 \in DOMAIN s
  <2>1. 1 \in 1..2 /\ 2 \in 1..2 /\ Len(a) + 1 \in 1..Len(s)
    BY <1>4
  <2>2. QED
    BY <1>2, <1>4, <2>1
<1>6. ASSUME NEW i \in Places(s, N) PROVE i = Len(a) + 1
  <2>1. i \in DOMAIN s /\ s[i] \in Words(N) /\ s[i] \notin Q
    BY <1>6 DEF Places, Free
  <2>2. i \in Nat /\ i - Len(a) \in 1..2
    BY <1>2, <1>3, <2>1, InTheMiddle
  <2>3. i = Len(a) + 1 \/ i = Len(a) + 2
    BY <1>4, <2>2
  <2>4. QED
    BY <1>5, <2>1, <2>3
<1>7. Places(s, N) = {Len(a) + 1}
  BY <1>5, <1>6 DEF Places
<1>8. Len(a) + 1 \in Nat /\ (Len(a) + 1) + 1 = Len(a) + 2
  BY <1>4
<1>9. QED
  BY <1>5, <1>7, <1>8 DEF OnlyAt

\* The switch is there if and only if it is on.
IsSwitched(s, names, on) == (Places(s, names) # {}) = on

\* The only part that holds a switch.
LEMMA SwitchedOnce ==
    ASSUME NEW N, NEW Q, Free(Q, N), NEW a \in Seq(Q), NEW b \in Seq(Q),
           NEW t \in N, NEW on \in BOOLEAN, NEW s, s = a \o Switch(t, on) \o b
    PROVE  IsSwitched(s, N, on)
<1>1. CASE on = TRUE
  <2>1. PICK U, x : U = Q \cup {Word(t)} /\ x = <<Word(t)>>
    OBVIOUS
  <2>2. a \in Seq(U) /\ b \in Seq(U) /\ x \in Seq(U)
    BY <2>1
  <2>3. s = a \o x \o b
    BY <1>1, <2>1 DEF Switch
  <2>4. /\ Len(a) \in Nat /\ Len(b) \in Nat /\ Len(s) = Len(a) + Len(x) + Len(b)
        /\ DOMAIN s = 1..Len(s) /\ \A i \in 1..Len(x) : s[Len(a) + i] = x[i]
    BY <2>2, <2>3, ThreeParts
  <2>5. s[Len(a) + 1] = Word(t) /\ Len(a) + 1 \in 1..Len(s)
    <3>1. Len(x) = 1 /\ x[1] = Word(t)
      BY <2>1
    <3>2. 1 \in 1..Len(x) /\ Len(a) + 1 \in 1..Len(s)
      BY <2>4, <3>1
    <3>3. QED
      BY <2>4, <3>1, <3>2
  <2>6. Len(a) + 1 \in Places(s, N)
    BY <2>4, <2>5 DEF Places, Words
  <2>7. QED
    BY <1>1, <2>6 DEF IsSwitched
<1>2. CASE on = FALSE
  <2>1. s \in Seq(Q)
    BY <1>2 DEF Switch
  <2>2. Places(s, N) = {}
    BY <2>1, NotSaid
  <2>3. QED
    BY <1>2, <2>2 DEF IsSwitched
<1>3. QED
  BY <1>1, <1>2

\* A value that is none of the names, and the one that is read for it.
Unlike(v, names) == v # None => Command(v) \notin Words(names)
AllUnlike(V, names) == \A v \in V : Command(v) \notin Words(names)
IsValue(s, o, v) == ValueOf(s, o) = IF v = None THEN Default[o] ELSE v
AreJumps(s, o) == ValuesOf(s, "jump") = o.jump

\* A value that is given is the value there is, and one that is not is the default.
LEMMA ValueSaid ==
    ASSUME NEW o \in DOMAIN Spellings, NEW Q, Free(Q, Spellings[o]),
           NEW a \in Seq(Q), NEW b \in Seq(Q), NEW n \in Spellings[o],
           NEW v, Unlike(v, Spellings[o]), NEW s, s = a \o Given(n, v) \o b
    PROVE  IsValue(s, o, v)
<1>1. CASE v = None
  <2>1. s \in Seq(Q)
    BY <1>1 DEF Given
  <2>2. Places(s, Spellings[o]) = {}
    BY <2>1, NotSaid
  <2>3. QED
    BY <1>1, <2>2 DEF ValueOf, IsValue
<1>2. CASE v # None
  <2>1. PICK N, w, c, x : N = Spellings[o] /\ w = Word(n) /\ c = Command(v) /\ x = <<w, c>>
    OBVIOUS
  <2>2. w \in Words(N) /\ c \notin Words(N) /\ x = <<w, c>> /\ s = a \o x \o b
    <3>1. Given(n, v) = x
      BY <1>2, <2>1 DEF Given
    <3>2. w \in Words(N)
      BY <2>1 DEF Words
    <3>3. c \notin Words(N)
      BY <1>2, <2>1 DEF Unlike
    <3>4. QED
      BY <2>1, <3>1, <3>2, <3>3
  <2>3. OnlyAt(s, N, Len(a) + 1, w, c)
    <3>1. Free(Q, N)
      BY <2>1
    <3>2. QED
      BY ONLY <2>2, <3>1, a \in Seq(Q), b \in Seq(Q), SaidOnce
  <2>4. PICK at, i : at = Places(s, N) /\ i = Len(a) + 1
    OBVIOUS
  <2>5. at = {i} /\ i \in Nat /\ s[i + 1] = c
    BY <2>3, <2>4 DEF OnlyAt
  <2>6. (CHOOSE k \in at : \A j \in at : j <= k) = i
    BY <2>5
  <2>7. ValueOf(s, o) = s[1 + i].commands
    BY <2>1, <2>4, <2>5, <2>6 DEF ValueOf
  <2>8. c.commands = v
    BY <2>1 DEF Command, Joined
  <2>9. 1 + i = i + 1
    BY <2>5
  <2>10. QED
    BY <1>2, <2>5, <2>7, <2>8, <2>9 DEF IsValue
<1>3. QED
  BY <1>1, <1>2

\* Every other position behind c.
Odd(c, n) == {c + 2 * k - 1 : k \in 1..n}

\* There are n of them.
LEMMA OddPositions ==
    ASSUME NEW c \in Nat, NEW n \in Nat
    PROVE  Cardinality(Odd(c, n)) = n
<1>1. PICK f : f = [k \in 1..n |-> c + 2 * k - 1]
  OBVIOUS
<1>2. f \in Bijection(1..n, Odd(c, n))
  <2>1. f \in [1..n -> Odd(c, n)]
    BY <1>1 DEF Odd
  <2>2. \A j, k \in 1..n : f[j] = f[k] => j = k
    BY <1>1
  <2>3. \A i \in Odd(c, n) : \E k \in 1..n : f[k] = i
    BY <1>1 DEF Odd
  <2>4. f \in Injection(1..n, Odd(c, n))
    BY <2>1, <2>2 DEF Injection, IsInjective
  <2>5. f \in Surjection(1..n, Odd(c, n))
    BY <2>1, <2>3 DEF Surjection
  <2>6. QED
    BY <2>4, <2>5 DEF Bijection
<1>3. ExistsBijection(1..n, Odd(c, n))
  BY <1>2 DEF ExistsBijection
<1>4. QED
  BY <1>3, FS_CountingElements

\* The k-th of them is the one k times two behind.
LEMMA NthOdd ==
    ASSUME NEW c \in Nat, NEW n \in Nat, NEW k \in 1..n
    PROVE  Nth(Odd(c, n), k) = c + 2 * k - 1
<1> DEFINE S == Odd(c, n)
           Below(i) == {j \in S : j <= i}
<1>1. ASSUME NEW m \in 1..n PROVE Cardinality(Below(c + 2 * m - 1)) = m
  <2>1. m \in Nat
    OBVIOUS
  <2>2. Below(c + 2 * m - 1) = Odd(c, m)
    <3>1. ASSUME NEW j \in Below(c + 2 * m - 1) PROVE j \in Odd(c, m)
      <4>1. PICK l \in 1..n : j = c + 2 * l - 1 /\ j <= c + 2 * m - 1
        BY DEF Odd
      <4>2. l \in 1..m
        BY <4>1
      <4>3. QED
        BY <4>1, <4>2 DEF Odd
    <3>2. ASSUME NEW j \in Odd(c, m) PROVE j \in Below(c + 2 * m - 1)
      <4>1. PICK l \in 1..m : j = c + 2 * l - 1
        BY DEF Odd
      <4>2. l \in 1..n /\ j <= c + 2 * m - 1
        BY <4>1
      <4>3. QED
        BY <4>1, <4>2 DEF Odd
    <3>3. QED
      BY <3>1, <3>2
  <2>3. QED
    BY <2>1, <2>2, OddPositions
<1>2. c + 2 * k - 1 \in S
  BY DEF Odd
<1>3. ASSUME NEW i \in S, Cardinality(Below(i)) = k PROVE i = c + 2 * k - 1
  <2>1. PICK m \in 1..n : i = c + 2 * m - 1
    BY DEF Odd
  <2>2. m = k
    BY <1>1, <1>3, <2>1
  <2>3. QED
    BY <2>1, <2>2
<1>4. Cardinality(Below(c + 2 * k - 1)) = k
  BY <1>1
<1> HIDE DEF S
<1>5. \E i \in S : i = c + 2 * k - 1 /\ Cardinality({j \in S : j <= i}) = k
  BY <1>2, <1>4
<1>6. \A i \in S : Cardinality({j \in S : j <= i}) = k => i = c + 2 * k - 1
  BY <1>3
<1>7. Nth(S, k) = c + 2 * k - 1
  BY ONLY <1>5, <1>6 DEF Nth
<1>8. QED
  BY <1>7 DEF S

\* The jump hosts that are given are those there are, in their order.
LEMMA JumpsSaid ==
    ASSUME NEW Q, Free(Q, {"-J"}), NEW a \in Seq(Q), NEW b \in Seq(Q),
           NEW o, NEW V, AllUnlike(V, {"-J"}), o.jump \in Seq(V),
           NEW s, s = a \o JumpArgs(o) \o b
    PROVE  AreJumps(s, o)
<1>1. PICK jump, n, x, c : jump = o.jump /\ n = Len(jump) /\ x = JumpArgs(o) /\ c = Len(a)
  OBVIOUS
<1>2. n \in Nat /\ jump \in [1..n -> V]
  BY <1>1, LenProperties
<1>3. PICK J, U : J = {Word("-J")} \cup {Command(v) : v \in V} /\ U = Q \cup J
  OBVIOUS
<1>4. x = [i \in 1..2 * n |-> IF i % 2 = 1 THEN Word("-J") ELSE Command(jump[i \div 2])]
  BY <1>1 DEF JumpArgs
<1>5. x \in Seq(J) /\ Len(x) = 2 * n
  <2>1. ASSUME NEW i \in 1..2 * n
        PROVE  (IF i % 2 = 1 THEN Word("-J") ELSE Command(jump[i \div 2])) \in J
    <3>1. i % 2 # 1 => i \div 2 \in 1..n
      BY <1>2
    <3>2. i % 2 # 1 => jump[i \div 2] \in V
      BY <1>2, <3>1
    <3>3. QED
      BY <1>3, <3>2
  <2>2. PICK m \in Nat : m = 2 * n
    BY <1>2
  <2>3. x \in [1..m -> J]
    BY <1>4, <2>1, <2>2
  <2>4. x \in Seq(J) /\ Len(x) = m
    BY ONLY m \in Nat, <2>3
  <2>5. QED
    BY <2>2, <2>4
<1>6. a \in Seq(U) /\ b \in Seq(U) /\ x \in Seq(U)
  BY <1>3, <1>5
<1>7. /\ c \in Nat /\ Len(b) \in Nat /\ Len(s) = c + 2 * n + Len(b) /\ DOMAIN s = 1..Len(s)
      /\ \A i \in 1..2 * n : s[c + i] = x[i]
  <2>1. s = a \o x \o b
    BY <1>1
  <2>2. /\ Len(a) \in Nat /\ Len(b) \in Nat /\ Len(s) = Len(a) + Len(x) + Len(b)
        /\ DOMAIN s = 1..Len(s) /\ \A i \in 1..Len(x) : s[Len(a) + i] = x[i]
    BY ONLY <1>6, <2>1, ThreeParts
  <2>3. QED
    BY <1>1, <1>5, <2>2
<1>8. ASSUME NEW k \in 1..n
      PROVE  /\ c + 2 * k - 1 \in DOMAIN s /\ s[c + 2 * k - 1] = Word("-J")
             /\ s[c + 2 * k] = Command(jump[k])
  <2>1. PICK i, j : i = 2 * k - 1 /\ j = 2 * k
    OBVIOUS
  <2>2. /\ i \in 1..2 * n /\ j \in 1..2 * n /\ i % 2 = 1 /\ j % 2 # 1 /\ j \div 2 = k
        /\ c + 2 * k - 1 = c + i /\ c + 2 * k = c + j /\ c + i \in 1..Len(s)
    <3>1. k \in Nat /\ k <= n /\ 1 <= k
      BY <1>2
    <3>2. i \in 1..2 * n /\ j \in 1..2 * n /\ c + 2 * k - 1 = c + i /\ c + 2 * k = c + j
      BY <1>2, <1>7, <2>1, <3>1
    <3>3. i % 2 = 1 /\ j % 2 # 1 /\ j \div 2 = k
      BY <2>1, <3>1
    <3>4. c + i \in 1..Len(s)
      BY <1>2, <1>7, <2>1, <3>1
    <3>5. QED
      BY <3>2, <3>3, <3>4
  <2>3. x[i] = Word("-J") /\ x[j] = Command(jump[k])
    BY <1>4, <2>2
  <2>4. QED
    BY <1>7, <2>2, <2>3
<1>9. Places(s, {"-J"}) = Odd(c, n)
  <2>1. ASSUME NEW i \in Places(s, {"-J"}) PROVE i \in Odd(c, n)
    <3>1. i \in DOMAIN s /\ s[i] \in Words({"-J"}) /\ s[i] \notin Q
      BY <2>1 DEF Places, Free
    <3>2. i \in Nat /\ i - c \in 1..2 * n
      BY <1>1, <1>5, <3>1, InTheMiddle
    <3>3. PICK r \in 1..2 * n : r = i - c
      BY <3>2
    <3>4. i = c + r
      BY <1>7, <3>2, <3>3
    <3>5. s[i] = x[r]
      BY <1>7, <3>4
    <3>6. r % 2 = 1
      <4>1. SUFFICES ASSUME r % 2 # 1 PROVE FALSE
        OBVIOUS
      <4>2. r \div 2 \in 1..n
        BY <1>2, <4>1
      <4>3. jump[r \div 2] \in V /\ x[r] = Command(jump[r \div 2])
        BY <1>2, <1>4, <4>1, <4>2
      <4>4. QED
        BY <3>1, <3>5, <4>3 DEF AllUnlike
    <3>7. PICK k \in 1..n : r = 2 * k - 1
      <4>1. PICK k : k = r \div 2 + 1
        OBVIOUS
      <4>2. r = 2 * (r \div 2) + (r % 2) /\ r \div 2 \in Nat
        BY <1>2
      <4>3. k \in Nat /\ r = 2 * k - 1
        BY <3>6, <4>1, <4>2
      <4>4. k \in 1..n
        BY <1>2, <4>3
      <4>5. QED
        BY <4>3, <4>4
    <3>8. QED
      BY <1>7, <3>4, <3>7 DEF Odd
  <2>2. ASSUME NEW i \in Odd(c, n) PROVE i \in Places(s, {"-J"})
    <3>1. PICK k \in 1..n : i = c + 2 * k - 1
      BY DEF Odd
    <3>2. QED
      BY <1>8, <3>1 DEF Places, Words
  <2>3. QED
    BY <2>1, <2>2
<1>10. PICK at : at = Odd(c, n)
  OBVIOUS
<1>11. Places(s, Spellings["jump"]) = at
  BY <1>9, <1>10 DEF Spellings
<1>12. Cardinality(at) = n /\ \A k \in 1..n : Nth(at, k) = c + 2 * k - 1
  BY <1>2, <1>7, <1>10, OddPositions, NthOdd
<1>13. ValuesOf(s, "jump") = [k \in 1..n |-> s[Nth(at, k) + 1].commands]
  BY <1>11, <1>12 DEF ValuesOf
<1>14. ASSUME NEW k \in 1..n PROVE s[Nth(at, k) + 1].commands = jump[k]
  <2>1. c + 2 * k - 1 + 1 = c + 2 * k
    BY <1>2, <1>7
  <2>2. s[Nth(at, k) + 1] = Command(jump[k])
    BY <1>8, <1>12, <2>1
  <2>3. \A v : Command(v).commands = v
    BY DEF Command, Joined
  <2>4. QED
    BY <2>2, <2>3
<1>15. jump = [k \in 1..n |-> jump[k]]
  BY <1>2
<1>16. QED
  BY <1>1, <1>13, <1>14, <1>15 DEF AreJumps

----------------------------------------------------------------------------
(* What is read of a composed command line                                 *)

\* Three parts are put together in either order.
Regrouped(a, b, c) == (a \o b) \o c = a \o (b \o c)

\* Sequences can be regrouped.
LEMMA InSeqRegrouped == \A T : \A a, b, c \in Seq(T) : Regrouped(a, b, c)
BY ConcatAssociative DEF Regrouped

\* The part x between others, of strings of T, that hold none of the names.
Around(s, T, names, x) == \E a, b \in Seq(T \ Words(names)) : s = a \o x \o b

\* The part alone, and with one more before or behind.
LEMMA AroundGrows ==
    ASSUME NEW T, NEW N, NEW x \in Seq(T)
    PROVE  /\ Around(x, T, N, x)
           /\ \A s, t : Around(s, T, N, x) /\ t \in Seq(T \ Words(N)) =>
                 Around(s \o t, T, N, x) /\ Around(t \o s, T, N, x)
<1> DEFINE W == Seq(T \ Words(N))
<1>1. Around(x, T, N, x)
  <2>1. PICK e : e = <<>>
    OBVIOUS
  <2>2. e \in W /\ e \o x = x /\ x \o e = x
    BY <2>1, ConcatEmptySeq
  <2>3. x = e \o x \o e
    BY <2>2
  <2>4. QED
    BY <2>2, <2>3 DEF Around
<1>2. ASSUME NEW s, NEW t \in W, Around(s, T, N, x)
      PROVE  Around(s \o t, T, N, x) /\ Around(t \o s, T, N, x)
  <2>1. PICK a \in W, b \in W : s = a \o x \o b
    BY <1>2 DEF Around
  <2>2. a \in Seq(T) /\ b \in Seq(T) /\ t \in Seq(T)
    <3>1. \A u \in W : u \in Seq(T)
      OBVIOUS
    <3>2. QED
      BY <3>1
  <2>3. PICK c, d : c = t \o a /\ d = b \o t
    OBVIOUS
  <2>4. c \in W /\ d \in W
    BY <2>3, ConcatProperties
  <2>5. a \o x \in Seq(T)
    BY <2>2, ConcatProperties
  <2>6. s \o t = a \o x \o d
    <3>1. PICK u : u = a \o x
      OBVIOUS
    <3>2. u \in Seq(T)
      BY <2>5, <3>1
    <3>3. Regrouped(u, b, t)
      BY ONLY <2>2, <3>2, InSeqRegrouped
    <3>4. (u \o b) \o t = u \o (b \o t)
      BY ONLY <3>3 DEF Regrouped
    <3>5. QED
      BY <2>1, <2>3, <3>1, <3>4
  <2>7. t \o s = c \o x \o b
    <3>1. t \o s = (t \o (a \o x)) \o b
      <4>1. PICK u : u = a \o x
        OBVIOUS
      <4>2. u \in Seq(T)
        BY <2>5, <4>1
      <4>3. (t \o u) \o b = t \o (u \o b)
        <5>1. Regrouped(t, u, b)
          BY ONLY <2>2, <4>2, InSeqRegrouped
        <5>2. QED
          BY ONLY <5>1 DEF Regrouped
      <4>4. QED
        BY <2>1, <4>1, <4>3
    <3>2. t \o (a \o x) = c \o x
      <4>1. x \in Seq(T)
        OBVIOUS
      <4>2. t \o (a \o x) = (t \o a) \o x
        <5>1. Regrouped(t, a, x)
          BY ONLY <2>2, <4>1, InSeqRegrouped
        <5>2. QED
          BY ONLY <5>1 DEF Regrouped
      <4>3. QED
        BY <2>3, <4>2
    <3>3. QED
      BY <3>1, <3>2
  <2>8. QED
    BY <2>4, <2>6, <2>7 DEF Around
<1>3. QED
  BY <1>1, <1>2

\* The strings without the names are free of them.
LEMMA WithoutIsFree == \A T, N : Free(T \ Words(N), N)
BY DEF Free

\* A value is read.
LEMMA ReadValue ==
    ASSUME NEW T, NEW o \in DOMAIN Spellings, NEW n \in Spellings[o], NEW v,
           Unlike(v, Spellings[o]),
           NEW s, Around(s, T, Spellings[o], Given(n, v))
    PROVE  IsValue(s, o, v)
<1>1. PICK Q : Q = T \ Words(Spellings[o])
  OBVIOUS
<1>2. PICK a \in Seq(Q), b \in Seq(Q) : s = a \o Given(n, v) \o b
  BY <1>1 DEF Around
<1>3. Free(Q, Spellings[o])
  BY <1>1, WithoutIsFree
<1>4. QED
  BY <1>2, <1>3, ValueSaid

\* A switch is read.
LEMMA ReadSwitch ==
    ASSUME NEW T, NEW N, NEW t \in N, NEW on \in BOOLEAN, NEW s, Around(s, T, N, Switch(t, on))
    PROVE  IsSwitched(s, N, on)
<1>1. PICK Q : Q = T \ Words(N)
  OBVIOUS
<1>2. PICK a \in Seq(Q), b \in Seq(Q) : s = a \o Switch(t, on) \o b
  BY <1>1 DEF Around
<1>3. Free(Q, N)
  BY <1>1, WithoutIsFree
<1>4. QED
  BY <1>2, <1>3, SwitchedOnce

\* The jump hosts are read.
LEMMA ReadJumps ==
    ASSUME NEW T, NEW o, NEW V, AllUnlike(V, {"-J"}), o.jump \in Seq(V),
           NEW s, Around(s, T, {"-J"}, JumpArgs(o))
    PROVE  AreJumps(s, o)
<1>1. PICK Q : Q = T \ Words({"-J"})
  OBVIOUS
<1>2. PICK a \in Seq(Q), b \in Seq(Q) : s = a \o JumpArgs(o) \o b
  BY <1>1 DEF Around
<1>3. Free(Q, {"-J"})
  BY <1>1, WithoutIsFree
<1>4. QED
  BY <1>2, <1>3, JumpsSaid

----------------------------------------------------------------------------
(* The parts of a stored command line                                      *)

\* The names of the options.
OptionNames ==
    UNION ({Spellings[o] : o \in DOMAIN Spellings}
           \cup {Switches[o] : o \in DOMAIN Switches} \cup {{"-c", "--command"}})

\* The strings for values of V.
Strings(V) == Words(Stored) \cup {Command(v) : v \in V}

AllSayable(V) == \A v \in V : CanSay(v)

\* A part of strings of T that speaks of the option t only.
Speaks(T, p, t) ==
    p \in Seq(T) /\ \A N \in SUBSET OptionNames : t \notin N => p \in Seq(T \ Words(N))

\* A text is no name but the one it is.
LEMMA WordIsOne == \A t, N : t \notin N => Word(t) \notin Words(N)
<1>1. \A t, u : Word(t) = Word(u) => t = u
  <2>1. \A t : Word(t).commands = <<t>>
    BY DEF Word, Command, Joined
  <2>2. ASSUME NEW t, NEW u, Word(t) = Word(u) PROVE t = u
    <3>1. <<t>> = <<u>>
      BY <2>1, <2>2
    <3>2. QED
      BY <3>1
  <2>3. QED
    BY <2>2
<1>2. QED
  BY <1>1 DEF Words

\* A value is no name of an option.
LEMMA ValueIsNoName ==
    ASSUME NEW V, AllSayable(V), NEW v \in V, NEW N \in SUBSET OptionNames
    PROVE  Command(v) \notin Words(N)
<1>1. Command(v) \notin Words(OptionNames)
  BY DEF AllSayable, CanSay, Dashed, OptionNames
<1>2. QED
  BY <1>1 DEF Words

\* What the strings are that do not name an option.
LEMMA QuietStrings ==
    ASSUME NEW V, AllSayable(V), NEW N \in SUBSET OptionNames
    PROVE  /\ \A t \in Stored : Word(t) \in Strings(V) /\ (t \notin N => Word(t) \in Strings(V) \ Words(N))
           /\ \A v \in V : Command(v) \in Strings(V) \ Words(N)
<1>1. \A t \in Stored : Word(t) \in Strings(V)
  BY DEF Strings, Words
<1>2. \A t : t \notin N => Word(t) \notin Words(N)
  BY WordIsOne
<1>3. \A v \in V : Command(v) \in Strings(V)
  BY DEF Strings
<1>4. \A v \in V : Command(v) \notin Words(N)
  BY ValueIsNoName
<1>5. QED
  BY <1>1, <1>2, <1>3, <1>4

\* A part that speaks of t: its strings are t and values.
LEMMA PartSpeaks ==
    ASSUME NEW V, AllSayable(V), NEW t \in Stored, NEW p,
           p \in Seq({Word(t)} \cup {Command(v) : v \in V})
    PROVE  Speaks(Strings(V), p, t)
<1> DEFINE S == {Word(t)} \cup {Command(v) : v \in V}
<1>1. S \subseteq Strings(V)
  <2>1. {} \in SUBSET OptionNames
    OBVIOUS
  <2>2. Word(t) \in Strings(V) /\ \A v \in V : Command(v) \in Strings(V)
    BY <2>1, QuietStrings
  <2>3. QED
    BY <2>2
<1>2. ASSUME NEW N \in SUBSET OptionNames, t \notin N PROVE S \subseteq Strings(V) \ Words(N)
  <2>1. Word(t) \in Strings(V) \ Words(N)
    BY <1>2, QuietStrings
  <2>2. \A v \in V : Command(v) \in Strings(V) \ Words(N)
    BY QuietStrings
  <2>3. QED
    BY <2>1, <2>2
<1>3. p \in Seq(S)
  OBVIOUS
<1> HIDE DEF S
<1>4. p \in Seq(Strings(V))
  BY <1>1, <1>3
<1>5. ASSUME NEW N \in SUBSET OptionNames, t \notin N PROVE p \in Seq(Strings(V) \ Words(N))
  BY <1>2, <1>3, <1>5
<1>6. QED
  BY <1>4, <1>5 DEF Speaks

\* Nothing speaks of nothing.
LEMMA NothingSpeaks == \A T, t : Speaks(T, <<>>, t)
BY DEF Speaks

\* An option with its value, or none.
LEMMA GivenSpeaks ==
    ASSUME NEW V, AllSayable(V), NEW t \in Stored, NEW v, v = None \/ v \in V
    PROVE  Speaks(Strings(V), Given(t, v), t)
<1>1. CASE v = None
  BY <1>1, NothingSpeaks DEF Given
<1>2. CASE v # None
  <2>1. PICK p : p = <<Word(t), Command(v)>>
    OBVIOUS
  <2>2. p \in Seq({Word(t)} \cup {Command(u) : u \in V})
    BY <1>2, <2>1
  <2>3. Speaks(Strings(V), p, t)
    BY <2>2, PartSpeaks
  <2>4. QED
    BY <1>2, <2>1, <2>3 DEF Given
<1>3. QED
  BY <1>1, <1>2

\* A switch, or none.
LEMMA SwitchSpeaks ==
    ASSUME NEW V, AllSayable(V), NEW t \in Stored, NEW on
    PROVE  Speaks(Strings(V), Switch(t, on), t) /\ Speaks(Strings(V), <<Word(t)>>, t)
<1>1. PICK p : p = <<Word(t)>>
  OBVIOUS
<1>2. p \in Seq({Word(t)} \cup {Command(u) : u \in V})
  BY <1>1
<1>3. Speaks(Strings(V), p, t)
  BY <1>2, PartSpeaks
<1>4. QED
  BY <1>1, <1>3, NothingSpeaks DEF Switch

\* The jump hosts.
LEMMA JumpsSpeak ==
    ASSUME NEW V, AllSayable(V), NEW o, o.jump \in Seq(V)
    PROVE  Speaks(Strings(V), JumpArgs(o), "-J")
<1>1. PICK jump, n, x : jump = o.jump /\ n = Len(jump) /\ x = JumpArgs(o)
  OBVIOUS
<1>2. n \in Nat /\ jump \in [1..n -> V]
  BY <1>1, LenProperties
<1>3. PICK J : J = {Word("-J")} \cup {Command(v) : v \in V}
  OBVIOUS
<1>4. x = [i \in 1..2 * n |-> IF i % 2 = 1 THEN Word("-J") ELSE Command(jump[i \div 2])]
  BY <1>1 DEF JumpArgs
<1>5. x \in Seq(J)
  <2>1. ASSUME NEW i \in 1..2 * n
        PROVE  (IF i % 2 = 1 THEN Word("-J") ELSE Command(jump[i \div 2])) \in J
    <3>1. i % 2 # 1 => i \div 2 \in 1..n
      BY <1>2
    <3>2. i % 2 # 1 => jump[i \div 2] \in V
      BY <1>2, <3>1
    <3>3. QED
      BY <1>3, <3>2
  <2>2. PICK m \in Nat : m = 2 * n
    BY <1>2
  <2>3. x \in [1..m -> J]
    BY <1>4, <2>1, <2>2
  <2>4. QED
    BY ONLY m \in Nat, <2>3
<1>6. "-J" \in Stored
  BY DEF Stored
<1>7. QED
  BY <1>1, <1>3, <1>5, <1>6, PartSpeaks

----------------------------------------------------------------------------
(* Six parts in a row                                                      *)

Row(p) == p[1] \o p[2] \o p[3] \o p[4] \o p[5] \o p[6]

\* The parts p of strings of T speak of the options t, one each.
AllSpeak(T, p, t) == \A j \in 1..6 : Speaks(T, p[j], t[j])

\* The names are of none of the options, or of the i-th only.
Others(t, N, i) == N \in SUBSET OptionNames /\ \A j \in 1..6 : j # i => t[j] \notin N

\* A row of parts that do not speak of the names does not.
LEMMA QuietRow ==
    ASSUME NEW T, NEW p, NEW t, AllSpeak(T, p, t), NEW N, Others(t, N, 0)
    PROVE  Row(p) \in Seq(T \ Words(N))
<1>1. \A j \in 1..6 : p[j] \in Seq(T \ Words(N))
  <2>1. N \in SUBSET OptionNames /\ \A j \in 1..6 : j # 0 /\ t[j] \notin N
    BY DEF Others
  <2>2. QED
    BY <2>1 DEF AllSpeak, Speaks
<1>2. PICK W : W = Seq(T \ Words(N))
  OBVIOUS
<1>3. \A a, b \in W : a \o b \in W
  BY <1>2
<1>4. p[1] \in W /\ p[2] \in W /\ p[3] \in W /\ p[4] \in W /\ p[5] \in W /\ p[6] \in W
  BY <1>1, <1>2
<1>5. Row(p) \in W
  BY <1>3, <1>4 DEF Row
<1>6. QED
  BY <1>2, <1>5

\* One of the parts is alone with its option.
LEMMA OneOfRow ==
    ASSUME NEW T, NEW p, NEW t, AllSpeak(T, p, t), NEW N, NEW i \in 1..6, Others(t, N, i)
    PROVE  Around(Row(p), T, N, p[i])
<1> DEFINE x == p[i]
           W == Seq(T \ Words(N))
           Grown(q, k) == IF i <= k THEN Around(q, T, N, x) ELSE q \in W
<1>1. \A j \in 1..6 : p[j] \in Seq(T) /\ (j # i => p[j] \in W)
  BY DEF AllSpeak, Speaks, Others
<1>2. /\ Around(x, T, N, x)
      /\ \A s, u : Around(s, T, N, x) /\ u \in W => Around(s \o u, T, N, x) /\ Around(u \o s, T, N, x)
  BY <1>1, AroundGrows
<1>3. \A s, u \in W : s \o u \in W
  OBVIOUS
<1> HIDE DEF x, W
<1>4. Grown(p[1], 1)
  <2>1. i <= 1 => x = p[1]
    BY DEF x
  <2>2. ~(i <= 1) => p[1] \in W
    BY <1>1
  <2>3. QED
    BY <1>2, <2>1, <2>2
<1>5. ASSUME NEW k \in 1..5, NEW q, Grown(q, k) PROVE Grown(q \o p[k + 1], k + 1)
  <2>1. k + 1 \in 1..6
    OBVIOUS
  <2>2. CASE i <= k
    <3>1. p[k + 1] \in W /\ i <= k + 1
      BY <1>1, <2>1, <2>2
    <3>2. QED
      BY <1>2, <1>5, <2>2, <3>1
  <2>3. CASE i = k + 1
    <3>1. q \in W /\ p[k + 1] = x
      BY <1>5, <2>3 DEF x
    <3>2. Around(q \o p[k + 1], T, N, x)
      BY <1>2, <3>1
    <3>3. QED
      BY <2>3, <3>2
  <2>4. CASE i > k + 1
    <3>1. q \in W /\ p[k + 1] \in W
      BY <1>1, <1>5, <2>1, <2>4
    <3>2. q \o p[k + 1] \in W
      BY <1>3, <3>1
    <3>3. QED
      BY <2>4, <3>2
  <2>5. QED
    BY <2>2, <2>3, <2>4
<1> HIDE DEF Grown
<1>6. \A k \in 1..5 : \A q : Grown(q, k) => Grown(q \o p[k + 1], k + 1)
  BY <1>5
<1>7. PICK q2, q3, q4, q5, q6 : /\ q2 = p[1] \o p[2] /\ q3 = q2 \o p[3] /\ q4 = q3 \o p[4]
                                /\ q5 = q4 \o p[5] /\ q6 = q5 \o p[6]
  OBVIOUS
<1>8. Grown(q2, 2)
  BY <1>4, <1>6, <1>7
<1>9. Grown(q3, 3)
  BY <1>6, <1>7, <1>8
<1>10. Grown(q4, 4)
  BY <1>6, <1>7, <1>9
<1>11. Grown(q5, 5)
  BY <1>6, <1>7, <1>10
<1>12. Grown(q6, 6)
  BY <1>6, <1>7, <1>11
<1>13. Around(q6, T, N, x)
  BY <1>12 DEF Grown
<1>14. q6 = Row(p)
  BY <1>7 DEF Row
<1>15. QED
  BY <1>13, <1>14 DEF x

----------------------------------------------------------------------------
(* The options behind a stored command line                                *)

MainParts(o) ==
    <<Given("-t", o.target), JumpArgs(o), Given("-i", o.key), Given("-pc", o.pre),
      Changed("-k", o, "kernel"), Switch("--no-remote-files", o.noFiles)>>
MainOptions == <<"-t", "-J", "-i", "-pc", "-k", "--no-remote-files">>

SyncParts(o) ==
    <<<<Word("-s")>>, Switch("--no-recursive", o.flat), Switch("--bi-directional", o.both),
      Changed("--local-folder", o, "local"), Changed("--remote-folder", o, "remote"), <<>>>>
SyncOptions == <<"-s", "--no-recursive", "--bi-directional", "--local-folder", "--remote-folder", "">>

SyncPart(o) == IF o.sync THEN SyncArgs(o) ELSE <<>>

\* The arguments that start and sync get.
Body(o) == Row(MainParts(o)) \o SyncPart(o)

\* The values of the options are in V.
SaidWith(V, o) ==
    /\ AllSayable(V)
    /\ \A n \in {"target", "key", "pre"} : o[n] = None \/ o[n] \in V
    /\ \A n \in {"kernel", "local", "remote"} : o[n] \in V
    /\ o.jump \in Seq(V)
    /\ \A n \in {"noFiles", "sync", "flat", "both"} : o[n] \in BOOLEAN

\* Options that can be given have their values.
LEMMA OptionsAreSaid ==
    ASSUME NEW o, Sayable(o)
    PROVE  \E V : SaidWith(V, o)
<1>1. PICK J, n : J = o.jump /\ n = Len(J)
  OBVIOUS
<1>2. PICK V : V = {v \in {o[m] : m \in {"target", "key", "pre", "kernel", "local", "remote"}}
                          \cup {J[i] : i \in DOMAIN J} : CanSay(v)}
  OBVIOUS
<1>3. J \in Seq({J[i] : i \in DOMAIN J}) /\ \A i \in DOMAIN J : CanSay(J[i])
  BY <1>1 DEF Sayable
<1>4. J \in Seq(V)
  <2>1. n \in Nat /\ DOMAIN J = 1..n /\ J = [i \in 1..n |-> J[i]]
    BY <1>1, <1>3
  <2>2. \A i \in 1..n : J[i] \in V
    BY <1>2, <1>3, <2>1
  <2>3. QED
    BY <2>1, <2>2
<1>5. AllSayable(V)
  BY <1>2 DEF AllSayable
<1>6. \A m \in {"target", "key", "pre"} : o[m] = None \/ o[m] \in V
  BY <1>2 DEF Sayable
<1>7. \A m \in {"kernel", "local", "remote"} : o[m] \in V
  BY <1>2 DEF Sayable
<1>8. \A m \in {"noFiles", "sync", "flat", "both"} : o[m] \in BOOLEAN
  BY DEF Sayable
<1>9. SaidWith(V, o)
  BY <1>1, <1>4, <1>5, <1>6, <1>7, <1>8 DEF SaidWith
<1>10. QED
  BY <1>9

\* What is given for a value that may be the default.
Stated(o, n) == IF o[n] = Default[n] THEN None ELSE o[n]

\* An option that is left out with its default value.
LEMMA ChangedIsGiven ==
    ASSUME NEW t, NEW o, NEW n
    PROVE  Changed(t, o, n) = Given(t, Stated(o, n))
BY DEF Changed, Given, Stated

\* Each part speaks of its option.
LEMMA PartsSpeak ==
    ASSUME NEW V, NEW o, SaidWith(V, o)
    PROVE  /\ AllSpeak(Strings(V), MainParts(o), MainOptions)
           /\ AllSpeak(Strings(V), SyncParts(o), SyncOptions)
<1>1. PICK T : T = Strings(V)
  OBVIOUS
<1>2. AllSayable(V) /\ o.jump \in Seq(V)
  BY DEF SaidWith
<1>3. \A t \in {"-t", "-i", "-pc", "-k", "--no-remote-files", "-s", "--no-recursive", "--bi-directional",
                "--local-folder", "--remote-folder"} : t \in Stored
  BY DEF Stored
<1>4. \A t \in Stored : \A v : v = None \/ v \in V => Speaks(T, Given(t, v), t)
  BY <1>1, <1>2, GivenSpeaks
<1>5. \A t \in Stored : \A on : Speaks(T, Switch(t, on), t) /\ Speaks(T, <<Word(t)>>, t)
  BY <1>1, <1>2, SwitchSpeaks
<1>6. ASSUME NEW t \in Stored, NEW n \in {"kernel", "local", "remote"} PROVE Speaks(T, Changed(t, o, n), t)
  <2>1. Stated(o, n) = None \/ Stated(o, n) \in V
    BY DEF SaidWith, Stated
  <2>2. QED
    BY <1>4, <2>1, ChangedIsGiven
<1>7. /\ Speaks(T, Given("-t", o.target), "-t") /\ Speaks(T, Given("-i", o.key), "-i")
      /\ Speaks(T, Given("-pc", o.pre), "-pc")
  <2>1. \A n \in {"target", "key", "pre"} : o[n] = None \/ o[n] \in V
    BY DEF SaidWith
  <2>2. QED
    BY <1>3, <1>4, <2>1
<1>8. Speaks(T, JumpArgs(o), "-J")
  BY <1>1, <1>2, JumpsSpeak
<1>9. /\ Speaks(T, Changed("-k", o, "kernel"), "-k")
      /\ Speaks(T, Changed("--local-folder", o, "local"), "--local-folder")
      /\ Speaks(T, Changed("--remote-folder", o, "remote"), "--remote-folder")
  BY <1>3, <1>6
<1>10. /\ Speaks(T, Switch("--no-remote-files", o.noFiles), "--no-remote-files")
       /\ Speaks(T, <<Word("-s")>>, "-s")
       /\ Speaks(T, Switch("--no-recursive", o.flat), "--no-recursive")
       /\ Speaks(T, Switch("--bi-directional", o.both), "--bi-directional")
  BY <1>3, <1>5
<1>11. AllSpeak(T, MainParts(o), MainOptions)
  <2>1. /\ Speaks(T, MainParts(o)[1], MainOptions[1]) /\ Speaks(T, MainParts(o)[2], MainOptions[2])
        /\ Speaks(T, MainParts(o)[3], MainOptions[3]) /\ Speaks(T, MainParts(o)[4], MainOptions[4])
        /\ Speaks(T, MainParts(o)[5], MainOptions[5]) /\ Speaks(T, MainParts(o)[6], MainOptions[6])
    BY <1>7, <1>8, <1>9, <1>10 DEF MainParts, MainOptions
  <2>2. \A j \in 1..6 : j = 1 \/ j = 2 \/ j = 3 \/ j = 4 \/ j = 5 \/ j = 6
    OBVIOUS
  <2>3. QED
    BY <2>1, <2>2 DEF AllSpeak
<1>12. AllSpeak(T, SyncParts(o), SyncOptions)
  <2>1. /\ Speaks(T, SyncParts(o)[1], SyncOptions[1]) /\ Speaks(T, SyncParts(o)[2], SyncOptions[2])
        /\ Speaks(T, SyncParts(o)[3], SyncOptions[3]) /\ Speaks(T, SyncParts(o)[4], SyncOptions[4])
        /\ Speaks(T, SyncParts(o)[5], SyncOptions[5]) /\ Speaks(T, SyncParts(o)[6], SyncOptions[6])
    BY <1>9, <1>10, NothingSpeaks DEF SyncParts, SyncOptions
  <2>2. \A j \in 1..6 : j = 1 \/ j = 2 \/ j = 3 \/ j = 4 \/ j = 5 \/ j = 6
    OBVIOUS
  <2>3. QED
    BY <2>1, <2>2 DEF AllSpeak
<1>13. QED
  BY <1>1, <1>11, <1>12

\* The names of an option are of one of the parts.
LEMMA NamesOfParts ==
    /\ Others(MainOptions, Spellings["target"], 1) /\ Others(SyncOptions, Spellings["target"], 0)
    /\ Others(MainOptions, {"-J"}, 2) /\ Others(SyncOptions, {"-J"}, 0)
    /\ Others(MainOptions, Spellings["key"], 3) /\ Others(SyncOptions, Spellings["key"], 0)
    /\ Others(MainOptions, Spellings["pre"], 4) /\ Others(SyncOptions, Spellings["pre"], 0)
    /\ Others(MainOptions, Spellings["kernel"], 5) /\ Others(SyncOptions, Spellings["kernel"], 0)
    /\ Others(MainOptions, Switches["noFiles"], 6) /\ Others(SyncOptions, Switches["noFiles"], 0)
    /\ Others(MainOptions, Switches["sync"], 0) /\ Others(SyncOptions, Switches["sync"], 1)
    /\ Others(MainOptions, Switches["flat"], 0) /\ Others(SyncOptions, Switches["flat"], 2)
    /\ Others(MainOptions, Switches["both"], 0) /\ Others(SyncOptions, Switches["both"], 3)
    /\ Others(MainOptions, Spellings["local"], 0) /\ Others(SyncOptions, Spellings["local"], 4)
    /\ Others(MainOptions, Spellings["remote"], 0) /\ Others(SyncOptions, Spellings["remote"], 5)
    /\ Others(MainOptions, {"-f"}, 0) /\ Others(SyncOptions, {"-f"}, 0)
<1>1. /\ \A n \in DOMAIN Spellings : Spellings[n] \in SUBSET OptionNames
      /\ \A n \in DOMAIN Switches : Switches[n] \in SUBSET OptionNames
  BY DEF OptionNames
<1>2. {"-J"} \in SUBSET OptionNames /\ {"-f"} \in SUBSET OptionNames
  <2>1. "-J" \in Spellings["jump"] /\ "-f" \in Spellings["file"]
        /\ "jump" \in DOMAIN Spellings /\ "file" \in DOMAIN Spellings
    BY DEF Spellings
  <2>2. QED
    BY <1>1, <2>1
<1>3. Others(MainOptions, Spellings["target"], 1) /\ Others(SyncOptions, Spellings["target"], 0)
  <2>1. Spellings["target"] \in SUBSET OptionNames
    <3>1. "target" \in DOMAIN Spellings
      BY DEF Spellings
    <3>2. QED
      BY <1>1, <3>1
  <2>2. QED
    BY <2>1 DEF Others, MainOptions, SyncOptions, Spellings
<1>4. Others(MainOptions, {"-J"}, 2) /\ Others(SyncOptions, {"-J"}, 0)
  BY <1>2 DEF Others, MainOptions, SyncOptions
<1>5. Others(MainOptions, Spellings["key"], 3) /\ Others(SyncOptions, Spellings["key"], 0)
  <2>1. Spellings["key"] \in SUBSET OptionNames
    <3>1. "key" \in DOMAIN Spellings
      BY DEF Spellings
    <3>2. QED
      BY <1>1, <3>1
  <2>2. QED
    BY <2>1 DEF Others, MainOptions, SyncOptions, Spellings
<1>6. Others(MainOptions, Spellings["pre"], 4) /\ Others(SyncOptions, Spellings["pre"], 0)
  <2>1. Spellings["pre"] \in SUBSET OptionNames
    <3>1. "pre" \in DOMAIN Spellings
      BY DEF Spellings
    <3>2. QED
      BY <1>1, <3>1
  <2>2. QED
    BY <2>1 DEF Others, MainOptions, SyncOptions, Spellings
<1>7. Others(MainOptions, Spellings["kernel"], 5) /\ Others(SyncOptions, Spellings["kernel"], 0)
  <2>1. Spellings["kernel"] \in SUBSET OptionNames
    <3>1. "kernel" \in DOMAIN Spellings
      BY DEF Spellings
    <3>2. QED
      BY <1>1, <3>1
  <2>2. QED
    BY <2>1 DEF Others, MainOptions, SyncOptions, Spellings
<1>8. Others(MainOptions, Switches["noFiles"], 6) /\ Others(SyncOptions, Switches["noFiles"], 0)
  <2>1. Switches["noFiles"] \in SUBSET OptionNames
    <3>1. "noFiles" \in DOMAIN Switches
      BY DEF Switches
    <3>2. QED
      BY <1>1, <3>1
  <2>2. QED
    BY <2>1 DEF Others, MainOptions, SyncOptions, Switches
<1>9. Others(MainOptions, Switches["sync"], 0) /\ Others(SyncOptions, Switches["sync"], 1)
  <2>1. Switches["sync"] \in SUBSET OptionNames
    <3>1. "sync" \in DOMAIN Switches
      BY DEF Switches
    <3>2. QED
      BY <1>1, <3>1
  <2>2. QED
    BY <2>1 DEF Others, MainOptions, SyncOptions, Switches
<1>10. Others(MainOptions, Switches["flat"], 0) /\ Others(SyncOptions, Switches["flat"], 2)
  <2>1. Switches["flat"] \in SUBSET OptionNames
    <3>1. "flat" \in DOMAIN Switches
      BY DEF Switches
    <3>2. QED
      BY <1>1, <3>1
  <2>2. QED
    BY <2>1 DEF Others, MainOptions, SyncOptions, Switches
<1>11. Others(MainOptions, Switches["both"], 0) /\ Others(SyncOptions, Switches["both"], 3)
  <2>1. Switches["both"] \in SUBSET OptionNames
    <3>1. "both" \in DOMAIN Switches
      BY DEF Switches
    <3>2. QED
      BY <1>1, <3>1
  <2>2. QED
    BY <2>1 DEF Others, MainOptions, SyncOptions, Switches
<1>12. Others(MainOptions, Spellings["local"], 0) /\ Others(SyncOptions, Spellings["local"], 4)
  <2>1. Spellings["local"] \in SUBSET OptionNames
    <3>1. "local" \in DOMAIN Spellings
      BY DEF Spellings
    <3>2. QED
      BY <1>1, <3>1
  <2>2. QED
    BY <2>1 DEF Others, MainOptions, SyncOptions, Spellings
<1>13. Others(MainOptions, Spellings["remote"], 0) /\ Others(SyncOptions, Spellings["remote"], 5)
  <2>1. Spellings["remote"] \in SUBSET OptionNames
    <3>1. "remote" \in DOMAIN Spellings
      BY DEF Spellings
    <3>2. QED
      BY <1>1, <3>1
  <2>2. QED
    BY <2>1 DEF Others, MainOptions, SyncOptions, Spellings
<1>14. Others(MainOptions, {"-f"}, 0) /\ Others(SyncOptions, {"-f"}, 0)
  BY <1>2 DEF Others, MainOptions, SyncOptions
<1>15. QED
  BY <1>3, <1>4, <1>5, <1>6, <1>7, <1>8, <1>9, <1>10, <1>11, <1>12, <1>13, <1>14

\* The arguments of the synchronisation are such a row.
LEMMA SyncIsRow ==
    ASSUME NEW V, NEW o, SaidWith(V, o), o.sync
    PROVE  SyncPart(o) = Row(SyncParts(o))
<1>1. PICK T : T = Strings(V)
  OBVIOUS
<1>2. AllSpeak(T, SyncParts(o), SyncOptions)
  BY <1>1, PartsSpeak
<1>3. PICK p : p = SyncParts(o)
  OBVIOUS
<1>4. p[1] \in Seq(T) /\ p[2] \in Seq(T) /\ p[3] \in Seq(T) /\ p[4] \in Seq(T) /\ p[5] \in Seq(T)
      /\ p[6] = <<>>
  <2>1. \A j \in 1..6 : p[j] \in Seq(T)
    BY <1>2, <1>3 DEF AllSpeak, Speaks
  <2>2. p[6] = <<>>
    BY <1>3 DEF SyncParts
  <2>3. QED
    BY <2>1, <2>2
<1>5. PICK s : s = p[1] \o p[2] \o p[3] \o p[4] \o p[5]
  OBVIOUS
<1>6. s \in Seq(T)
  BY <1>4, <1>5
<1>7. s = SyncArgs(o)
  BY <1>3, <1>5 DEF SyncParts, SyncArgs
<1>8. s \o <<>> = s
  BY <1>6, ConcatEmptySeq
<1>9. QED
  BY <1>3, <1>4, <1>5, <1>7, <1>8 DEF Row, SyncPart

\* No option but its own is spoken of in it.
LEMMA SyncIsQuiet ==
    ASSUME NEW V, NEW o, SaidWith(V, o), NEW N, Others(SyncOptions, N, 0)
    PROVE  SyncPart(o) \in Seq(Strings(V) \ Words(N))
<1>1. CASE o.sync
  <2>1. AllSpeak(Strings(V), SyncParts(o), SyncOptions)
    BY PartsSpeak
  <2>2. Row(SyncParts(o)) \in Seq(Strings(V) \ Words(N))
    BY <2>1, QuietRow
  <2>3. SyncPart(o) = Row(SyncParts(o))
    BY <1>1, SyncIsRow
  <2>4. QED
    BY <2>2, <2>3
<1>2. CASE ~o.sync
  BY <1>2 DEF SyncPart
<1>3. QED
  BY <1>1, <1>2

\* The part of one option in the arguments of start and sync.
LEMMA PartInBody ==
    ASSUME NEW V, NEW o, SaidWith(V, o), NEW N, NEW i \in 1..6,
           Others(MainOptions, N, i), Others(SyncOptions, N, 0)
    PROVE  Around(Body(o), Strings(V), N, MainParts(o)[i])
<1>1. PICK T, a, b, x : T = Strings(V) /\ a = Row(MainParts(o)) /\ b = SyncPart(o) /\ x = MainParts(o)[i]
  OBVIOUS
<1>2. Around(a, T, N, x) /\ x \in Seq(T)
  <2>1. AllSpeak(T, MainParts(o), MainOptions)
    BY <1>1, PartsSpeak
  <2>2. Around(Row(MainParts(o)), T, N, MainParts(o)[i])
    BY <2>1, OneOfRow
  <2>3. x \in Seq(T)
    BY <1>1, <2>1 DEF AllSpeak, Speaks
  <2>4. QED
    BY <1>1, <2>2, <2>3
<1>3. b \in Seq(T \ Words(N))
  BY <1>1, SyncIsQuiet
<1>4. Around(a \o b, T, N, x)
  BY <1>2, <1>3, AroundGrows
<1>5. QED
  BY <1>1, <1>4 DEF Body

\* The part of one option of the synchronisation.
LEMMA PartInSync ==
    ASSUME NEW V, NEW o, SaidWith(V, o), o.sync, NEW N, NEW i \in 1..6,
           Others(MainOptions, N, 0), Others(SyncOptions, N, i)
    PROVE  Around(Body(o), Strings(V), N, SyncParts(o)[i])
<1>1. PICK T, a, b, x : T = Strings(V) /\ a = Row(MainParts(o)) /\ b = SyncPart(o) /\ x = SyncParts(o)[i]
  OBVIOUS
<1>2. AllSpeak(T, MainParts(o), MainOptions) /\ AllSpeak(T, SyncParts(o), SyncOptions)
  BY <1>1, PartsSpeak
<1>3. Around(b, T, N, x) /\ x \in Seq(T)
  <2>1. Around(Row(SyncParts(o)), T, N, SyncParts(o)[i])
    BY <1>2, OneOfRow
  <2>2. x \in Seq(T)
    BY <1>1, <1>2 DEF AllSpeak, Speaks
  <2>3. b = Row(SyncParts(o))
    BY <1>1, SyncIsRow
  <2>4. QED
    BY <1>1, <2>1, <2>2, <2>3
<1>4. a \in Seq(T \ Words(N))
  BY <1>1, <1>2, QuietRow
<1>5. Around(a \o b, T, N, x)
  BY <1>3, <1>4, AroundGrows
<1>6. QED
  BY <1>1, <1>5 DEF Body

\* What Parse() reads of the options that count.
LEMMA ParsedFields ==
    ASSUME NEW args
    PROVE  /\ \A n \in {"target", "key", "pre", "kernel", "local", "remote"} : Parse(args)[n] = ValueOf(args, n)
           /\ Parse(args).jump = ValuesOf(args, "jump")
           /\ \A n \in {"noFiles", "sync", "flat", "both"} : Parse(args)[n] = (Places(args, Switches[n]) # {})
BY DEF Parse, Spellings, Switches

\* A value is read as it was given, or is the default.
LEMMA ValuesRead ==
    ASSUME NEW V, NEW o, SaidWith(V, o), NEW s, NEW n \in DOMAIN Spellings, NEW t \in Spellings[n],
           NEW v, v = None \/ v \in V, Around(s, Strings(V), Spellings[n], Given(t, v))
    PROVE  IsValue(s, n, v)
<1>1. Unlike(v, Spellings[n])
  <2>1. Spellings[n] \in SUBSET OptionNames
    BY DEF OptionNames
  <2>2. AllSayable(V)
    BY DEF SaidWith
  <2>3. v \in V => Command(v) \notin Words(Spellings[n])
    BY <2>1, <2>2, ValueIsNoName
  <2>4. QED
    BY <2>3 DEF Unlike
<1>2. QED
  BY <1>1, ReadValue

\* What is stored for the options, up to Jupyter's own argument, is read as the
\* options (install.py:112-140, __init__.py:41-80).
LEMMA BodyMeans ==
    ASSUME NEW o, Sayable(o)
    PROVE  Effect(Parse(Body(o))) = Effect(o)
<1>1. PICK V : SaidWith(V, o)
  BY OptionsAreSaid
<1>2. PICK s, q : s = Body(o) /\ q = Parse(s)
  OBVIOUS
<1>3. /\ "-t" \in Spellings["target"] /\ "-i" \in Spellings["key"] /\ "-pc" \in Spellings["pre"]
      /\ "-k" \in Spellings["kernel"] /\ "--local-folder" \in Spellings["local"]
      /\ "--remote-folder" \in Spellings["remote"] /\ "--no-remote-files" \in Switches["noFiles"]
      /\ "-s" \in Switches["sync"] /\ "--no-recursive" \in Switches["flat"]
      /\ "--bi-directional" \in Switches["both"]
  BY DEF Spellings, Switches
<1>4. \A n \in {"target", "key", "pre", "kernel", "local", "remote"} : n \in DOMAIN Spellings
  BY DEF Spellings
<1>5. \A n \in {"target", "key", "pre"} : (o[n] = None \/ o[n] \in V) /\ Default[n] = None
  BY <1>1 DEF SaidWith, Default, Spellings
<1>6. \A n \in {"kernel", "local", "remote"} :
          /\ Stated(o, n) = None \/ Stated(o, n) \in V
          /\ o[n] = IF Stated(o, n) = None THEN Default[n] ELSE Stated(o, n)
  <2>1. ASSUME NEW n \in {"kernel", "local", "remote"}
        PROVE  /\ Stated(o, n) = None \/ Stated(o, n) \in V
               /\ o[n] = IF Stated(o, n) = None THEN Default[n] ELSE Stated(o, n)
    <3>1. o[n] \in V /\ o[n] # None
      BY <1>1 DEF SaidWith, AllSayable, CanSay
    <3>2. QED
      BY <3>1 DEF Stated
  <2>2. QED
    BY <2>1
<1>7. Around(s, Strings(V), Spellings["target"], Given("-t", o.target))
  <2>1. Around(Body(o), Strings(V), Spellings["target"], MainParts(o)[1])
    BY <1>1, NamesOfParts, PartInBody
  <2>2. QED
    BY <1>2, <2>1 DEF MainParts
<1>8. Around(s, Strings(V), {"-J"}, JumpArgs(o))
  <2>1. Around(Body(o), Strings(V), {"-J"}, MainParts(o)[2])
    BY <1>1, NamesOfParts, PartInBody
  <2>2. QED
    BY <1>2, <2>1 DEF MainParts
<1>9. Around(s, Strings(V), Spellings["key"], Given("-i", o.key))
  <2>1. Around(Body(o), Strings(V), Spellings["key"], MainParts(o)[3])
    BY <1>1, NamesOfParts, PartInBody
  <2>2. QED
    BY <1>2, <2>1 DEF MainParts
<1>10. Around(s, Strings(V), Spellings["pre"], Given("-pc", o.pre))
  <2>1. Around(Body(o), Strings(V), Spellings["pre"], MainParts(o)[4])
    BY <1>1, NamesOfParts, PartInBody
  <2>2. QED
    BY <1>2, <2>1 DEF MainParts
<1>11. Around(s, Strings(V), Spellings["kernel"], Given("-k", Stated(o, "kernel")))
  <2>1. Around(Body(o), Strings(V), Spellings["kernel"], MainParts(o)[5])
    BY <1>1, NamesOfParts, PartInBody
  <2>2. MainParts(o)[5] = Changed("-k", o, "kernel")
    BY DEF MainParts
  <2>3. QED
    BY <1>2, <2>1, <2>2, ChangedIsGiven
<1>12. Around(s, Strings(V), Switches["noFiles"], Switch("--no-remote-files", o.noFiles))
  <2>1. Around(Body(o), Strings(V), Switches["noFiles"], MainParts(o)[6])
    BY <1>1, NamesOfParts, PartInBody
  <2>2. QED
    BY <1>2, <2>1 DEF MainParts
<1>13. IsValue(s, "target", o.target) /\ IsValue(s, "key", o.key) /\ IsValue(s, "pre", o.pre)
       /\ IsValue(s, "kernel", Stated(o, "kernel"))
  <2>1. IsValue(s, "target", o.target)
    BY <1>1, <1>3, <1>4, <1>5, <1>7, ValuesRead
  <2>2. IsValue(s, "key", o.key)
    BY <1>1, <1>3, <1>4, <1>5, <1>9, ValuesRead
  <2>3. IsValue(s, "pre", o.pre)
    BY <1>1, <1>3, <1>4, <1>5, <1>10, ValuesRead
  <2>4. IsValue(s, "kernel", Stated(o, "kernel"))
    BY <1>1, <1>3, <1>4, <1>6, <1>11, ValuesRead
  <2>5. QED
    BY <2>1, <2>2, <2>3, <2>4
<1>14. q.target = o.target /\ q.key = o.key /\ q.pre = o.pre /\ q.kernel = o.kernel
  <2>1. /\ q.target = ValueOf(s, "target") /\ q.key = ValueOf(s, "key") /\ q.pre = ValueOf(s, "pre")
        /\ q.kernel = ValueOf(s, "kernel")
    BY <1>2, ParsedFields
  <2>2. QED
    BY <1>5, <1>6, <1>13, <2>1 DEF IsValue
<1>15. q.jump = o.jump
  <2>1. AllUnlike(V, {"-J"}) /\ o.jump \in Seq(V)
    <3>1. {"-J"} \in SUBSET OptionNames
      BY NamesOfParts DEF Others
    <3>2. QED
      BY <1>1, <3>1, ValueIsNoName DEF SaidWith, AllUnlike
  <2>2. AreJumps(s, o)
    BY <1>8, <2>1, ReadJumps
  <2>3. QED
    BY <1>2, <2>2, ParsedFields DEF AreJumps
<1>16. \A n \in {"noFiles", "sync", "flat", "both"} :
           o[n] \in BOOLEAN /\ q[n] = (Places(s, Switches[n]) # {})
  BY <1>1, <1>2, ParsedFields DEF SaidWith
<1>17. q.noFiles = o.noFiles
  <2>1. IsSwitched(s, Switches["noFiles"], o.noFiles)
    BY <1>3, <1>12, <1>16, ReadSwitch
  <2>2. QED
    BY <1>16, <2>1 DEF IsSwitched
<1>18. CASE o.sync = TRUE
  <2>1. ASSUME NEW N, NEW i \in 1..6, Others(MainOptions, N, 0), Others(SyncOptions, N, i)
        PROVE  Around(s, Strings(V), N, SyncParts(o)[i])
    BY <1>1, <1>2, <1>18, <2>1, PartInSync
  <2>2. Around(s, Strings(V), Switches["sync"], Switch("-s", TRUE))
    <3>1. Around(s, Strings(V), Switches["sync"], SyncParts(o)[1])
      BY <2>1, NamesOfParts
    <3>2. SyncParts(o)[1] = Switch("-s", TRUE)
      BY DEF SyncParts, Switch
    <3>3. QED
      BY <3>1, <3>2
  <2>3. Around(s, Strings(V), Switches["flat"], Switch("--no-recursive", o.flat))
    <3>1. Around(s, Strings(V), Switches["flat"], SyncParts(o)[2])
      BY <2>1, NamesOfParts
    <3>2. QED
      BY <3>1 DEF SyncParts
  <2>4. Around(s, Strings(V), Switches["both"], Switch("--bi-directional", o.both))
    <3>1. Around(s, Strings(V), Switches["both"], SyncParts(o)[3])
      BY <2>1, NamesOfParts
    <3>2. QED
      BY <3>1 DEF SyncParts
  <2>5. Around(s, Strings(V), Spellings["local"], Given("--local-folder", Stated(o, "local")))
    <3>1. Around(s, Strings(V), Spellings["local"], SyncParts(o)[4])
      BY <2>1, NamesOfParts
    <3>2. SyncParts(o)[4] = Changed("--local-folder", o, "local")
      BY DEF SyncParts
    <3>3. QED
      BY <3>1, <3>2, ChangedIsGiven
  <2>6. Around(s, Strings(V), Spellings["remote"], Given("--remote-folder", Stated(o, "remote")))
    <3>1. Around(s, Strings(V), Spellings["remote"], SyncParts(o)[5])
      BY <2>1, NamesOfParts
    <3>2. SyncParts(o)[5] = Changed("--remote-folder", o, "remote")
      BY DEF SyncParts
    <3>3. QED
      BY <3>1, <3>2, ChangedIsGiven
  <2>7. IsSwitched(s, Switches["sync"], TRUE) /\ IsSwitched(s, Switches["flat"], o.flat)
        /\ IsSwitched(s, Switches["both"], o.both)
    <3>1. IsSwitched(s, Switches["sync"], TRUE)
      BY <1>3, <2>2, ReadSwitch
    <3>2. IsSwitched(s, Switches["flat"], o.flat)
      BY <1>3, <1>16, <2>3, ReadSwitch
    <3>3. IsSwitched(s, Switches["both"], o.both)
      BY <1>3, <1>16, <2>4, ReadSwitch
    <3>4. QED
      BY <3>1, <3>2, <3>3
  <2>8. IsValue(s, "local", Stated(o, "local")) /\ IsValue(s, "remote", Stated(o, "remote"))
    <3>1. IsValue(s, "local", Stated(o, "local"))
      BY <1>1, <1>3, <1>4, <1>6, <2>5, ValuesRead
    <3>2. IsValue(s, "remote", Stated(o, "remote"))
      BY <1>1, <1>3, <1>4, <1>6, <2>6, ValuesRead
    <3>3. QED
      BY <3>1, <3>2
  <2>9. q.sync = TRUE /\ q.flat = o.flat /\ q.both = o.both
    <3>1. q.sync = (Places(s, Switches["sync"]) # {}) /\ q.flat = (Places(s, Switches["flat"]) # {})
          /\ q.both = (Places(s, Switches["both"]) # {})
      BY <1>16
    <3>2. (Places(s, Switches["sync"]) # {}) = TRUE /\ (Places(s, Switches["flat"]) # {}) = o.flat
          /\ (Places(s, Switches["both"]) # {}) = o.both
      BY <2>7 DEF IsSwitched
    <3>3. QED
      BY <3>1, <3>2
  <2>10. q.local = o.local /\ q.remote = o.remote
    <3>1. q.local = ValueOf(s, "local") /\ q.remote = ValueOf(s, "remote")
      BY <1>2, ParsedFields
    <3>2. QED
      BY <1>6, <2>8, <3>1 DEF IsValue
  <2>11. QED
    BY <1>2, <1>14, <1>15, <1>17, <1>18, <2>9, <2>10 DEF Effect
<1>19. CASE o.sync = FALSE
  <2>1. AllSpeak(Strings(V), MainParts(o), MainOptions)
    BY <1>1, PartsSpeak
  <2>2. Others(MainOptions, Switches["sync"], 0)
    BY NamesOfParts
  <2>3. PICK Q : Q = Strings(V) \ Words(Switches["sync"])
    OBVIOUS
  <2>4. Row(MainParts(o)) \in Seq(Q)
    BY <2>1, <2>2, <2>3, QuietRow
  <2>5. s \in Seq(Q)
    BY <1>2, <1>19, <2>4, ConcatEmptySeq DEF Body, SyncPart
  <2>6. Free(Q, Switches["sync"])
    BY <2>3, WithoutIsFree
  <2>7. Places(s, Switches["sync"]) = {}
    BY <2>5, <2>6, NotSaid
  <2>8. q.sync = FALSE
    BY <1>16, <2>7
  <2>9. QED
    BY <1>2, <1>14, <1>15, <1>17, <1>19, <2>8 DEF Effect
<1>20. QED
  BY <1>16, <1>18, <1>19

----------------------------------------------------------------------------
(* What start and sync get of a stored command line                        *)

\* The part in the middle of a command line.
LEMMA MiddlePart ==
    ASSUME NEW S, NEW a \in Seq(S), NEW x \in Seq(S), NEW b \in Seq(S),
           NEW s, s = a \o x \o b
    PROVE  SubSeq(s, Len(a) + 1, Len(a) + Len(x)) = x
<1>1. PICK l, m, p, q : l = Len(a) /\ m = Len(x) /\ p = l + 1 /\ q = l + m
  OBVIOUS
<1>2. /\ s \in Seq(S) /\ Len(a) \in Nat /\ Len(x) \in Nat /\ Len(b) \in Nat
      /\ Len(s) = Len(a) + Len(x) + Len(b)
      /\ \A i \in 1..Len(x) : s[Len(a) + i] = x[i]
  BY ThreeParts
<1>3. l \in Nat /\ m \in Nat
  BY <1>1, <1>2
<1>4. p \in Int /\ q \in Int /\ q - p + 1 = m /\ (p <= q <=> 1 <= m)
  BY <1>1, <1>3
<1>5. ASSUME NEW i \in p..q PROVE s[i] \in S
  <2>1. i \in 1..Len(s)
    BY <1>1, <1>2, <1>3
  <2>2. QED
    BY <1>2, <2>1, ElementOfSeq
<1>6. PICK t : t = SubSeq(s, p, q)
  OBVIOUS
<1>7. t \in Seq(S) /\ Len(t) = (IF p <= q THEN q - p + 1 ELSE 0)
      /\ \A i \in 1..q - p + 1 : t[i] = s[p + i - 1]
  BY ONLY <1>4, <1>5, <1>6, SubSeqProperties
<1>8. Len(t) = m
  BY <1>3, <1>4, <1>7
<1>9. ASSUME NEW i \in 1..m PROVE t[i] = x[i]
  <2>1. PICK j : j = p + i - 1
    OBVIOUS
  <2>2. i \in 1..q - p + 1 /\ j = l + i
    BY <1>1, <1>3, <1>4, <2>1
  <2>3. s[j] = x[i]
    BY <1>1, <1>2, <2>2
  <2>4. QED
    BY <1>7, <2>1, <2>2, <2>3
<1>10. t = x
  BY <1>1, <1>7, <1>8, <1>9, SeqEqual
<1>11. QED
  BY <1>1, <1>6, <1>10

\* Jupyter's own argument.
ConnectionPart == <<Word("-f"), Word(Connection)>>

\* The parts of a stored command line are of its strings.
LEMMA StoredParts ==
    ASSUME NEW V, NEW o, SaidWith(V, o)
    PROVE  /\ Program \in Seq(Strings(V)) /\ \A i \in 1..6 : MainParts(o)[i] \in Seq(Strings(V))
           /\ ConnectionPart \in Seq(Strings(V)) /\ SyncPart(o) \in Seq(Strings(V))
<1>1. PICK T : T = Strings(V)
  OBVIOUS
<1>2. \A t \in Stored : Word(t) \in T
  BY <1>1 DEF Strings, Words
<1>3. /\ Word("python") \in T /\ Word("-m") \in T /\ Word("remote_kernel") \in T
      /\ Word("-f") \in T /\ Word(Connection) \in T
  BY <1>2 DEF Stored
<1>4. Program \in Seq(T) /\ ConnectionPart \in Seq(T)
  BY <1>3 DEF Program, ConnectionPart
<1>5. \A i \in 1..6 : MainParts(o)[i] \in Seq(T)
  BY <1>1, PartsSpeak DEF AllSpeak, Speaks
<1>6. SyncPart(o) \in Seq(T)
  <2>1. Others(SyncOptions, {"-f"}, 0)
    BY NamesOfParts
  <2>2. SyncPart(o) \in Seq(T \ Words({"-f"}))
    BY <1>1, <2>1, SyncIsQuiet
  <2>3. \A W : SyncPart(o) \in Seq(T \ W) => SyncPart(o) \in Seq(T)
    OBVIOUS
  <2>4. QED
    BY <2>2, <2>3
<1>7. QED
  BY <1>1, <1>4, <1>5, <1>6

\* It is the program, the arguments, and Jupyter's own among them.
LEMMA StoredRow ==
    ASSUME NEW o, Sayable(o)
    PROVE  KernelArgs(o) = (Program \o Row(MainParts(o))) \o ConnectionPart \o SyncPart(o)
<1>1. PICK V : SaidWith(V, o)
  BY OptionsAreSaid
<1>2. PICK T, P, p, F, S : /\ T = Strings(V) /\ P = Program /\ p = MainParts(o)
                           /\ F = ConnectionPart /\ S = SyncPart(o)
  OBVIOUS
<1>3. /\ P \in Seq(T) /\ F \in Seq(T) /\ S \in Seq(T)
      /\ p[1] \in Seq(T) /\ p[2] \in Seq(T) /\ p[3] \in Seq(T) /\ p[4] \in Seq(T)
      /\ p[5] \in Seq(T) /\ p[6] \in Seq(T)
  BY <1>1, <1>2, StoredParts
<1>4. PICK a2, a3, a4, a5, a6 : /\ a2 = p[1] \o p[2] /\ a3 = a2 \o p[3] /\ a4 = a3 \o p[4]
                                /\ a5 = a4 \o p[5] /\ a6 = a5 \o p[6]
  OBVIOUS
<1>5. a2 \in Seq(T) /\ a3 \in Seq(T) /\ a4 \in Seq(T) /\ a5 \in Seq(T) /\ a6 \in Seq(T)
  BY <1>3, <1>4, ConcatProperties
<1>0. \A a, b, c \in Seq(T) : Regrouped(a, b, c)
  BY InSeqRegrouped
<1>6. a6 = Row(MainParts(o))
  BY <1>2, <1>4 DEF Row
<1>7. Opening(o) = P \o a3
  <2>1. Opening(o) = ((P \o p[1]) \o p[2]) \o p[3]
    <3>1. p[1] = Given("-t", o.target) /\ p[2] = JumpArgs(o) /\ p[3] = Given("-i", o.key)
      BY <1>2 DEF MainParts
    <3>2. QED
      BY <1>2, <3>1 DEF Opening
  <2>2. (P \o p[1]) \o p[2] = P \o a2
    <3>1. Regrouped(P, p[1], p[2])
      BY <1>0, <1>3
    <3>2. QED
      BY <1>4, <3>1 DEF Regrouped
  <2>3. (P \o a2) \o p[3] = P \o a3
    <3>1. Regrouped(P, a2, p[3])
      BY <1>0, <1>3, <1>5
    <3>2. QED
      BY <1>4, <3>1 DEF Regrouped
  <2>4. QED
    BY <2>1, <2>2, <2>3
<1>8. (Opening(o) \o p[4]) \o p[5] = P \o a5
  <2>1. (P \o a3) \o p[4] = P \o a4
    <3>1. Regrouped(P, a3, p[4])
      BY <1>0, <1>3, <1>5
    <3>2. QED
      BY <1>4, <3>1 DEF Regrouped
  <2>2. (P \o a4) \o p[5] = P \o a5
    <3>1. Regrouped(P, a4, p[5])
      BY <1>0, <1>3, <1>5
    <3>2. QED
      BY <1>4, <3>1 DEF Regrouped
  <2>3. QED
    BY <1>7, <2>1, <2>2
<1>9. KernelArgs(o) = (P \o a5) \o ((p[6] \o F) \o S)
  <2>1. KernelArgs(o) = ((Opening(o) \o p[4]) \o p[5]) \o Closing(o)
    BY <1>2 DEF KernelArgs, MainParts
  <2>2. Closing(o) = (p[6] \o F) \o S
    BY <1>2 DEF Closing, MainParts, ConnectionPart, SyncPart
  <2>3. QED
    BY <1>8, <2>1, <2>2
<1>10. PICK h, k : h = P \o a5 /\ k = p[6] \o F
  OBVIOUS
<1>11. h \in Seq(T) /\ k \in Seq(T)
  BY <1>3, <1>5, <1>10, ConcatProperties
<1>12. h \o (k \o S) = (h \o k) \o S
  <2>1. Regrouped(h, k, S)
    BY <1>0, <1>3, <1>11
  <2>2. QED
    BY <2>1 DEF Regrouped
<1>13. h \o k = (h \o p[6]) \o F
  <2>1. Regrouped(h, p[6], F)
    BY <1>0, <1>3, <1>11
  <2>2. QED
    BY <1>10, <2>1 DEF Regrouped
<1>14. h \o p[6] = P \o a6
  <2>1. Regrouped(P, a5, p[6])
    BY <1>0, <1>3, <1>5
  <2>2. QED
    BY <1>4, <1>10, <2>1 DEF Regrouped
<1>15. QED
  BY <1>2, <1>6, <1>9, <1>10, <1>12, <1>13, <1>14

\* The only number is the first one.
LEMMA FirstOfOne == \A i \in Nat : First({i}) = i
<1>1. ASSUME NEW i \in Nat PROVE First({i}) = i
  <2>1. \A j \in {i} : j <= j
    OBVIOUS
  <2>2. QED
    BY <2>1 DEF First
<1>2. QED
  BY <1>1

\* What is started is what was installed (__init__.py:115-127).
LEMMA StartOfInstalled ==
    ASSUME NEW o, Sayable(o)
    PROVE  StartArgs(KernelArgs(o)) = Body(o)
<1>1. PICK V : SaidWith(V, o)
  BY OptionsAreSaid
<1>2. PICK T, P, A, F, S, N, s, w, v :
          /\ T = Strings(V) /\ P = Program /\ A = Row(MainParts(o)) /\ F = ConnectionPart /\ S = SyncPart(o)
          /\ N = {"-f"} /\ s = KernelArgs(o) /\ w = Word("-f") /\ v = Word(Connection)
  OBVIOUS
<1>3. P \in Seq(T) /\ F \in Seq(T) /\ S \in Seq(T)
  BY <1>1, <1>2, StoredParts
<1>4. PICK Q : Q = T \ Words(N)
  OBVIOUS
<1>5. N \in SUBSET OptionNames /\ Others(MainOptions, N, 0) /\ Others(SyncOptions, N, 0)
  BY <1>2, NamesOfParts DEF Others
<1>6. A \in Seq(Q) /\ A \in Seq(T)
  <2>1. A \in Seq(Q)
    BY <1>1, <1>2, <1>4, <1>5, PartsSpeak, QuietRow
  <2>2. Q \subseteq T
    BY <1>4
  <2>3. QED
    BY <2>1, <2>2
<1>7. S \in Seq(Q)
  BY <1>1, <1>2, <1>4, <1>5, SyncIsQuiet
<1>8. P \in Seq(Q)
  <2>1. Word("python") \in Q /\ Word("-m") \in Q /\ Word("remote_kernel") \in Q
    <3>1. \A t \in {"python", "-m", "remote_kernel"} : t \in Stored /\ t \notin N
      BY <1>2 DEF Stored
    <3>2. AllSayable(V)
      BY <1>1 DEF SaidWith
    <3>3. \A t \in {"python", "-m", "remote_kernel"} : Word(t) \in Q
      BY <1>2, <1>4, <1>5, <3>1, <3>2, QuietStrings
    <3>4. QED
      BY <3>3
  <2>2. QED
    BY <1>2, <2>1 DEF Program
<1>9. PICK a : a = P \o A
  OBVIOUS
<1>10. a \in Seq(Q) /\ a \in Seq(T)
  BY <1>3, <1>6, <1>8, <1>9, ConcatProperties
<1>11. s = a \o F \o S
  BY <1>2, <1>9, StoredRow
<1>12. OnlyAt(s, N, Len(a) + 1, w, v)
  <2>1. Free(Q, N)
    BY <1>4, WithoutIsFree
  <2>2. w \in Words(N)
    BY <1>2 DEF Words
  <2>3. v \notin Words(N)
    <3>1. Connection \notin N
      BY <1>2 DEF Connection
    <3>2. QED
      BY <1>2, <3>1, WordIsOne
  <2>4. F = <<w, v>>
    BY <1>2 DEF ConnectionPart
  <2>5. QED
    BY ONLY <1>7, <1>10, <1>11, <2>1, <2>2, <2>3, <2>4, SaidOnce
<1>13. PICK i : i = Len(a) + 1
  OBVIOUS
<1>14. Places(s, {"-f"}) = {i} /\ i \in Nat /\ s[i + 1] = Word(Connection)
  BY <1>2, <1>12, <1>13 DEF OnlyAt
<1>15. First({i}) = i
  BY <1>14, FirstOfOne
<1>16. StartArgs(s) = SubSeq(s, 4, i - 1) \o SubSeq(s, (i + 1) + 1, Len(s))
  BY <1>14, <1>15 DEF StartArgs
<1>17. SubSeq(s, (i + 1) + 1, Len(s)) = S
  <2>1. Len(a) \in Nat /\ SubSeq(s, Len(a) + Len(F) + 1, Len(s)) = S
    BY ONLY <1>3, <1>10, <1>11, ThreeParts
  <2>2. Len(F) = 2
    BY <1>2 DEF ConnectionPart
  <2>3. (i + 1) + 1 = Len(a) + Len(F) + 1
    BY <1>13, <2>1, <2>2
  <2>4. QED
    BY <2>1, <2>3
<1>18. SubSeq(s, 4, i - 1) = A
  <2>1. PICK b : b = F \o S
    OBVIOUS
  <2>2. b \in Seq(T)
    BY <1>3, <2>1, ConcatProperties
  <2>3. s = P \o A \o b
    <3>1. (a \o F) \o S = a \o (F \o S)
      <4>1. F \in Seq(T) /\ S \in Seq(T)
        BY <1>3
      <4>2. Regrouped(a, F, S)
        BY ONLY <1>10, <4>1, InSeqRegrouped
      <4>3. QED
        BY ONLY <4>2 DEF Regrouped
    <3>2. QED
      BY ONLY <1>9, <1>11, <2>1, <3>1
  <2>4. SubSeq(s, Len(P) + 1, Len(P) + Len(A)) = A
    BY ONLY <1>3, <1>6, <2>2, <2>3, MiddlePart
  <2>5. Len(P) = 3
    BY <1>2 DEF Program
  <2>6. Len(A) \in Nat /\ Len(a) = Len(P) + Len(A)
    BY <1>3, <1>6, <1>9, ConcatProperties, LenProperties
  <2>7. Len(P) + 1 = 4 /\ Len(P) + Len(A) = i - 1
    BY <1>13, <2>5, <2>6
  <2>8. QED
    BY <2>4, <2>7
<1>19. QED
  BY <1>2, <1>16, <1>17, <1>18 DEF Body

----------------------------------------------------------------------------
(* The upgrade of a stored command line                                    *)

\* None of the strings is the deprecated argument.
LEMMA StringsAreNew ==
    ASSUME NEW V, AllSayable(V)
    PROVE  /\ \A a \in Strings(V) : a.prefix = ""
           /\ Free(Strings(V), {"-c"}) /\ Free(Strings(V), {"--command"})
<1>1. \A a \in Strings(V) : a.prefix = ""
  <2>1. \A a \in Strings(V) : \E v : a = Command(v)
    BY DEF Strings, Words, Word
  <2>2. \A v : Command(v).prefix = ""
    BY DEF Command, Joined
  <2>3. QED
    BY <2>1, <2>2
<1>2. ASSUME NEW t \in {"-c", "--command"} PROVE Free(Strings(V), {t})
  <2>1. {t} \in SUBSET OptionNames
    BY DEF OptionNames
  <2>2. \A u \in Stored : u \notin {t}
    BY DEF Stored, Connection
  <2>3. \A u \in Stored : Word(u) \notin Words({t})
    BY <2>2, WordIsOne
  <2>4. \A v \in V : Command(v) \notin Words({t})
    BY <2>1, ValueIsNoName
  <2>5. \A q \in Strings(V) : (\E u \in Stored : q = Word(u)) \/ (\E v \in V : q = Command(v))
    BY DEF Strings, Words
  <2>6. QED
    BY <2>3, <2>4, <2>5 DEF Free
<1>3. QED
  BY <1>1, <1>2

\* What stands before the commands, and behind them, is of the strings.
LEMMA EndsOfStored ==
    ASSUME NEW V, NEW o, SaidWith(V, o)
    PROVE  /\ Opening(o) \in Seq(Strings(V)) /\ Closing(o) \in Seq(Strings(V))
           /\ Given("-pc", o.pre) \in Seq(Strings(V)) /\ Changed("-k", o, "kernel") \in Seq(Strings(V))
<1>1. PICK T, p : T = Strings(V) /\ p = MainParts(o)
  OBVIOUS
<1>2. /\ Program \in Seq(T) /\ ConnectionPart \in Seq(T) /\ SyncPart(o) \in Seq(T)
      /\ p[1] \in Seq(T) /\ p[2] \in Seq(T) /\ p[3] \in Seq(T) /\ p[4] \in Seq(T)
      /\ p[5] \in Seq(T) /\ p[6] \in Seq(T)
  BY <1>1, StoredParts
<1>3. \A a, b \in Seq(T) : a \o b \in Seq(T)
  OBVIOUS
<1>4. /\ p[1] = Given("-t", o.target) /\ p[2] = JumpArgs(o) /\ p[3] = Given("-i", o.key)
      /\ p[4] = Given("-pc", o.pre) /\ p[5] = Changed("-k", o, "kernel")
      /\ p[6] = Switch("--no-remote-files", o.noFiles)
  BY <1>1 DEF MainParts
<1>5. Opening(o) \in Seq(T)
  BY <1>2, <1>3, <1>4 DEF Opening
<1>6. Closing(o) \in Seq(T)
  BY <1>2, <1>3, <1>4 DEF Closing, ConnectionPart, SyncPart
<1>7. QED
  BY <1>1, <1>2, <1>4, <1>5, <1>6

\* What is installed is up to date.
LEMMA StoredIsUpToDate ==
    ASSUME NEW o, Sayable(o)
    PROVE  Deprecated(KernelArgs(o)) = 0 /\ Upgraded(KernelArgs(o)) = KernelArgs(o)
<1>1. PICK V : SaidWith(V, o)
  BY OptionsAreSaid
<1>2. PICK T, s : T = Strings(V) /\ s = KernelArgs(o)
  OBVIOUS
<1>3. s \in Seq(T)
  <2>1. \A a, b \in Seq(T) : a \o b \in Seq(T)
    OBVIOUS
  <2>2. QED
    BY <1>1, <1>2, <2>1, EndsOfStored DEF KernelArgs
<1>4. (\A a \in T : a.prefix = "") /\ Free(T, {"-c"}) /\ Free(T, {"--command"})
  BY <1>1, <1>2, StringsAreNew DEF SaidWith
<1>5. Places(s, {"--command"}) = {} /\ Places(s, {"-c"}) = {}
  BY <1>3, <1>4, NotSaid
<1>6. {i \in DOMAIN s : s[i].prefix \in {"-c=", "--command="}} = {}
  <2>1. \A i \in DOMAIN s : s[i] \in T
    BY <1>3
  <2>2. QED
    BY <1>4, <2>1
<1>7. Deprecated(s) = 0
  BY <1>5, <1>6 DEF Deprecated
<1>8. QED
  BY <1>2, <1>7 DEF Upgraded

\* A text with more commands than the kernel's is no option.
LEMMA TextIsNoOption ==
    ASSUME NEW S, NEW pre \in Seq(S), NEW kernel \in Seq(S), Len(kernel) = 1, CanSay(kernel), NEW t \in OptionNames
    PROVE  Command(pre \o kernel) \notin Words({t})
<1>1. CASE pre = <<>>
  <2>1. pre \o kernel = kernel
    BY <1>1, ConcatEmptySeq
  <2>2. Word(t) \in Dashed
    BY DEF Dashed, OptionNames, Words
  <2>3. Command(kernel) # Word(t)
    BY <2>2 DEF CanSay
  <2>4. QED
    BY <2>1, <2>3 DEF Words
<1>2. CASE pre # <<>>
  <2>1. PICK c : c = pre \o kernel
    OBVIOUS
  <2>2. Len(pre) \in Nat /\ Len(pre) # 0
    BY <1>2
  <2>3. Len(c) = Len(pre) + 1
    <3>1. Len(pre \o kernel) = Len(pre) + Len(kernel)
      BY ONLY pre \in Seq(S), kernel \in Seq(S), ConcatProperties
    <3>2. QED
      BY <2>1, <3>1
  <2>4. Len(c) # 1
    BY <2>2, <2>3
  <2>5. Word(t).commands = <<t>> /\ Command(c).commands = c
    BY DEF Word, Command, Joined
  <2>6. Len(<<t>>) = 1
    OBVIOUS
  <2>7. Command(c) # Word(t)
    BY <2>4, <2>5, <2>6
  <2>8. QED
    BY <2>1, <2>7 DEF Words
<1>3. QED
  BY <1>1, <1>2

\* What becomes of a command line whose argument is found.
UpgradesTo(s, a, c, b) == Upgraded(s) = a \o SplitCommand(c) \o b

\* The argument in the middle is found at its first string, and its value is the last.
LEMMA FoundIsReplaced ==
    ASSUME NEW U, NEW a \in Seq(U), NEW x \in Seq(U), NEW b \in Seq(U), NEW s, s = a \o x \o b,
           NEW at, at = Len(a) + 1, Deprecated(s) = at,
           NEW value, value = Len(a) + Len(x), value = IF s[at].prefix = "" THEN at + 1 ELSE at,
           NEW c, s[value].commands = c
    PROVE  UpgradesTo(s, a, c, b)
<1>1. /\ Len(a) \in Nat /\ Len(x) \in Nat /\ Len(b) \in Nat
      /\ SubSeq(s, 1, Len(a)) = a /\ SubSeq(s, Len(a) + Len(x) + 1, Len(s)) = b
  BY ONLY a \in Seq(U), x \in Seq(U), b \in Seq(U), s = a \o x \o b, ThreeParts
<1>2. at # 0 /\ at - 1 = Len(a)
  <2>1. Len(a) \in Nat /\ at = Len(a) + 1
    BY <1>1
  <2>2. QED
    BY ONLY <2>1
<1>3. Upgraded(s) = SubSeq(s, 1, at - 1) \o SplitCommand(s[value].commands)
                    \o SubSeq(s, value + 1, Len(s))
  BY <1>2 DEF Upgraded
<1>4. QED
  BY <1>1, <1>2, <1>3 DEF UpgradesTo

\* An option of its own, with the text behind it.
LEMMA PairIsReplaced ==
    ASSUME NEW T, Free(T, {"-c"}), Free(T, {"--command"}),
           NEW a \in Seq(T), NEW b \in Seq(T), NEW c,
           Command(c) \notin Words({"-c"}), Command(c) \notin Words({"--command"}),
           NEW t \in {"-c", "--command"}, NEW x, x = <<Word(t), Command(c)>>,
           NEW s, s = a \o x \o b
    PROVE  UpgradesTo(s, a, c, b)
<1>1. PICK w, v, U, i : w = Word(t) /\ v = Command(c) /\ U = T \cup {w, v} /\ i = Len(a) + 1
  OBVIOUS
<1>2. a \in Seq(U) /\ b \in Seq(U) /\ x \in Seq(U) /\ Len(x) = 2
  BY <1>1
<1>3. OnlyAt(s, {t}, i, w, v)
  <2>1. Free(T, {t}) /\ w \in Words({t}) /\ v \notin Words({t}) /\ x = <<w, v>>
    BY <1>1 DEF Words
  <2>2. PICK N : N = {t}
    OBVIOUS
  <2>3. OnlyAt(s, N, Len(a) + 1, w, v)
    BY ONLY <2>1, <2>2, a \in Seq(T), b \in Seq(T), s = a \o x \o b, SaidOnce
  <2>4. QED
    BY <1>1, <2>2, <2>3
<1>4. i \in Nat /\ Places(s, {t}) = {i} /\ s[i] = w /\ s[i + 1] = v
  BY <1>3 DEF OnlyAt
<1>5. t = "-c" => Places(s, {"--command"}) = {}
  <2>1. ASSUME t = "-c" PROVE Free(U, {"--command"})
    <3>1. "-c" \notin {"--command"}
      OBVIOUS
    <3>2. w \notin Words({"--command"})
      BY <1>1, <2>1, <3>1, WordIsOne
    <3>3. QED
      BY <1>1, <3>2 DEF Free
  <2>2. s \in Seq(U)
    BY <1>2, ConcatProperties
  <2>3. QED
    BY <2>1, <2>2, NotSaid
<1>6. First({i}) = i
  BY <1>4, FirstOfOne
<1>7. Deprecated(s) = i
  BY <1>4, <1>5, <1>6 DEF Deprecated
<1>8. i + 1 = Len(a) + Len(x)
  <2>1. Len(a) \in Nat
    OBVIOUS
  <2>2. QED
    BY <1>1, <1>2, <2>1
<1>9. s[i].prefix = "" /\ s[i + 1].commands = c
  <2>1. Word(t).prefix = "" /\ Command(c).commands = c
    BY DEF Word, Command, Joined
  <2>2. QED
    BY <1>1, <1>4, <2>1
<1>10. PICK value : value = i + 1
  OBVIOUS
<1>11. /\ value = Len(a) + Len(x) /\ value = (IF s[i].prefix = "" THEN i + 1 ELSE i)
       /\ s[value].commands = c
  BY <1>8, <1>9, <1>10
<1>12. QED
  BY ONLY <1>1, <1>2, <1>7, <1>11, s = a \o x \o b, FoundIsReplaced

\* An option and the text in one string.
LEMMA JointIsReplaced ==
    ASSUME NEW T, \A q \in T : q.prefix = "", Free(T, {"-c"}), Free(T, {"--command"}),
           NEW a \in Seq(T), NEW b \in Seq(T), NEW c,
           NEW prefix \in {"-c=", "--command="}, NEW x, x = <<Joined(prefix, c)>>,
           NEW s, s = a \o x \o b
    PROVE  UpgradesTo(s, a, c, b)
<1>1. PICK w, U, i : w = Joined(prefix, c) /\ U = T \cup {w} /\ i = Len(a) + 1
  OBVIOUS
<1>2. a \in Seq(U) /\ b \in Seq(U) /\ x \in Seq(U) /\ Len(x) = 1 /\ x[1] = w
  <2>1. x = <<w>> /\ w \in U /\ T \subseteq U
    BY ONLY <1>1, x = <<Joined(prefix, c)>>
  <2>2. a \in Seq(U) /\ b \in Seq(U)
    BY ONLY <2>1, a \in Seq(T), b \in Seq(T)
  <2>3. x \in Seq(U) /\ Len(x) = 1 /\ x[1] = w
    BY ONLY <2>1
  <2>4. QED
    BY <2>2, <2>3
<1>3. w.prefix = prefix /\ prefix # "" /\ w.commands = c
  BY <1>1 DEF Joined
<1>4. /\ Len(a) \in Nat /\ Len(b) \in Nat /\ Len(s) = Len(a) + Len(x) + Len(b)
      /\ s \in Seq(U) /\ DOMAIN s = 1..Len(s) /\ \A j \in 1..Len(x) : s[Len(a) + j] = x[j]
  <2>1. s = a \o x \o b
    OBVIOUS
  <2>2. a \in Seq(U) /\ b \in Seq(U) /\ x \in Seq(U)
    BY <1>2
  <2>3. QED
    BY ONLY <2>1, <2>2, ThreeParts
<1>5. s[i] = w /\ i \in DOMAIN s /\ i \in Nat
  <2>1. 1 \in 1..Len(x) /\ i \in 1..Len(s)
    <3>1. i = Len(a) + 1 /\ Len(x) = 1 /\ Len(a) \in Nat /\ Len(b) \in Nat
          /\ Len(s) = Len(a) + Len(x) + Len(b)
      BY <1>1, <1>2, <1>4
    <3>2. QED
      BY ONLY <3>1
  <2>2. s[i] = x[1]
    <3>1. i = Len(a) + 1 /\ 1 \in 1..Len(x)
      BY <1>1, <2>1
    <3>2. \A j \in 1..Len(x) : s[Len(a) + j] = x[j]
      BY <1>4
    <3>3. QED
      BY ONLY <3>1, <3>2
  <2>3. s[i] = w
    BY ONLY <1>2, <2>2
  <2>4. i \in DOMAIN s /\ i \in Nat
    <3>1. DOMAIN s = 1..Len(s)
      BY <1>4
    <3>2. QED
      BY ONLY <2>1, <3>1
  <2>5. QED
    BY <2>3, <2>4
<1>6. \A t \in {"-c", "--command"} : Places(s, {t}) = {}
  <2>1. ASSUME NEW t \in {"-c", "--command"} PROVE Places(s, {t}) = {}
    <3>1. \A q \in Words({t}) : q.prefix = ""
      <4>1. \A u : Word(u).prefix = ""
        BY DEF Word, Command, Joined
      <4>2. QED
        BY ONLY <4>1 DEF Words
    <3>2. Free(U, {t})
      BY <1>1, <1>3, <3>1 DEF Free
    <3>3. QED
      BY <1>4, <3>2, NotSaid
  <2>2. QED
    BY <2>1
<1>7. {j \in DOMAIN s : s[j].prefix \in {"-c=", "--command="}} = {i}
  <2>1. ASSUME NEW j \in DOMAIN s, s[j].prefix \in {"-c=", "--command="} PROVE j = i
    <3>1. s[j] \notin T
      BY <2>1
    <3>2. j \in Nat /\ j - Len(a) \in 1..Len(x)
      BY <1>2, <2>1, <3>1, InTheMiddle
    <3>3. i = Len(a) + 1 /\ Len(x) = 1 /\ Len(a) \in Nat
      BY <1>1, <1>2, <1>4
    <3>4. QED
      BY ONLY <3>2, <3>3
  <2>2. QED
    BY <1>3, <1>5, <2>1
<1>8. First({i}) = i
  BY <1>5, FirstOfOne
<1>9. Deprecated(s) = i
  BY <1>6, <1>7, <1>8 DEF Deprecated
<1>10. /\ i = Len(a) + Len(x) /\ i = (IF s[i].prefix = "" THEN i + 1 ELSE i)
       /\ s[i].commands = c
  BY <1>1, <1>2, <1>3, <1>5
<1>11. QED
  BY ONLY <1>1, <1>2, <1>9, <1>10, s = a \o x \o b, FoundIsReplaced

\* The commands are taken apart again: the last is the kernel's (__init__.py:158-171).
LEMMA SplitAgain ==
    ASSUME NEW S, NEW o, o.pre \in Seq(S), o.kernel \in Seq(S), Len(o.kernel) = 1
    PROVE  SplitCommand(o.pre \o o.kernel) = Given("-pc", o.pre) \o Changed("-k", o, "kernel")
<1>1. PICK pre, k, c, n, m : pre = o.pre /\ k = o.kernel /\ c = pre \o k /\ n = Len(c) /\ m = Len(pre)
  OBVIOUS
<1>2. PICK e : e = <<>>
  OBVIOUS
<1>3. pre \in Seq(S) /\ k \in Seq(S) /\ e \in Seq(S) /\ Len(k) = 1
  BY <1>1, <1>2
<1>4. c = pre \o k \o e
  <2>1. c \in Seq(S)
    BY <1>1, <1>3, ConcatProperties
  <2>2. c \o e = c
    BY <1>2, <2>1, ConcatEmptySeq
  <2>3. QED
    BY <1>1, <2>2
<1>5. /\ m \in Nat /\ Len(c) = m + Len(k) + Len(e)
      /\ \A i \in 1..Len(k) : c[m + i] = k[i]
      /\ SubSeq(c, 1, m) = pre
  <2>1. /\ Len(pre) \in Nat /\ Len(c) = Len(pre) + Len(k) + Len(e)
        /\ \A i \in 1..Len(k) : c[Len(pre) + i] = k[i]
        /\ SubSeq(c, 1, Len(pre)) = pre
    <3>1. pre \in Seq(S) /\ k \in Seq(S) /\ e \in Seq(S)
      BY <1>3
    <3>2. QED
      BY ONLY <1>4, <3>1, ThreeParts
  <2>2. QED
    BY <1>1, <2>1
<1>6. n = m + 1 /\ n - 1 = m
  <2>1. Len(e) = 0
    BY <1>2
  <2>2. QED
    BY <1>1, <1>3, <1>5, <2>1
<1>7. <<c[n]>> = k
  <2>1. c[n] = k[1]
    <3>1. 1 \in 1..Len(k)
      BY <1>3
    <3>2. c[m + 1] = k[1]
      BY <1>5, <3>1
    <3>3. QED
      BY <1>6, <3>2
  <2>2. k = <<k[1]>>
    BY <1>3
  <2>3. QED
    BY <2>1, <2>2
<1>8. SplitCommand(c) = Given("-pc", pre) \o IF k = Default.kernel THEN <<>> ELSE Given("-k", k)
  <2>1. SplitCommand(c) = Given("-pc", SubSeq(c, 1, n - 1))
                          \o IF <<c[n]>> = Default.kernel THEN <<>> ELSE Given("-k", <<c[n]>>)
    BY <1>1 DEF SplitCommand
  <2>2. SubSeq(c, 1, n - 1) = pre
    BY <1>5, <1>6
  <2>3. QED
    BY <1>7, <2>1, <2>2
<1>9. Changed("-k", o, "kernel") = IF k = Default.kernel THEN <<>> ELSE Given("-k", k)
  BY <1>1 DEF Changed
<1>10. QED
  BY <1>1, <1>8, <1>9

\* The first version's command line becomes today's (__init__.py:141-179).
LEMMA OldIsUpgraded ==
    ASSUME NEW args, NEW o, WrittenFor(args, o)
    PROVE  Upgraded(args) = KernelArgs(o)
<1>1. CASE args = KernelArgs(o)
  BY <1>1, StoredIsUpToDate DEF WrittenFor
<1>2. CASE args # KernelArgs(o)
  <2>1. /\ Sayable(o) /\ Len(o.kernel) = 1 /\ args \in FirstArgs(o)
        /\ \A n \in {"pre", "kernel"} : o[n] \in Seq({o[n][i] : i \in DOMAIN o[n]})
    BY <1>2 DEF WrittenFor
  <2>2. PICK V : SaidWith(V, o)
    BY <2>1, OptionsAreSaid
  <2>3. PICK T, a, b, c, S : /\ T = Strings(V) /\ a = Opening(o) /\ b = Closing(o)
                             /\ c = o.pre \o o.kernel
                             /\ S = {o.pre[i] : i \in DOMAIN o.pre} \cup {o.kernel[i] : i \in DOMAIN o.kernel}
    OBVIOUS
  <2>4. o.pre \in Seq(S) /\ o.kernel \in Seq(S)
    <3>1. /\ o.pre \in Seq({o.pre[i] : i \in DOMAIN o.pre})
          /\ o.kernel \in Seq({o.kernel[i] : i \in DOMAIN o.kernel})
      BY <2>1
    <3>2. QED
      BY <2>3, <3>1
  <2>5. (\A q \in T : q.prefix = "") /\ Free(T, {"-c"}) /\ Free(T, {"--command"})
    BY <2>2, <2>3, StringsAreNew DEF SaidWith
  <2>6. a \in Seq(T) /\ b \in Seq(T) /\ Given("-pc", o.pre) \in Seq(T) /\ Changed("-k", o, "kernel") \in Seq(T)
    BY <2>2, <2>3, EndsOfStored
  <2>7. Command(c) \notin Words({"-c"}) /\ Command(c) \notin Words({"--command"})
    <3>1. CanSay(o.kernel)
      BY <2>1 DEF Sayable
    <3>2. "-c" \in OptionNames /\ "--command" \in OptionNames
      BY DEF OptionNames
    <3>3. \A t \in OptionNames : Command(o.pre \o o.kernel) \notin Words({t})
      BY <2>1, <2>4, <3>1, TextIsNoOption
    <3>4. QED
      BY <2>3, <3>2, <3>3
  <2>8. PICK form \in FirstForms(c) : args = a \o form \o b
    BY <2>1, <2>3 DEF FirstArgs
  <2>9. \/ \E t \in {"-c", "--command"} : form = <<Word(t), Command(c)>>
        \/ \E prefix \in {"-c=", "--command="} : form = <<Joined(prefix, c)>>
    BY <2>8 DEF FirstForms
  <2>10. UpgradesTo(args, a, c, b)
    <3>1. CASE \E t \in {"-c", "--command"} : form = <<Word(t), Command(c)>>
      <4>1. PICK t \in {"-c", "--command"} : form = <<Word(t), Command(c)>>
        BY <3>1
      <4>2. QED
        BY ONLY <2>5, <2>6, <2>7, <2>8, <4>1, PairIsReplaced
    <3>2. CASE \E prefix \in {"-c=", "--command="} : form = <<Joined(prefix, c)>>
      <4>1. PICK prefix \in {"-c=", "--command="} : form = <<Joined(prefix, c)>>
        BY <3>2
      <4>2. QED
        BY ONLY <2>5, <2>6, <2>8, <4>1, JointIsReplaced
    <3>3. QED
      BY <2>9, <3>1, <3>2
  <2>11. PICK g, h : g = Given("-pc", o.pre) /\ h = Changed("-k", o, "kernel")
    OBVIOUS
  <2>12. SplitCommand(c) = g \o h
    BY <2>1, <2>3, <2>4, <2>11, SplitAgain
  <2>13. Regrouped(a, g, h)
    BY <2>6, <2>11, InSeqRegrouped
  <2>14. Upgraded(args) = (a \o (g \o h)) \o b
    BY <2>10, <2>12 DEF UpgradesTo
  <2>15. KernelArgs(o) = ((a \o g) \o h) \o b
    BY <2>3, <2>11 DEF KernelArgs
  <2>16. QED
    BY <2>13, <2>14, <2>15 DEF Regrouped
<1>3. QED
  BY <1>1, <1>2

----------------------------------------------------------------------------
(* The options of an installation are read from a command line.            *)

\* The strings of a command line, and of its part behind the command.
Sound(args) ==
    /\ args \in Seq({args[i] : i \in DOMAIN args})
    /\ \A i \in DOMAIN args :
          /\ args[i] = Joined(args[i].prefix, args[i].commands) /\ args[i].commands # None
          /\ args[i].prefix = "/" => args[i].commands \in Place

\* The values that a command line may give to an option.
ValuesIn(args) == {args[i].commands : i \in {j \in DOMAIN args : ~LooksLikeOption(args[j])}}

\* Such a value can be given again.
LEMMA ValuesAreSayable ==
    ASSUME NEW args, Sound(args)
    PROVE  AllSayable(ValuesIn(args))
<1>1. ASSUME NEW i \in DOMAIN args, ~LooksLikeOption(args[i]) PROVE CanSay(args[i].commands)
  <2>1. args[i].prefix \in {"", "/"} /\ args[i] \notin Dashed /\ args[i].commands # None
    BY <1>1 DEF LooksLikeOption, Sound
  <2>2. CASE args[i].prefix = ""
    <3>1. args[i] = Command(args[i].commands)
      BY <2>2 DEF Sound, Command
    <3>2. QED
      BY <2>1, <3>1 DEF CanSay
  <2>3. CASE args[i].prefix = "/"
    <3>1. args[i].commands \in Place
      BY <2>3 DEF Sound
    <3>2. \A v \in Place : \A t : v # <<t>>
      BY DEF Place
    <3>3. \A t : args[i].commands # <<t>>
      BY <3>1, <3>2
    <3>4. ASSUME NEW t PROVE Command(args[i].commands) # Word(t)
      <4>1. \A v : Command(v).commands = v
        BY DEF Command, Joined
      <4>2. Word(t).commands = <<t>>
        BY <4>1 DEF Word
      <4>3. QED
        BY <3>3, <4>1, <4>2
    <3>5. Command(args[i].commands) \notin Dashed
      BY <3>4 DEF Dashed, Words
    <3>6. QED
      BY <2>1, <3>5 DEF CanSay
  <2>4. QED
    BY <2>1, <2>2, <2>3
<1>2. QED
  BY <1>1 DEF AllSayable, ValuesIn

\* The value of an option is one of those, or the default when it is not given.
LEMMA ValueIsGiven ==
    ASSUME NEW args, Sound(args), Takes("install", args),
           NEW o \in DOMAIN Spellings \ {"file"}, o # "jump"
    PROVE  /\ Parse(args)[o] \in ValuesIn(args) \/ Parse(args)[o] = Default[o]
           /\ Places(args, Spellings[o]) # {} => Parse(args)[o] \in ValuesIn(args)
<1>1. o \in OptionsOf["install"] \cap DOMAIN Spellings
  BY DEF OptionsOf, Common, Spellings, Switches
<1>2. Parse(args)[o] = ValueOf(args, o)
  BY DEF Parse, Spellings, Switches
<1>3. CASE Places(args, Spellings[o]) = {}
  BY <1>2, <1>3 DEF ValueOf
<1>4. CASE Places(args, Spellings[o]) # {}
  <2>1. PICK at : at = Places(args, Spellings[o])
    OBVIOUS
  <2>2. args \in Seq({args[i] : i \in DOMAIN args})
    BY DEF Sound
  <2>3. Len(args) \in Nat /\ at \subseteq 1..Len(args)
    BY <2>1, <2>2, LenProperties DEF Places
  <2>4. \E i \in at : \A j \in at : j <= i
    BY <1>4, <2>1, <2>3, LastPosition
  <2>5. PICK i \in at : i = CHOOSE k \in at : \A j \in at : j <= k
    BY <2>4
  <2>6. i + 1 \in DOMAIN args /\ ~LooksLikeOption(args[i + 1])
    BY <1>1, <2>1 DEF Takes
  <2>7. ValueOf(args, o) = args[1 + i].commands
    BY <1>4, <2>1, <2>5 DEF ValueOf
  <2>8. 1 + i = i + 1
    BY <2>3
  <2>9. QED
    BY <1>2, <2>6, <2>7, <2>8 DEF ValuesIn
<1>5. QED
  BY <1>3, <1>4

\* So is each of the jump hosts.
LEMMA JumpsAreGiven ==
    ASSUME NEW args, Sound(args), Takes("install", args)
    PROVE  Parse(args).jump \in Seq(ValuesIn(args))
<1>1. "jump" \in OptionsOf["install"] \cap DOMAIN Spellings
  BY DEF OptionsOf, Common, Spellings, Switches
<1>2. Parse(args).jump = ValuesOf(args, "jump")
  BY DEF Parse, Spellings, Switches
<1>3. PICK at : at = Places(args, Spellings["jump"])
  OBVIOUS
<1>4. args \in Seq({args[i] : i \in DOMAIN args})
  BY DEF Sound
<1>5. Len(args) \in Nat /\ at \subseteq 1..Len(args)
  BY <1>3, <1>4, LenProperties DEF Places
<1>6. Cardinality(at) \in Nat
  <2>1. 1 \in Int /\ Len(args) \in Int
    BY <1>5
  <2>2. QED
    BY <2>1, <1>5, FS_Interval, FS_Subset, FS_CardinalityType
<1>7. ASSUME NEW k \in 1..Cardinality(at)
      PROVE  args[Nth(at, k) + 1].commands \in ValuesIn(args)
  <2>1. PICK i \in at : i = Nth(at, k)
    BY <1>5, NthPosition
  <2>2. i + 1 \in DOMAIN args /\ ~LooksLikeOption(args[i + 1])
    BY <1>1, <1>3 DEF Takes
  <2>3. QED
    BY <2>1, <2>2 DEF ValuesIn
<1>8. ValuesOf(args, "jump") = [k \in 1..Cardinality(at) |-> args[Nth(at, k) + 1].commands]
  BY <1>3 DEF ValuesOf
<1>9. QED
  BY <1>2, <1>6, <1>7, <1>8

\* The default values of a kernel's command and of the folders can be given as well.
LEMMA DefaultsAreSayable ==
    /\ \A n \in {"kernel", "local", "remote"} : CanSay(Default[n])
    /\ \A n \in {"target", "key", "pre"} : Default[n] = None
<1>1. \A t : t \notin OptionNames => CanSay(<<t>>)
  <2>1. ASSUME NEW t, t \notin OptionNames PROVE CanSay(<<t>>)
    <3>1. Word(t) \notin Words(OptionNames)
      BY <2>1, WordIsOne
    <3>2. <<t>> # None
      BY DEF None
    <3>3. QED
      BY <3>1, <3>2 DEF CanSay, Dashed, OptionNames, Word
  <2>2. QED
    BY <2>1
<1>2. \A t \in {"python -m ipykernel", "remote_kernel_sync"} : t \notin OptionNames
  <2>1. ASSUME NEW t, t \in {"python -m ipykernel", "remote_kernel_sync"}
        PROVE  t \notin OptionNames
    <3>1. /\ Spellings["target"] = {"--target", "-t"} /\ Spellings["jump"] = {"-J"}
          /\ Spellings["key"] = {"-i"} /\ Spellings["kernel"] = {"--kernel", "-k"}
          /\ Spellings["pre"] = {"--pre-command", "-pc"} /\ Spellings["name"] = {"--name", "-n"}
          /\ Spellings["file"] = {"--file", "-f"} /\ Spellings["remote"] = {"--remote-folder", "-rf"}
          /\ Spellings["local"] = {"--local-folder", "-lf"}
      BY DEF Spellings
    <3>2. \A o \in DOMAIN Spellings :
              o \in {"target", "jump", "key", "kernel", "pre", "name", "file", "remote", "local"}
      BY DEF Spellings
    <3>3. \A o \in DOMAIN Spellings : t \notin Spellings[o]
      BY ONLY <3>1, <3>2, t \in {"python -m ipykernel", "remote_kernel_sync"}
    <3>4. /\ Switches["noFiles"] = {"--no-remote-files"} /\ Switches["sync"] = {"--synchronize", "-s"}
          /\ Switches["flat"] = {"--no-recursive", "-nr"} /\ Switches["both"] = {"--bi-directional", "-bd"}
          /\ Switches["skip"] = {"--skip-kernel-test"} /\ Switches["dry"] = {"--dry-run"}
      BY DEF Switches
    <3>5. \A o \in DOMAIN Switches : o \in {"noFiles", "sync", "flat", "both", "skip", "dry"}
      BY DEF Switches
    <3>6. \A o \in DOMAIN Switches : t \notin Switches[o]
      BY ONLY <3>4, <3>5, t \in {"python -m ipykernel", "remote_kernel_sync"}
    <3>7. t \notin {"-c", "--command"}
      BY <2>1
    <3>8. QED
      BY ONLY <3>3, <3>6, <3>7 DEF OptionNames
  <2>2. QED
    BY <2>1
<1>3. /\ Default["kernel"] = <<"python -m ipykernel">> /\ Default["local"] = <<"remote_kernel_sync">>
      /\ Default["remote"] = <<"remote_kernel_sync">>
  BY DEF Default, Spellings
<1>4. \A n \in {"target", "key", "pre"} : Default[n] = None
  BY DEF Default, Spellings
<1>5. QED
  BY <1>1, <1>2, <1>3, <1>4

\* The options of an installation can be given again.
LEMMA ParsedIsSayable ==
    ASSUME NEW args, Sound(args), Takes("install", args)
    PROVE  Sayable(Parse(args))
<1>1. PICK o, V : o = Parse(args) /\ V = ValuesIn(args)
  OBVIOUS
<1>2. \A v \in V : CanSay(v)
  BY <1>1, ValuesAreSayable DEF AllSayable
<1>3. \A n \in {"target", "key", "pre", "kernel", "local", "remote"} : o[n] \in V \/ o[n] = Default[n]
  <2>1. \A n \in {"target", "key", "pre", "kernel", "local", "remote"} :
            n \in DOMAIN Spellings \ {"file"} /\ n # "jump"
    BY DEF Spellings
  <2>2. QED
    BY <1>1, <2>1, ValueIsGiven
<1>4. \A n \in {"target", "key", "pre"} : o[n] = None \/ CanSay(o[n])
  BY <1>2, <1>3, DefaultsAreSayable
<1>5. \A n \in {"kernel", "local", "remote"} : CanSay(o[n])
  BY <1>2, <1>3, DefaultsAreSayable
<1>6. PICK J : J = o.jump
  OBVIOUS
<1>7. J \in Seq(V)
  BY <1>1, <1>6, JumpsAreGiven
<1>8. J \in Seq({J[i] : i \in DOMAIN J}) /\ \A i \in DOMAIN J : CanSay(J[i])
  BY <1>2, <1>7
<1>9. \A n \in {"noFiles", "sync", "flat", "both"} : o[n] \in BOOLEAN
  BY <1>1, ParsedFields
<1>10. QED
  BY <1>1, <1>4, <1>5, <1>6, <1>8, <1>9 DEF Sayable

\* A kernel.json of install_kernel() is a command line, and up to date.
LEMMA InstalledIsNew ==
    ASSUME NEW o, Sayable(o)
    PROVE  KernelArgs(o) # <<>> /\ Deprecated(KernelArgs(o)) = 0
<1>1. PICK V : SaidWith(V, o)
  BY OptionsAreSaid
<1>2. PICK T, s, a, F, b : /\ T = Strings(V) /\ s = KernelArgs(o) /\ a = Program \o Row(MainParts(o))
                           /\ F = ConnectionPart /\ b = SyncPart(o)
  OBVIOUS
<1>3. F \in Seq(T) /\ b \in Seq(T) /\ a \in Seq(T)
  <2>1. Program \in Seq(T) /\ F \in Seq(T) /\ b \in Seq(T)
    BY <1>1, <1>2, StoredParts
  <2>2. Row(MainParts(o)) \in Seq(T \ Words({"-f"}))
    BY <1>1, <1>2, PartsSpeak, NamesOfParts, QuietRow
  <2>3. \A W : Row(MainParts(o)) \in Seq(T \ W) => Row(MainParts(o)) \in Seq(T)
    OBVIOUS
  <2>4. QED
    BY <1>2, <2>1, <2>2, <2>3, ConcatProperties
<1>4. s = a \o F \o b
  BY <1>2, StoredRow
<1>5. Len(a) \in Nat /\ Len(b) \in Nat /\ Len(s) = Len(a) + Len(F) + Len(b)
  BY ONLY <1>3, <1>4, ThreeParts
<1>6. Len(F) = 2
  BY <1>2 DEF ConnectionPart
<1>7. Len(s) # 0
  BY <1>5, <1>6
<1>8. s # <<>>
  BY <1>7
<1>9. QED
  BY <1>2, <1>8, StoredIsUpToDate

----------------------------------------------------------------------------
(* What argparse accepts                                                   *)

\* Strings of options only: those of A have a value behind them, those of B have none.
Legal(A, B, s) ==
    /\ s \in Seq({s[i] : i \in DOMAIN s})
    /\ \A i \in 1..Len(s) :
          /\ LooksLikeOption(s[i]) => s[i] \in A \cup B
          /\ ~LooksLikeOption(s[i]) => i > 1 /\ s[i - 1] \in A
          /\ s[i] \in A => i < Len(s) /\ ~LooksLikeOption(s[i + 1])

\* Two such lines in a row.
LEMMA LegalConcat ==
    ASSUME NEW A, NEW B, NEW s, Legal(A, B, s), NEW u, Legal(A, B, u)
    PROVE  Legal(A, B, s \o u)
<1>1. PICK l, m, t : l = Len(s) /\ m = Len(u) /\ t = s \o u
  OBVIOUS
<1>2. PICK S : S = {s[i] : i \in DOMAIN s} \cup {u[i] : i \in DOMAIN u}
  OBVIOUS
<1>3. s \in Seq(S) /\ u \in Seq(S)
  BY <1>2 DEF Legal
<1>4. l \in Nat /\ m \in Nat
  BY <1>1, <1>3, LenProperties
<1>5. /\ t \in Seq(S) /\ Len(t) = l + m
      /\ \A i \in 1..l + m : t[i] = IF i <= l THEN s[i] ELSE u[i - l]
  BY <1>1, <1>3, ConcatProperties
<1>6. /\ \A i \in 1..l : /\ LooksLikeOption(s[i]) => s[i] \in A \cup B
                         /\ ~LooksLikeOption(s[i]) => i > 1 /\ s[i - 1] \in A
                         /\ s[i] \in A => i < l /\ ~LooksLikeOption(s[i + 1])
      /\ \A i \in 1..m : /\ LooksLikeOption(u[i]) => u[i] \in A \cup B
                         /\ ~LooksLikeOption(u[i]) => i > 1 /\ u[i - 1] \in A
                         /\ u[i] \in A => i < m /\ ~LooksLikeOption(u[i + 1])
  BY <1>1 DEF Legal
<1>7. ASSUME NEW i \in 1..l + m
      PROVE  /\ LooksLikeOption(t[i]) => t[i] \in A \cup B
             /\ ~LooksLikeOption(t[i]) => i > 1 /\ t[i - 1] \in A
             /\ t[i] \in A => i < l + m /\ ~LooksLikeOption(t[i + 1])
  <2>1. CASE i <= l
    <3>1. i \in 1..l /\ t[i] = s[i]
      BY <1>4, <1>5, <2>1
    <3>2. i > 1 => t[i - 1] = s[i - 1]
      BY <1>4, <1>5, <2>1
    <3>3. i < l => t[i + 1] = s[i + 1] /\ i < l + m
      BY <1>4, <1>5, <2>1
    <3>4. QED
      BY <1>6, <3>1, <3>2, <3>3
  <2>2. CASE ~(i <= l)
    <3>1. PICK j : j = i - l
      OBVIOUS
    <3>2. j \in 1..m /\ t[i] = u[j]
      BY <1>4, <1>5, <2>2, <3>1
    <3>3. j > 1 => i > 1 /\ t[i - 1] = u[j - 1]
      <4>1. ASSUME j > 1 PROVE i > 1 /\ t[i - 1] = u[j - 1]
        <5>1. i - 1 \in 1..l + m /\ ~(i - 1 <= l) /\ (i - 1) - l = j - 1 /\ i > 1
          BY <1>4, <3>1, <4>1
        <5>2. QED
          BY <1>5, <5>1
      <4>2. QED
        BY <4>1
    <3>4. j < m => i < l + m /\ t[i + 1] = u[j + 1]
      <4>1. ASSUME j < m PROVE i < l + m /\ t[i + 1] = u[j + 1]
        <5>1. i + 1 \in 1..l + m /\ ~(i + 1 <= l) /\ (i + 1) - l = j + 1 /\ i < l + m
          BY <1>4, <2>2, <3>1, <4>1
        <5>2. QED
          BY <1>5, <5>1
      <4>2. QED
        BY <4>1
    <3>5. QED
      BY <1>6, <3>2, <3>3, <3>4
  <2>3. QED
    BY <2>1, <2>2
<1>8. t \in Seq({t[i] : i \in DOMAIN t})
  <2>1. Len(t) \in Nat /\ DOMAIN t = 1..Len(t) /\ t = [i \in 1..Len(t) |-> t[i]]
    BY <1>5, LenProperties
  <2>2. PICK D, n : D = {t[i] : i \in DOMAIN t} /\ n = Len(t)
    OBVIOUS
  <2>3. t \in [1..n -> D] /\ n \in Nat
    BY <2>1, <2>2
  <2>4. QED
    BY <2>2, <2>3, SeqDef
<1>9. QED
  BY <1>1, <1>5, <1>7, <1>8 DEF Legal

\* The names of a parser's options with a value, and of its switches.
Valued(parser) == Words(UNION {Spellings[n] : n \in OptionsOf[parser] \cap DOMAIN Spellings})
Bare(parser) == Words(UNION {Switches[n] : n \in OptionsOf[parser] \cap DOMAIN Switches})

\* argparse accepts such a line if the target is there.
LEMMA LegalIsTaken ==
    ASSUME NEW parser, NEW s, Legal(Valued(parser), Bare(parser), s), Places(s, Spellings.target) # {}
    PROVE  Takes(parser, s)
<1>1. PICK known, valued, others :
          /\ known = OptionsOf[parser]
          /\ valued = UNION {Places(s, Spellings[o]) : o \in known \cap DOMAIN Spellings}
          /\ others = UNION {Places(s, Switches[o]) : o \in known \cap DOMAIN Switches}
  OBVIOUS
<1>2. Len(s) \in Nat /\ DOMAIN s = 1..Len(s)
  <2>1. PICK S : s \in Seq(S)
    BY DEF Legal
  <2>2. QED
    BY <2>1, LenProperties
<1>3. \A i \in DOMAIN s : (i \in valued <=> s[i] \in Valued(parser))
  <2>1. \A i \in DOMAIN s : s[i] \in Valued(parser)
                              <=> \E o \in known \cap DOMAIN Spellings : s[i] \in Words(Spellings[o])
    BY <1>1 DEF Valued, Words
  <2>2. \A i \in DOMAIN s : i \in valued
                              <=> \E o \in known \cap DOMAIN Spellings : s[i] \in Words(Spellings[o])
    BY <1>1 DEF Places
  <2>3. QED
    BY <2>1, <2>2
<1>4. \A i \in DOMAIN s : (i \in others <=> s[i] \in Bare(parser))
  <2>1. \A i \in DOMAIN s : s[i] \in Bare(parser)
                              <=> \E o \in known \cap DOMAIN Switches : s[i] \in Words(Switches[o])
    BY <1>1 DEF Bare, Words
  <2>2. \A i \in DOMAIN s : i \in others
                              <=> \E o \in known \cap DOMAIN Switches : s[i] \in Words(Switches[o])
    BY <1>1 DEF Places
  <2>3. QED
    BY <2>1, <2>2
<1>5. valued \subseteq DOMAIN s
  BY <1>1 DEF Places
<1>6. ASSUME NEW i \in DOMAIN s
      PROVE  IF LooksLikeOption(s[i]) THEN i \in valued \cup others ELSE i - 1 \in valued
  <2>1. LooksLikeOption(s[i]) => s[i] \in Valued(parser) \cup Bare(parser)
    BY <1>2 DEF Legal
  <2>2. ~LooksLikeOption(s[i]) => i - 1 \in DOMAIN s /\ s[i - 1] \in Valued(parser)
    BY <1>2 DEF Legal
  <2>3. QED
    BY <1>3, <1>4, <2>1, <2>2
<1>7. ASSUME NEW i \in valued PROVE i + 1 \in DOMAIN s /\ ~LooksLikeOption(s[i + 1])
  <2>1. i \in DOMAIN s /\ s[i] \in Valued(parser)
    BY <1>3, <1>5
  <2>2. i < Len(s) /\ ~LooksLikeOption(s[i + 1])
    BY <1>2, <2>1 DEF Legal
  <2>3. QED
    BY <1>2, <2>1, <2>2
<1>8. QED
  BY <1>1, <1>6, <1>7 DEF Takes

\* The options that are stored are those of both parsers, and are of one kind.
LEMMA StoredAreKnown ==
    ASSUME NEW parser \in {"start", "sync"}
    PROVE  /\ Valued(parser) \subseteq Dashed
           /\ \A t \in {"-t", "-J", "-i", "-pc", "-k", "--local-folder", "--remote-folder"} :
                 Word(t) \in Valued(parser)
           /\ \A t \in {"--no-remote-files", "-s", "--no-recursive", "--bi-directional"} :
                 Word(t) \in Bare(parser) \cap Dashed /\ Word(t) \notin Valued(parser)
<1>1. /\ Spellings["target"] = {"--target", "-t"} /\ Spellings["jump"] = {"-J"}
      /\ Spellings["key"] = {"-i"} /\ Spellings["kernel"] = {"--kernel", "-k"}
      /\ Spellings["pre"] = {"--pre-command", "-pc"} /\ Spellings["name"] = {"--name", "-n"}
      /\ Spellings["file"] = {"--file", "-f"} /\ Spellings["remote"] = {"--remote-folder", "-rf"}
      /\ Spellings["local"] = {"--local-folder", "-lf"}
  BY DEF Spellings
<1>2. \A n \in DOMAIN Spellings :
          n \in {"target", "jump", "key", "kernel", "pre", "name", "file", "remote", "local"}
  BY DEF Spellings
<1>3. /\ Switches["noFiles"] = {"--no-remote-files"} /\ Switches["sync"] = {"--synchronize", "-s"}
      /\ Switches["flat"] = {"--no-recursive", "-nr"} /\ Switches["both"] = {"--bi-directional", "-bd"}
  BY DEF Switches
<1>4. /\ {"target", "jump", "key", "kernel", "pre", "remote", "local"}
              \subseteq OptionsOf[parser] \cap DOMAIN Spellings
      /\ {"noFiles", "sync", "flat", "both"} \subseteq OptionsOf[parser] \cap DOMAIN Switches
  BY DEF OptionsOf, Common, Spellings, Switches
<1>5. PICK A, B : /\ A = UNION {Spellings[n] : n \in OptionsOf[parser] \cap DOMAIN Spellings}
                  /\ B = UNION {Switches[n] : n \in OptionsOf[parser] \cap DOMAIN Switches}
  OBVIOUS
<1>6. \A n \in {"target", "jump", "key", "kernel", "pre", "remote", "local"} : Spellings[n] \subseteq A
  BY ONLY <1>4, <1>5
<1>7. \A n \in {"noFiles", "sync", "flat", "both"} : Switches[n] \subseteq B
  BY ONLY <1>4, <1>5
<1>8. \A t \in {"-t", "-J", "-i", "-pc", "-k", "--local-folder", "--remote-folder"} : t \in A
  <2>1. /\ Spellings["target"] \subseteq A /\ Spellings["jump"] \subseteq A /\ Spellings["key"] \subseteq A
        /\ Spellings["kernel"] \subseteq A /\ Spellings["pre"] \subseteq A
        /\ Spellings["remote"] \subseteq A /\ Spellings["local"] \subseteq A
    BY ONLY <1>6
  <2>2. "-t" \in A /\ "-J" \in A /\ "-i" \in A /\ "-pc" \in A /\ "-k" \in A
        /\ "--local-folder" \in A /\ "--remote-folder" \in A
    BY ONLY <1>1, <2>1
  <2>3. QED
    BY ONLY <2>2
<1>9. ASSUME NEW t \in {"--no-remote-files", "-s", "--no-recursive", "--bi-directional"}
      PROVE  t \in B /\ t \notin A
  <2>1. t \in B
    BY ONLY <1>3, <1>7, t \in {"--no-remote-files", "-s", "--no-recursive", "--bi-directional"}
  <2>2. \A n \in DOMAIN Spellings : t \notin Spellings[n]
    BY ONLY <1>1, <1>2, t \in {"--no-remote-files", "-s", "--no-recursive", "--bi-directional"}
  <2>3. t \notin A
    BY ONLY <1>5, <2>2
  <2>4. QED
    BY <2>1, <2>3
<1>10. Valued(parser) = Words(A) /\ Bare(parser) = Words(B) /\ Dashed = Words(OptionNames)
  BY <1>5 DEF Valued, Bare, Dashed, OptionNames
<1>11. A \subseteq OptionNames /\ B \subseteq OptionNames
  <2>1. \A n \in DOMAIN Spellings : Spellings[n] \subseteq OptionNames
    BY DEF OptionNames
  <2>2. \A n \in DOMAIN Switches : Switches[n] \subseteq OptionNames
    BY DEF OptionNames
  <2>3. QED
    BY ONLY <1>5, <2>1, <2>2
<1>12. Words(A) \subseteq Dashed /\ Words(B) \subseteq Dashed
  BY ONLY <1>10, <1>11 DEF Words
<1>13. \A t, N : (t \in N => Word(t) \in Words(N)) /\ (t \notin N => Word(t) \notin Words(N))
  <2>1. \A t, N : t \in N => Word(t) \in Words(N)
    BY ONLY TRUE DEF Words
  <2>2. QED
    BY ONLY <2>1, WordIsOne
<1>14. \A t \in {"-t", "-J", "-i", "-pc", "-k", "--local-folder", "--remote-folder"} :
           Word(t) \in Valued(parser)
  BY ONLY <1>8, <1>10, <1>13
<1>15. \A t \in {"--no-remote-files", "-s", "--no-recursive", "--bi-directional"} :
           Word(t) \in Bare(parser) \cap Dashed /\ Word(t) \notin Valued(parser)
  BY ONLY <1>9, <1>10, <1>12, <1>13
<1>16. QED
  BY ONLY <1>10, <1>12, <1>14, <1>15

\* A value is no option.
LEMMA ValueIsPlain == \A v : CanSay(v) => ~LooksLikeOption(Command(v))
BY DEF CanSay, LooksLikeOption, Command, Joined

\* A part of one option is legal.
LEMMA PartIsLegal ==
    ASSUME NEW A, NEW B, A \subseteq Dashed
    PROVE  /\ Legal(A, B, <<>>)
           /\ \A t, v : Word(t) \in A /\ (v = None \/ CanSay(v)) => Legal(A, B, Given(t, v))
           /\ \A t, on : Word(t) \in B \cap Dashed /\ Word(t) \notin A =>
                 Legal(A, B, <<Word(t)>>) /\ Legal(A, B, Switch(t, on))
<1>1. Legal(A, B, <<>>)
  BY DEF Legal
<1>2. \A w \in Dashed : LooksLikeOption(w)
  BY DEF LooksLikeOption
<1>3. ASSUME NEW t, NEW v, Word(t) \in A, v = None \/ CanSay(v) PROVE Legal(A, B, Given(t, v))
  <2>1. CASE v = None
    BY <1>1, <2>1 DEF Given
  <2>2. CASE v # None
    <3>1. PICK w, x, s : w = Word(t) /\ x = Command(v) /\ s = <<w, x>>
      OBVIOUS
    <3>2. LooksLikeOption(w) /\ w \in A /\ ~LooksLikeOption(x)
      BY <1>2, <1>3, <2>2, <3>1, ValueIsPlain
    <3>3. x \notin A
      BY <1>2, <3>2
    <3>4. s \in Seq({s[i] : i \in DOMAIN s}) /\ Len(s) = 2 /\ s[1] = w /\ s[2] = x
      BY ONLY <3>1
    <3>5. \A i \in 1..2 : i = 1 \/ i = 2
      OBVIOUS
    <3>6. Legal(A, B, s)
      BY ONLY <3>2, <3>3, <3>4, <3>5 DEF Legal
    <3>7. QED
      BY <2>2, <3>1, <3>6 DEF Given
  <2>3. QED
    BY <2>1, <2>2
<1>4. ASSUME NEW t, NEW on, Word(t) \in B \cap Dashed, Word(t) \notin A
      PROVE  Legal(A, B, <<Word(t)>>) /\ Legal(A, B, Switch(t, on))
  <2>1. PICK w, s : w = Word(t) /\ s = <<w>>
    OBVIOUS
  <2>2. LooksLikeOption(w) /\ w \in B /\ w \notin A
    BY <1>2, <1>4, <2>1
  <2>3. s \in Seq({s[i] : i \in DOMAIN s}) /\ Len(s) = 1 /\ s[1] = w
    BY ONLY <2>1
  <2>4. Legal(A, B, s)
    BY ONLY <2>2, <2>3 DEF Legal
  <2>5. QED
    BY <1>1, <2>1, <2>4 DEF Switch
<1>5. QED
  BY <1>1, <1>3, <1>4

\* So are the jump hosts.
LEMMA JumpsAreLegal ==
    ASSUME NEW A, NEW B, A \subseteq Dashed, Word("-J") \in A, NEW o,
           o.jump \in Seq({o.jump[i] : i \in DOMAIN o.jump}), \A i \in DOMAIN o.jump : CanSay(o.jump[i])
    PROVE  Legal(A, B, JumpArgs(o))
<1>1. PICK jump, n, s, w : jump = o.jump /\ n = Len(jump) /\ s = JumpArgs(o) /\ w = Word("-J")
  OBVIOUS
<1>2. n \in Nat /\ DOMAIN jump = 1..n
  BY <1>1, LenProperties
<1>3. PICK m \in Nat : m = 2 * n
  BY <1>2
<1>4. s = [i \in 1..m |-> IF i % 2 = 1 THEN w ELSE Command(jump[i \div 2])]
  BY <1>1, <1>3 DEF JumpArgs
<1>5. \A i \in DOMAIN jump : ~LooksLikeOption(Command(jump[i]))
  BY <1>1, ValueIsPlain
<1>6. LooksLikeOption(w) /\ w \in A
  BY <1>1 DEF LooksLikeOption
<1>7. \A x \in A : LooksLikeOption(x)
  BY DEF LooksLikeOption
<1>8. PICK D : D = {s[i] : i \in DOMAIN s}
  OBVIOUS
<1>9. s \in Seq(D) /\ Len(s) = m
  <2>1. s \in [1..m -> D]
    BY ONLY <1>4, <1>8
  <2>2. QED
    BY ONLY <2>1, m \in Nat, SeqDef, LenProperties
<1>10. \A i \in 1..m : i % 2 = 1 => s[i] = w
  BY ONLY <1>4
<1>11. ASSUME NEW i \in 1..m, ~((i % 2) = 1) PROVE ~LooksLikeOption(s[i])
  <2>1. i \div 2 \in 1..n
    BY ONLY <1>2, <1>3, <1>11
  <2>2. s[i] = Command(jump[i \div 2])
    BY ONLY <1>4, <1>11
  <2>3. QED
    BY ONLY <1>2, <1>5, <2>1, <2>2
<1>12. ASSUME NEW i \in 1..m
       PROVE  /\ LooksLikeOption(s[i]) => s[i] \in A \cup B
              /\ ~LooksLikeOption(s[i]) => i > 1 /\ s[i - 1] \in A
              /\ s[i] \in A => i < m /\ ~LooksLikeOption(s[i + 1])
  <2>1. CASE (i % 2) = 1
    <3>1. i < m /\ i + 1 \in 1..m /\ ~(((i + 1) % 2) = 1)
      BY ONLY <1>2, <1>3, <2>1, i \in 1..m
    <3>2. ~LooksLikeOption(s[i + 1])
      BY ONLY <1>11, <3>1
    <3>3. s[i] = w
      BY ONLY <1>10, <2>1, i \in 1..m
    <3>4. QED
      BY ONLY <1>6, <3>1, <3>2, <3>3
  <2>2. CASE ~((i % 2) = 1)
    <3>1. i > 1 /\ i - 1 \in 1..m /\ ((i - 1) % 2) = 1
      BY ONLY <1>3, <2>2, i \in 1..m
    <3>2. s[i - 1] = w
      BY ONLY <1>10, <3>1
    <3>3. ~LooksLikeOption(s[i])
      BY ONLY <1>11, <2>2, i \in 1..m
    <3>4. QED
      BY ONLY <1>6, <1>7, <3>1, <3>2, <3>3
  <2>3. QED
    BY <2>1, <2>2
<1>13. Legal(A, B, s)
  BY ONLY <1>8, <1>9, <1>12 DEF Legal
<1>14. QED
  BY <1>1, <1>13

\* The arguments that are stored for options with a target are accepted.
LEMMA BodyIsTaken ==
    ASSUME NEW o, Sayable(o), o.target # None, NEW parser \in {"start", "sync"}
    PROVE  Takes(parser, Body(o))
<1>1. PICK A, B : A = Valued(parser) /\ B = Bare(parser)
  OBVIOUS
<1>2. /\ A \subseteq Dashed
      /\ \A t \in {"-t", "-J", "-i", "-pc", "-k", "--local-folder", "--remote-folder"} : Word(t) \in A
      /\ \A t \in {"--no-remote-files", "-s", "--no-recursive", "--bi-directional"} :
            Word(t) \in B \cap Dashed /\ Word(t) \notin A
  BY <1>1, StoredAreKnown
<1>3. /\ Legal(A, B, <<>>)
      /\ \A t, v : Word(t) \in A /\ (v = None \/ CanSay(v)) => Legal(A, B, Given(t, v))
      /\ \A t, on : Word(t) \in B \cap Dashed /\ Word(t) \notin A =>
            Legal(A, B, <<Word(t)>>) /\ Legal(A, B, Switch(t, on))
  BY <1>2, PartIsLegal
<1>4. \A s, u : Legal(A, B, s) /\ Legal(A, B, u) => Legal(A, B, s \o u)
  BY LegalConcat
<1>5. \A n \in {"target", "key", "pre"} : o[n] = None \/ CanSay(o[n])
  BY DEF Sayable
<1>6. \A n \in {"kernel", "local", "remote"} : Stated(o, n) = None \/ CanSay(Stated(o, n))
  BY DEF Sayable, Stated
<1>7. Legal(A, B, JumpArgs(o))
  BY <1>2, JumpsAreLegal DEF Sayable
<1>8. /\ Legal(A, B, Given("-t", o.target)) /\ Legal(A, B, Given("-i", o.key))
      /\ Legal(A, B, Given("-pc", o.pre))
  BY <1>2, <1>3, <1>5
<1>9. /\ Legal(A, B, Changed("-k", o, "kernel"))
      /\ Legal(A, B, Changed("--local-folder", o, "local"))
      /\ Legal(A, B, Changed("--remote-folder", o, "remote"))
  BY <1>2, <1>3, <1>6, ChangedIsGiven
<1>10. /\ Legal(A, B, Switch("--no-remote-files", o.noFiles)) /\ Legal(A, B, <<Word("-s")>>)
       /\ Legal(A, B, Switch("--no-recursive", o.flat)) /\ Legal(A, B, Switch("--bi-directional", o.both))
  BY <1>2, <1>3
<1>11. Legal(A, B, Row(MainParts(o)))
  <2>1. PICK p : p = MainParts(o)
    OBVIOUS
  <2>2. /\ Legal(A, B, p[1]) /\ Legal(A, B, p[2]) /\ Legal(A, B, p[3])
        /\ Legal(A, B, p[4]) /\ Legal(A, B, p[5]) /\ Legal(A, B, p[6])
    BY <1>7, <1>8, <1>9, <1>10, <2>1 DEF MainParts
  <2>3. Legal(A, B, Row(p))
    BY ONLY <1>4, <2>2 DEF Row
  <2>4. QED
    BY <2>1, <2>3
<1>12. Legal(A, B, SyncPart(o))
  <2>1. Legal(A, B, SyncArgs(o))
    BY <1>4, <1>9, <1>10 DEF SyncArgs
  <2>2. QED
    BY <1>3, <2>1 DEF SyncPart
<1>13. Legal(A, B, Body(o))
  BY <1>4, <1>11, <1>12 DEF Body
<1>14. Places(Body(o), Spellings.target) # {}
  <2>1. PICK V : SaidWith(V, o)
    BY OptionsAreSaid
  <2>2. /\ Spellings["target"] = {"--target", "-t"} /\ MainOptions[1] = "-t"
        /\ \A j \in 1..6 : j # 1 => MainOptions[j] \notin {"--target", "-t"}
        /\ \A j \in 1..6 : SyncOptions[j] \notin {"--target", "-t"}
    <3>1. Spellings["target"] = {"--target", "-t"}
      BY DEF Spellings
    <3>2. \A j \in 1..6 : j = 1 \/ j = 2 \/ j = 3 \/ j = 4 \/ j = 5 \/ j = 6
      OBVIOUS
    <3>3. /\ MainOptions[1] = "-t" /\ MainOptions[2] = "-J" /\ MainOptions[3] = "-i"
          /\ MainOptions[4] = "-pc" /\ MainOptions[5] = "-k" /\ MainOptions[6] = "--no-remote-files"
          /\ SyncOptions[1] = "-s" /\ SyncOptions[2] = "--no-recursive"
          /\ SyncOptions[3] = "--bi-directional" /\ SyncOptions[4] = "--local-folder"
          /\ SyncOptions[5] = "--remote-folder" /\ SyncOptions[6] = ""
      BY DEF MainOptions, SyncOptions
    <3>4. QED
      BY ONLY <3>1, <3>2, <3>3
  <2>3. Others(MainOptions, Spellings["target"], 1) /\ Others(SyncOptions, Spellings["target"], 0)
    <3>1. Spellings["target"] \subseteq OptionNames
      BY DEF OptionNames, Spellings
    <3>2. QED
      BY <2>2, <3>1 DEF Others
  <2>4. Around(Body(o), Strings(V), Spellings["target"], MainParts(o)[1])
    BY <2>1, <2>3, PartInBody
  <2>5. MainParts(o)[1] = <<Word("-t"), Command(o.target)>>
    BY DEF MainParts, Given
  <2>6. PICK s, w, v, x : s = Body(o) /\ w = Word("-t") /\ v = Command(o.target) /\ x = <<w, v>>
    OBVIOUS
  <2>7. w \in Words(Spellings["target"])
    BY <2>2, <2>6 DEF Words
  <2>8. CanSay(o.target)
    BY DEF Sayable
  <2>9. PICK Q : Q = Strings(V) \ Words(Spellings["target"])
    OBVIOUS
  <2>10. PICK a \in Seq(Q), b \in Seq(Q) : s = a \o x \o b
    BY <2>4, <2>5, <2>6, <2>9 DEF Around
  <2>11. PICK U : U = Q \cup {w, v}
    OBVIOUS
  <2>12. a \in Seq(U) /\ b \in Seq(U) /\ x \in Seq(U)
    BY ONLY <2>6, <2>11, a \in Seq(Q), b \in Seq(Q)
  <2>13. /\ Len(a) \in Nat /\ Len(x) \in Nat /\ Len(b) \in Nat
         /\ Len(s) = Len(a) + Len(x) + Len(b) /\ DOMAIN s = 1..Len(s)
         /\ \A i \in 1..Len(x) : s[Len(a) + i] = x[i]
    BY ONLY <2>10, <2>12, ThreeParts
  <2>14. Len(x) = 2 /\ x[1] = w
    BY ONLY <2>6
  <2>15. Len(a) + 1 \in DOMAIN s /\ s[Len(a) + 1] = w
    BY ONLY <2>13, <2>14
  <2>16. Len(a) + 1 \in Places(s, Spellings["target"])
    BY ONLY <2>7, <2>15 DEF Places
  <2>17. QED
    BY <2>6, <2>16
<1>15. QED
  BY <1>1, <1>13, <1>14, LegalIsTaken

\* Whatever install accepts, both start and sync accept of the kernel.json it has
\* written, without Jupyter's own -f, which sync does not know; and they read the
\* same options of it (install.py:111-140, __init__.py:41-80, 115-127).
THEOREM InstalledIsAccepted ==
    ASSUME NEW args, Sound(args), Takes("install", args),
           NEW o, o = Parse(args), NEW parser \in {"start", "sync"}
    PROVE  /\ Takes(parser, StartArgs(KernelArgs(o)))
           /\ Effect(Parse(StartArgs(KernelArgs(o)))) = Effect(o)
<1>1. Sayable(o)
  BY ParsedIsSayable
<1>2. o.target # None
  <2>1. Places(args, Spellings["target"]) # {}
    BY DEF Takes
  <2>2. "target" \in DOMAIN Spellings \ {"file"} /\ "target" # "jump"
    BY DEF Spellings
  <2>3. o["target"] \in ValuesIn(args)
    BY <2>1, <2>2, ValueIsGiven
  <2>4. CanSay(o.target)
    BY <2>3, ValuesAreSayable DEF AllSayable
  <2>5. QED
    BY <2>4 DEF CanSay
<1>3. StartArgs(KernelArgs(o)) = Body(o)
  BY <1>1, StartOfInstalled
<1>4. QED
  BY <1>1, <1>2, <1>3, BodyIsTaken, BodyMeans

----------------------------------------------------------------------------
(* What the processes are, and what main() makes of a command line.        *)

ProcessOf(pc, exit, mode, opts, at, linked, spec, meant) ==
    [pc |-> pc, exit |-> exit, mode |-> mode, opts |-> opts, at |-> at, linked |-> linked,
     spec |-> spec, meant |-> meant]

IsProcess(r) == r = ProcessOf(r.pc, r.exit, r.mode, r.opts, r.at, r.linked, r.spec, r.meant)

\* The fields of a process.
LEMMA Fields ==
    ASSUME NEW a, NEW b, NEW c, NEW d, NEW e, NEW f, NEW g, NEW h, NEW r,
           r = ProcessOf(a, b, c, d, e, f, g, h)
    PROVE  /\ IsProcess(r) /\ r.pc = a /\ r.exit = b /\ r.mode = c /\ r.opts = d
           /\ r.at = e /\ r.linked = f /\ r.spec = g /\ r.meant = h
BY DEF IsProcess, ProcessOf

Exits == {"none", "0", "1", "2", "killed", "connects"}

\* An installation knows options that a kernel.json can say.
Installs(r) == r.mode = "install" => Sayable(r.opts)

\* A process that main() has sent on its way, or that has ended at once.
Fresh(r) ==
    /\ IsProcess(r) /\ r.linked = FALSE /\ r.spec = <<>> /\ Installs(r)
    /\ \/ r.pc = "done" /\ r.exit \in Exits \ {"none"}
       \/ r.exit = "none" /\ r.pc = "test" /\ r.mode = "install"
       \/ r.exit = "none" /\ r.pc \in {"search", "load"} /\ r.mode # "install"

\* A part of a sound command line is sound.
LEMMA TailIsSound ==
    ASSUME NEW line, Sound(line), line # <<>>
    PROVE  Sound(Tail(line))
<1> DEFINE S == {line[i] : i \in DOMAIN line}
<1>1. line \in Seq(S)
  BY DEF Sound
<1>2. /\ Tail(line) \in Seq(S) /\ Len(line) \in Nat \ {0} /\ Len(Tail(line)) = Len(line) - 1
      /\ \A i \in 1..Len(Tail(line)) : Tail(line)[i] = line[i + 1]
  BY <1>1, HeadTailProperties, LenProperties, EmptySeq
<1>3. ASSUME NEW i \in DOMAIN Tail(line)
      PROVE  i + 1 \in DOMAIN line /\ Tail(line)[i] = line[i + 1]
  <2>1. i \in 1..Len(Tail(line))
    BY <1>2, LenProperties
  <2>2. i + 1 \in 1..Len(line)
    BY <1>2, <2>1
  <2>3. QED
    BY <1>1, <1>2, <2>1, <2>2, LenProperties
<1>4. Tail(line) \in Seq({Tail(line)[i] : i \in DOMAIN Tail(line)})
  <2>1. PICK T : T = {Tail(line)[i] : i \in DOMAIN Tail(line)}
    OBVIOUS
  <2>2. \A i \in 1..Len(Tail(line)) : Tail(line)[i] \in T
    BY <1>2, <2>1, LenProperties
  <2>3. Tail(line) \in [1..Len(Tail(line)) -> T] /\ Len(Tail(line)) \in Nat
    BY <1>2, <2>2, LenProperties
  <2>4. QED
    BY <2>1, <2>3, SeqDef
<1>5. QED
  BY <1>3, <1>4 DEF Sound

\* The arguments of start and of sync end a process: it connects, or has exit code 2.
LEMMA HandOverEnds ==
    ASSUME NEW r, IsProcess(r), NEW parser, NEW args
    PROVE  \E result \in {"2", "connects"} : \E mode \in {r.mode, parser} : \E opts :
              HandOver(r, parser, args)
                = ProcessOf("done", result, mode, opts, r.at, r.linked, r.spec, r.meant)
<1>1. CASE Takes(parser, args)
  <2>1. PICK q : q = [r EXCEPT !.mode = parser, !.opts = Parse(args)]
    OBVIOUS
  <2>2. q = ProcessOf(r.pc, r.exit, parser, Parse(args), r.at, r.linked, r.spec, r.meant)
    BY <2>1 DEF IsProcess, ProcessOf, Ended
  <2>3. IsProcess(q) /\ q.mode = parser /\ q.opts = Parse(args) /\ q.at = r.at
        /\ q.linked = r.linked /\ q.spec = r.spec /\ q.meant = r.meant
    BY <2>2, Fields
  <2>4. PICK t : t = Ended(q, "connects")
    OBVIOUS
  <2>5. t = ProcessOf("done", "connects", q.mode, q.opts, q.at, q.linked, q.spec, q.meant)
    BY <2>3, <2>4 DEF IsProcess, ProcessOf, Ended
  <2>6. HandOver(r, parser, args) = t
    BY <1>1, <2>1, <2>4 DEF HandOver
  <2>7. QED
    BY <2>3, <2>5, <2>6
<1>2. CASE ~Takes(parser, args)
  <2>1. PICK t : t = Ended(r, "2")
    OBVIOUS
  <2>2. t = ProcessOf("done", "2", r.mode, r.opts, r.at, r.linked, r.spec, r.meant)
    BY <2>1 DEF IsProcess, ProcessOf, Ended
  <2>3. HandOver(r, parser, args) = t
    BY <1>2, <2>1 DEF HandOver
  <2>4. QED
    BY <2>2, <2>3
<1>3. QED
  BY <1>1, <1>2

\* Before a command line there is nothing.
LEMMA NewIsProcess ==
    /\ IsProcess(NewProcess) /\ NewProcess.mode = "start" /\ NewProcess.linked = FALSE
    /\ NewProcess.exit = "none" /\ NewProcess.pc = "off"
    /\ NewProcess.spec = <<>>
BY DEF NewProcess, IsProcess, ProcessOf

\* Those that end at once.
LEMMA EndedIsFresh ==
    \A result \in {"1", "2"} : Fresh(Ended(NewProcess, result))
<1>1. ASSUME NEW result \in {"1", "2"} PROVE Fresh(Ended(NewProcess, result))
  <2>1. PICK t : t = Ended(NewProcess, result)
    OBVIOUS
  <2>2. t = ProcessOf("done", result, NewProcess.mode, NewProcess.opts, NewProcess.at,
                      NewProcess.linked, NewProcess.spec, NewProcess.meant)
    BY <2>1, NewIsProcess DEF IsProcess, ProcessOf, Ended
  <2>3. IsProcess(t) /\ t.pc = "done" /\ t.exit = result /\ t.mode = "start" /\ t.linked = FALSE
        /\ t.spec = <<>>
    BY <2>2, Fields, NewIsProcess
  <2>4. Fresh(t)
    BY <2>3 DEF Fresh, Exits, Installs
  <2>5. QED
    BY <2>1, <2>4
<1>2. QED
  BY <1>1

\* Those that connect, or fail at their arguments.
LEMMA HandedOverIsFresh ==
    ASSUME NEW parser \in {"start", "sync"}, NEW args
    PROVE  Fresh(HandOver(NewProcess, parser, args))
<1>1. PICK t : t = HandOver(NewProcess, parser, args)
  OBVIOUS
<1>2. PICK result, mode, opts :
          /\ result \in {"2", "connects"}
          /\ mode \in {"start", parser}
          /\ t = ProcessOf("done", result, mode, opts, NewProcess.at, NewProcess.linked,
                           NewProcess.spec, NewProcess.meant)
  BY <1>1, HandOverEnds, NewIsProcess
<1>3. IsProcess(t) /\ t.pc = "done" /\ t.exit = result /\ t.mode = mode /\ t.linked = FALSE
      /\ t.spec = <<>>
  BY <1>2, Fields, NewIsProcess
<1>4. Fresh(t)
  BY <1>2, <1>3 DEF Fresh, Exits, Installs
<1>5. QED
  BY <1>1, <1>4

\* Those that look for a kernel.
LEMMA LookupIsFresh ==
    ASSUME NEW parser \in {"start", "sync"}, NEW args
    PROVE  Fresh(Lookup(parser, args))
<1>1. CASE Len(args) # 1 \/ LooksLikeOption(args[1])
  BY <1>1, EndedIsFresh DEF Lookup
<1>2. CASE ~(Len(args) # 1 \/ LooksLikeOption(args[1]))
  <2>0. \E pc \in {"search", "load"} : \E at :
            Lookup(parser, args) = [NewProcess EXCEPT !.pc = pc, !.mode = parser, !.at = at]
    <3>1. CASE args[1].prefix = "/"
      BY <1>2, <3>1 DEF Lookup
    <3>2. CASE args[1].prefix # "/"
      BY <1>2, <3>2 DEF Lookup
    <3>3. QED
      BY <3>1, <3>2
  <2>1. PICK pc \in {"search", "load"} :
            \E at : Lookup(parser, args) = [NewProcess EXCEPT !.pc = pc, !.mode = parser, !.at = at]
    BY <2>0
  <2>2. PICK at : Lookup(parser, args) = [NewProcess EXCEPT !.pc = pc, !.mode = parser, !.at = at]
    BY <2>1
  <2>3. PICK t : t = Lookup(parser, args)
    OBVIOUS
  <2>4. t = ProcessOf(pc, NewProcess.exit, parser, NewProcess.opts, at, NewProcess.linked,
                      NewProcess.spec, NewProcess.meant)
    <3>1. t = [NewProcess EXCEPT !.pc = pc, !.mode = parser, !.at = at]
      BY <2>2, <2>3
    <3>2. QED
      BY <3>1, NewIsProcess DEF IsProcess, ProcessOf
  <2>5. IsProcess(t) /\ t.pc = pc /\ t.exit = "none" /\ t.mode = parser /\ t.linked = FALSE
        /\ t.spec = <<>>
    BY <2>4, Fields, NewIsProcess
  <2>6. Fresh(t)
    BY <2>5 DEF Fresh, Installs
  <2>7. QED
    BY <2>3, <2>6
<1>3. QED
  BY <1>1, <1>2

\* Those that install one.
LEMMA InstallIsFresh ==
    ASSUME NEW args, Sound(args)
    PROVE  Fresh(Install(args))
<1>1. CASE Takes("install", args)
  <2>1. PICK t : t = Install(args)
    OBVIOUS
  <2>2. t = [NewProcess EXCEPT !.pc = "test", !.mode = "install", !.opts = Parse(args),
                               !.at = <<UserDir, FolderOf(Parse(args))>>]
    BY <1>1, <2>1 DEF Install
  <2>3. IsProcess(t) /\ t.pc = "test" /\ t.exit = "none" /\ t.mode = "install"
        /\ t.linked = FALSE /\ t.opts = Parse(args) /\ t.spec = <<>>
    BY <2>2 DEF NewProcess, IsProcess, ProcessOf
  <2>4. Fresh(t)
    BY <1>1, <2>3, ParsedIsSayable DEF Fresh, Installs
  <2>5. QED
    BY <2>1, <2>4
<1>2. CASE ~Takes("install", args)
  BY <1>2, EndedIsFresh DEF Install
<1>3. QED
  BY <1>1, <1>2

\* So is what main() makes of any command line, and it looks where there are kernels.
LEMMA DispatchedIsFresh ==
    ASSUME NEW r \in Dispatched
    PROVE  Fresh(r) /\ (r.pc # "done" => r.at \in Place)
<1>1. PICK line \in Lines : r = Dispatch(line)
  BY DEF Dispatched
<1>2. Sound(line) /\ (r.pc # "done" => r.at \in Place)
  BY <1>1, LinesAssumption DEF Sound
<1>3. line # <<>> => Sound(Tail(line))
  BY <1>2, TailIsSound
<1>4. Fresh(r)
  <2>1. \/ \E result \in {"1", "2"} : r = Ended(NewProcess, result)
        \/ \E parser \in {"start", "sync"} : \E args : r = HandOver(NewProcess, parser, args)
        \/ \E parser \in {"start", "sync"} : \E args : r = Lookup(parser, args)
        \/ line # <<>> /\ r = Install(Tail(line))
    <3>1. CASE line = <<>>
      <4>1. r = Ended(NewProcess, "1")
        BY <1>1, <3>1 DEF Dispatch
      <4>2. QED
        BY <4>1
    <3>2. CASE line # <<>>
      <4>1. \/ r = Ended(NewProcess, "1") \/ r = Ended(NewProcess, "2")
            \/ r = HandOver(NewProcess, "start", line) \/ r = HandOver(NewProcess, "sync", Tail(line))
            \/ r = Install(Tail(line)) \/ r = Lookup("start", Tail(line))
            \/ r = Lookup("sync", Tail(Tail(line)))
        BY <1>1 DEF Dispatch
      <4>2. QED
        BY <3>2, <4>1
    <3>3. QED
      BY <3>1, <3>2
  <2>2. QED
    BY <1>3, <2>1, EndedIsFresh, HandedOverIsFresh, LookupIsFresh, InstallIsFresh
<1>5. QED
  BY <1>2, <1>4

----------------------------------------------------------------------------
(* One folder, and the processes at it.                                    *)

Linked(r, k) == r.at = k /\ r.linked
Creating(r, k) == Linked(r, k) /\ r.pc \in {"open", "dump"}
Rewriting(r, k) == Linked(r, k) /\ r.pc \in {"rewrite", "save"}
Writes(r, k) == Linked(r, k) /\ r.pc \in {"open", "dump", "save"}
Installed(r, k) ==
    /\ Linked(r, k) /\ r.mode = "install"
    /\ r.pc = "logos" \/ (r.pc = "done" /\ r.exit = "0" /\ ~r.opts.dry)

\* Who has made a folder is alone there until its kernel.json is complete.
Alone(P, f, k) ==
    \A p \in Process : Creating(P[p], k) =>
        f.file # "whole" /\ \A q \in Process : Linked(P[q], k) => q = p

\* Those who upgrade a kernel.json write the same over it.
Agreed(P, f, k) ==
    /\ \A p, q \in Process : Rewriting(P[p], k) /\ Rewriting(P[q], k) => P[p].spec = P[q].spec
    /\ \A p \in Process : Rewriting(P[p], k) /\ f.file = "whole" =>
          /\ f.argv \in {P[p].spec, Upgraded(P[p].spec)}
          /\ P[p].pc = "save" => f.argv = Upgraded(P[p].spec)

\* What is installed is there, and nobody is about to write over it.
Kept(P, f, k) ==
    \A p \in Process : Installed(P[p], k) =>
        /\ f.file = "whole" /\ f.argv = KernelArgs(P[p].opts)
        /\ \A q \in Process : ~Creating(P[q], k) /\ ~Rewriting(P[q], k)

\* What is not complete is being written.
Completed(P, f, stopped, k) ==
    f.dir /\ f.file # "whole" /\ k \notin stopped => \E p \in Process : Writes(P[p], k)

FolderOK(P, f, stopped, k) ==
    Alone(P, f, k) /\ Agreed(P, f, k) /\ Kept(P, f, k) /\ Completed(P, f, stopped, k)

\* A specification that is upgraded once.
Outdated(args) ==
    Deprecated(args) # 0 /\ Upgraded(args) # <<>> /\ Deprecated(Upgraded(args)) = 0

\* A step elsewhere, or before the process has a folder, is none here.
LEMMA Elsewhere ==
    ASSUME NEW P, NEW Q, NEW p \in Process, \A q \in Process \ {p} : Q[q] = P[q],
           NEW f, NEW stopped, NEW stops, NEW k, k \in stopped => k \in stops, FolderOK(P, f, stopped, k),
           ~Linked(P[p], k), ~Linked(Q[p], k)
    PROVE  FolderOK(Q, f, stops, k)
<1> USE DEF Creating, Rewriting, Writes, Installed
<1>1. \A q \in Process : Linked(Q[q], k) => q # p /\ Q[q] = P[q]
  OBVIOUS
<1>2. Alone(Q, f, k)
  BY <1>1 DEF FolderOK, Alone
<1>3. Agreed(Q, f, k)
  BY <1>1 DEF FolderOK, Agreed
<1>4. Kept(Q, f, k)
  BY <1>1 DEF FolderOK, Kept
<1>5. Completed(Q, f, stops, k)
  BY DEF FolderOK, Completed
<1>6. QED
  BY <1>2, <1>3, <1>4, <1>5 DEF FolderOK

\* A new folder has nobody at it but its maker (install.py:148).
LEMMA Made ==
    ASSUME NEW Q, NEW p \in Process, NEW k, \A q \in Process \ {p} : ~Linked(Q[q], k),
           Linked(Q[p], k), Q[p].pc = "open", NEW f, f.file # "whole", NEW stops
    PROVE  FolderOK(Q, f, stops, k)
<1> USE DEF Creating, Rewriting, Writes, Installed
<1>1. \A q \in Process : Linked(Q[q], k) => q = p
  OBVIOUS
<1>2. Alone(Q, f, k) /\ Agreed(Q, f, k) /\ Kept(Q, f, k)
  BY <1>1 DEF Alone, Agreed, Kept
<1>3. Completed(Q, f, stops, k)
  BY DEF Completed
<1>4. QED
  BY <1>2, <1>3 DEF FolderOK

\* open() leaves nothing of the file, and the one who has opened it fills it
\* (install.py:149, __init__.py:181).
LEMMA Opened ==
    ASSUME NEW P, NEW Q, NEW p \in Process, \A q \in Process \ {p} : Q[q] = P[q],
           NEW f, NEW g, NEW stopped, NEW stops, NEW k, FolderOK(P, f, stopped, k),
           Linked(P[p], k), Linked(Q[p], k), Q[p].spec = P[p].spec,
           \/ P[p].pc = "open" /\ Q[p].pc = "dump"
           \/ P[p].pc = "rewrite" /\ Q[p].pc = "save",
           g.file = "torn"
    PROVE  FolderOK(Q, g, stops, k)
<1> USE DEF Creating, Rewriting, Writes, Installed
<1>1. \A q \in Process : (Linked(Q[q], k) <=> Linked(P[q], k)) /\ Q[q].spec = P[q].spec
                         /\ (Creating(Q[q], k) <=> Creating(P[q], k))
                         /\ (Rewriting(Q[q], k) <=> Rewriting(P[q], k))
  OBVIOUS
<1>2. Alone(Q, g, k)
  BY <1>1 DEF FolderOK, Alone
<1>3. Agreed(Q, g, k)
  BY <1>1 DEF FolderOK, Agreed
<1>4. Kept(Q, g, k)
  BY <1>1 DEF FolderOK, Kept
<1>5. Completed(Q, g, stops, k)
  BY DEF Completed
<1>6. QED
  BY <1>2, <1>3, <1>4, <1>5 DEF FolderOK

\* json.dump() of an installation (install.py:150).
LEMMA Filled ==
    ASSUME NEW P, NEW Q, NEW p \in Process, \A q \in Process \ {p} : Q[q] = P[q],
           NEW f, NEW g, NEW stopped, NEW stops, NEW k, FolderOK(P, f, stopped, k),
           Linked(P[p], k), P[p].pc = "dump", Q[p].pc = "logos",
           g.file = "whole", g.argv = KernelArgs(Q[p].opts)
    PROVE  FolderOK(Q, g, stops, k) /\ f.file # "whole"
<1> USE DEF Creating, Rewriting, Writes, Installed
<1>1. f.file # "whole" /\ \A q \in Process : Linked(P[q], k) => q = p
  BY DEF FolderOK, Alone
<1>2. \A q \in Process : Linked(Q[q], k) => q = p
  BY <1>1
<1>3. Alone(Q, g, k) /\ Agreed(Q, g, k) /\ Kept(Q, g, k)
  BY <1>2 DEF Alone, Agreed, Kept
<1>4. Completed(Q, g, stops, k)
  BY DEF Completed
<1>5. QED
  BY <1>1, <1>3, <1>4 DEF FolderOK

\* json.dump() of an upgrade (__init__.py:182).
LEMMA Saved ==
    ASSUME NEW P, NEW Q, NEW p \in Process, \A q \in Process \ {p} : Q[q] = P[q],
           NEW f, NEW g, NEW stopped, NEW stops, NEW k, FolderOK(P, f, stopped, k),
           Linked(P[p], k), P[p].pc = "save", Q[p].pc = "done", Q[p].mode # "install",
           g.file = "whole", g.argv = Upgraded(P[p].spec)
    PROVE  FolderOK(Q, g, stops, k) /\ (f.file = "whole" => f.argv = Upgraded(P[p].spec))
<1> USE DEF Creating, Rewriting, Writes, Installed
<1>1. \A q \in Process : Rewriting(Q[q], k) => q # p /\ Q[q] = P[q] /\ Rewriting(P[q], k)
  OBVIOUS
<1>2. Rewriting(P[p], k) /\ (f.file = "whole" => f.argv = Upgraded(P[p].spec))
  BY DEF FolderOK, Agreed
<1>3. \A q \in Process : ~Creating(P[q], k) /\ ~Installed(P[q], k)
  BY <1>2 DEF FolderOK, Alone, Kept
<1>4. \A q \in Process : ~Creating(Q[q], k) /\ ~Installed(Q[q], k)
  BY <1>3
<1>5. Alone(Q, g, k) /\ Kept(Q, g, k)
  BY <1>4 DEF Alone, Kept
<1>6. Agreed(Q, g, k)
  BY <1>1, <1>2 DEF FolderOK, Agreed
<1>7. Completed(Q, g, stops, k)
  BY DEF Completed
<1>8. QED
  BY <1>2, <1>5, <1>6, <1>7 DEF FolderOK

\* A kernel.json that is read is complete, and what is installed is not upgraded
\* (__init__.py:109-113).
LEMMA Loaded ==
    ASSUME NEW P, NEW Q, NEW p \in Process, \A q \in Process \ {p} : Q[q] = P[q],
           NEW f, NEW stopped, NEW k, FolderOK(P, f, stopped, k), f.file = "whole",
           ~Linked(P[p], k), Q[p].mode # "install",
           Q[p].pc = "done" \/ (Q[p].pc = "rewrite" /\ Deprecated(f.argv) # 0),
           Q[p].spec = f.argv,
           \A q \in Process : Rewriting(P[q], k) => Outdated(P[q].spec),
           \A q \in Process : Installed(P[q], k) => Deprecated(KernelArgs(P[q].opts)) = 0
    PROVE  FolderOK(Q, f, stopped, k)
<1> USE DEF Creating, Rewriting, Writes, Installed
<1>1. \A q \in Process : ~Creating(P[q], k)
  BY DEF FolderOK, Alone
<1>2. \A q \in Process : ~Creating(Q[q], k)
  BY <1>1
<1>3. Alone(Q, f, k) /\ Completed(Q, f, stopped, k)
  BY <1>2 DEF Alone, Completed
<1>4. ASSUME NEW q \in Process, Rewriting(P[q], k), Deprecated(f.argv) # 0
      PROVE  P[q].spec = f.argv /\ P[q].pc = "rewrite"
  <2>1. Outdated(P[q].spec) /\ f.argv \in {P[q].spec, Upgraded(P[q].spec)}
        /\ (P[q].pc = "save" => f.argv = Upgraded(P[q].spec))
    BY <1>4 DEF FolderOK, Agreed
  <2>2. f.argv # Upgraded(P[q].spec)
    BY <1>4, <2>1 DEF Outdated
  <2>3. QED
    BY <1>4, <2>1, <2>2
<1>5. Agreed(Q, f, k)
  <2>1. \A q \in Process \ {p} : Rewriting(Q[q], k) => Rewriting(P[q], k) /\ Q[q] = P[q]
    OBVIOUS
  <2>2. Rewriting(Q[p], k) => Q[p].pc = "rewrite" /\ Deprecated(f.argv) # 0
    OBVIOUS
  <2>3. ASSUME NEW q \in Process, NEW r \in Process, Rewriting(Q[q], k), Rewriting(Q[r], k)
        PROVE  Q[q].spec = Q[r].spec
    <3>1. CASE q # p /\ r # p
      BY <2>1, <2>3, <3>1 DEF FolderOK, Agreed
    <3>2. CASE q = p \/ r = p
      BY <2>1, <2>2, <2>3, <3>2, <1>4
    <3>3. QED
      BY <3>1, <3>2
  <2>4. ASSUME NEW q \in Process, Rewriting(Q[q], k)
        PROVE  /\ f.argv \in {Q[q].spec, Upgraded(Q[q].spec)}
               /\ Q[q].pc = "save" => f.argv = Upgraded(Q[q].spec)
    <3>1. CASE q # p
      BY <2>1, <2>4, <3>1 DEF FolderOK, Agreed
    <3>2. CASE q = p
      BY <2>2, <2>4, <3>2
    <3>3. QED
      BY <3>1, <3>2
  <2>5. QED
    BY <2>3, <2>4 DEF Agreed
<1>6. Kept(Q, f, k)
  <2>1. ASSUME NEW q \in Process, Installed(Q[q], k)
        PROVE  f.argv = KernelArgs(Q[q].opts)
               /\ \A r \in Process : ~Creating(Q[r], k) /\ ~Rewriting(Q[r], k)
    <3>1. q # p /\ Q[q] = P[q] /\ Installed(P[q], k)
      BY <2>1
    <3>2. f.argv = KernelArgs(P[q].opts) /\ \A r \in Process : ~Rewriting(P[r], k)
      BY <3>1 DEF FolderOK, Kept
    <3>3. Deprecated(f.argv) = 0
      BY <3>1, <3>2
    <3>4. QED
      BY <1>2, <3>1, <3>2, <3>3
  <2>2. QED
    BY <2>1 DEF Kept
<1>7. QED
  BY <1>3, <1>5, <1>6 DEF FolderOK

\* Who ends leaves the folder as it is, and what he was writing unfinished.
LEMMA Left ==
    ASSUME NEW P, NEW Q, NEW p \in Process, \A q \in Process \ {p} : Q[q] = P[q],
           NEW f, NEW stopped, NEW stops, NEW k, FolderOK(P, f, stopped, k),
           k \in stopped \/ Writes(P[p], k) => k \in stops,
           Linked(P[p], k), Linked(Q[p], k), Q[p].pc = "done",
           Q[p].mode = P[p].mode, Q[p].opts = P[p].opts,
           Installed(Q[p], k) => P[p].pc = "logos"
    PROVE  FolderOK(Q, f, stops, k)
<1> USE DEF Creating, Rewriting, Writes, Installed
<1>1. \A q \in Process : /\ Linked(Q[q], k) <=> Linked(P[q], k)
                         /\ Creating(Q[q], k) => Creating(P[q], k) /\ Q[q] = P[q]
                         /\ Rewriting(Q[q], k) => Rewriting(P[q], k) /\ Q[q] = P[q]
                         /\ Installed(Q[q], k) => Installed(P[q], k) /\ Q[q].opts = P[q].opts
  OBVIOUS
<1>2. Alone(Q, f, k)
  BY <1>1 DEF FolderOK, Alone
<1>3. Agreed(Q, f, k)
  BY <1>1 DEF FolderOK, Agreed
<1>4. Kept(Q, f, k)
  BY <1>1 DEF FolderOK, Kept
<1>5. Completed(Q, f, stops, k)
  BY DEF FolderOK, Completed
<1>6. QED
  BY <1>2, <1>3, <1>4, <1>5 DEF FolderOK

----------------------------------------------------------------------------
(* All folders and all processes.                                          *)

ProcessOK(r) ==
    /\ IsProcess(r) /\ Installs(r) /\ r.linked \in BOOLEAN /\ r.exit \in Exits
    /\ r.pc = "done" <=> r.exit # "none"
    /\ r.pc \in {"off", "test", "stuck", "look", "mkdir", "open", "dump", "logos", "search", "load",
                 "rewrite", "save", "done"}
    /\ r.pc \notin {"off", "done"} \/ r.linked => r.at \in Place
    /\ r.linked => r.pc \in {"open", "dump", "logos", "rewrite", "save", "done"}
    /\ r.pc \in {"test", "stuck", "look", "mkdir", "open", "dump", "logos"} => r.mode = "install"
    /\ r.pc \in {"search", "load", "rewrite", "save"} => r.mode # "install"
    /\ r.pc \in {"rewrite", "save"} => Outdated(r.spec)

KernelOf(dir, file, argv, meant) == [dir |-> dir, file |-> file, argv |-> argv, meant |-> meant]

KernelOK(f) ==
    /\ f = KernelOf(f.dir, f.file, f.argv, f.meant) /\ f.dir \in BOOLEAN
    /\ ~f.dir => f = Absent
    /\ f.file = "whole" <=> f.argv # <<>>
    /\ f.file = "whole" => UpgradesOnce(f.argv)

\* The fields of a folder.
LEMMA FolderFields ==
    ASSUME NEW a, NEW b, NEW c, NEW d, NEW f, f = KernelOf(a, b, c, d)
    PROVE  /\ f = KernelOf(f.dir, f.file, f.argv, f.meant)
           /\ f.dir = a /\ f.file = b /\ f.argv = c /\ f.meant = d
BY DEF KernelOf

\* The processes P, the folders K, those somebody stopped at, and the stale ones.
AllOK(P, K, stopped, replaced) ==
    /\ P = [p \in Process |-> P[p]] /\ K = [k \in Place |-> K[k]]
    /\ stopped \subseteq Place /\ replaced \subseteq Place
    /\ \A p \in Process : ProcessOK(P[p])
    /\ \A k \in Place : KernelOK(K[k])
    /\ \A p \in Process : P[p].linked => K[P[p].at].dir
    /\ \A k \in Place \ replaced : FolderOK(P, K[k], stopped, k)

CommandsInv == AllOK(proc, kernels, cut, stale)

\* One process changes.
LEMMA OneProcess ==
    ASSUME NEW P, P = [p \in Process |-> P[p]], NEW p \in Process, NEW r, NEW Q,
           Q = [P EXCEPT ![p] = r]
    PROVE  /\ Q = [q \in Process |-> Q[q]] /\ Q[p] = r
           /\ \A q \in Process \ {p} : Q[q] = P[q]
OBVIOUS

\* One folder changes.
LEMMA OneFolder ==
    ASSUME NEW K, K = [k \in Place |-> K[k]], NEW k \in Place, NEW f, NEW L,
           L = [K EXCEPT ![k] = f]
    PROVE  /\ L = [l \in Place |-> L[l]] /\ L[k] = f
           /\ \A l \in Place \ {k} : L[l] = K[l]
OBVIOUS

\* A process that is at no folder yet moves on.
LEMMA Moves ==
    ASSUME NEW P, NEW K, NEW stopped, NEW replaced, AllOK(P, K, stopped, replaced),
           NEW p \in Process, ~P[p].linked, NEW r, ProcessOK(r), ~r.linked,
           NEW Q, Q = [P EXCEPT ![p] = r]
    PROVE  AllOK(Q, K, stopped, replaced)
<1>1. /\ Q = [q \in Process |-> Q[q]] /\ Q[p] = r
      /\ \A q \in Process \ {p} : Q[q] = P[q]
  BY OneProcess DEF AllOK
<1>2. ASSUME NEW k \in Place \ replaced PROVE FolderOK(Q, K[k], stopped, k)
  <2>1. FolderOK(P, K[k], stopped, k)
    BY DEF AllOK
  <2>2. ~Linked(P[p], k) /\ ~Linked(Q[p], k)
    BY <1>1 DEF Linked
  <2>3. QED
    BY <1>1, <2>1, <2>2, Elsewhere
<1>3. QED
  BY <1>1, <1>2 DEF AllOK

\* A process ends, with success if it has installed something or was to try only.
LEMMA Ends ==
    ASSUME NEW P, NEW K, NEW stopped, NEW replaced, AllOK(P, K, stopped, replaced),
           NEW p \in Process, NEW result \in Exits \ {"none"}, NEW r,
           r = ProcessOf("done", result, P[p].mode, P[p].opts, P[p].at, P[p].linked, P[p].spec,
                         P[p].meant),
           result = "0" => P[p].opts.dry \/ P[p].pc = "logos",
           NEW Q, Q = [P EXCEPT ![p] = r],
           NEW stops, stopped \subseteq stops, stops \subseteq Place,
           \A k \in Place : Writes(P[p], k) => k \in stops
    PROVE  AllOK(Q, K, stops, replaced)
<1>1. /\ Q = [q \in Process |-> Q[q]] /\ Q[p] = r
      /\ \A q \in Process \ {p} : Q[q] = P[q]
  BY OneProcess DEF AllOK
<1>2. /\ IsProcess(r) /\ r.pc = "done" /\ r.exit = result /\ r.mode = P[p].mode
      /\ r.opts = P[p].opts /\ r.at = P[p].at /\ r.linked = P[p].linked
  BY Fields
<1>3. ProcessOK(r)
  <2>1. ProcessOK(P[p])
    BY DEF AllOK
  <2>2. Installs(r)
    BY ONLY <1>2, <2>1 DEF ProcessOK, Installs
  <2>3. QED
    BY ONLY <1>2, <2>1, <2>2, result \in Exits \ {"none"} DEF ProcessOK
<1>4. ASSUME NEW k \in Place \ replaced PROVE FolderOK(Q, K[k], stops, k)
  <2>1. FolderOK(P, K[k], stopped, k)
    BY DEF AllOK
  <2>2. CASE Linked(P[p], k)
    <3>1. Linked(Q[p], k) /\ (Installed(Q[p], k) => P[p].pc = "logos")
      BY <1>1, <1>2, <2>2 DEF Linked, Installed
    <3>2. k \in stopped \/ Writes(P[p], k) => k \in stops
      OBVIOUS
    <3>3. QED
      BY <1>1, <1>2, <2>1, <2>2, <3>1, <3>2, Left
  <2>3. CASE ~Linked(P[p], k)
    <3>1. ~Linked(Q[p], k)
      BY <1>1, <1>2, <2>3 DEF Linked
    <3>2. QED
      BY <1>1, <2>1, <2>3, <3>1, Elsewhere
  <2>4. QED
    BY <2>2, <2>3
<1>5. QED
  BY <1>1, <1>2, <1>3, <1>4 DEF AllOK

\* A process at a folder changes together with it: what is to be shown of the step.
LEMMA AtFolder ==
    ASSUME NEW P, NEW K, NEW stopped, NEW replaced, AllOK(P, K, stopped, replaced),
           NEW p \in Process, NEW k \in Place, P[p].at = k,
           NEW r, ProcessOK(r), r.at = k, NEW Q, Q = [P EXCEPT ![p] = r],
           NEW f, KernelOK(f), r.linked => f.dir, K[k].dir => f.dir,
           NEW L, L = [K EXCEPT ![k] = f],
           NEW stale2, replaced \subseteq stale2, stale2 \subseteq Place,
           k \notin stale2 => FolderOK(Q, f, stopped, k)
    PROVE  AllOK(Q, L, stopped, stale2)
<1>1. /\ Q = [q \in Process |-> Q[q]] /\ Q[p] = r
      /\ \A q \in Process \ {p} : Q[q] = P[q]
  BY OneProcess DEF AllOK
<1>2. /\ L = [l \in Place |-> L[l]] /\ L[k] = f
      /\ \A l \in Place \ {k} : L[l] = K[l]
  BY OneFolder DEF AllOK
<1>3. ASSUME NEW l \in Place \ stale2 PROVE FolderOK(Q, L[l], stopped, l)
  <2>1. CASE l = k
    BY <1>2, <2>1
  <2>2. CASE l # k
    <3>1. FolderOK(P, K[l], stopped, l)
      BY DEF AllOK
    <3>2. ~Linked(P[p], l) /\ ~Linked(Q[p], l)
      BY <1>1, <2>2 DEF Linked
    <3>3. FolderOK(Q, K[l], stopped, l)
      BY <1>1, <3>1, <3>2, Elsewhere
    <3>4. QED
      BY <1>2, <2>2, <3>3
  <2>3. QED
    BY <2>1, <2>2
<1>4. \A q \in Process : Q[q].linked => L[Q[q].at].dir
  <2>1. ASSUME NEW q \in Process, Q[q].linked PROVE L[Q[q].at].dir
    <3>1. CASE q = p
      BY <1>1, <1>2, <2>1, <3>1
    <3>2. CASE q # p
      <4>1. Q[q] = P[q] /\ P[q].at \in Place /\ K[P[q].at].dir
        BY <1>1, <2>1, <3>2 DEF AllOK, ProcessOK
      <4>2. QED
        BY <1>2, <4>1
    <3>3. QED
      BY <3>1, <3>2
  <2>2. QED
    BY <2>1
<1>5. QED
  BY <1>1, <1>2, <1>3, <1>4 DEF AllOK

\* The same step when the folder stays as it is.
LEMMA AtSameFolder ==
    ASSUME NEW P, NEW K, NEW stopped, NEW replaced, AllOK(P, K, stopped, replaced),
           NEW p \in Process, NEW k \in Place, P[p].at = k,
           NEW r, ProcessOK(r), r.at = k, NEW Q, Q = [P EXCEPT ![p] = r],
           r.linked => K[k].dir,
           k \notin replaced => FolderOK(Q, K[k], stopped, k)
    PROVE  AllOK(Q, K, stopped, replaced)
<1>1. PICK f : f = K[k]
  OBVIOUS
<1>2. PICK L : L = [K EXCEPT ![k] = f]
  OBVIOUS
<1>3. L = K
  BY <1>1, <1>2 DEF AllOK
<1>4. KernelOK(f) /\ replaced \subseteq Place /\ (r.linked => f.dir) /\ (K[k].dir => f.dir)
      /\ (k \notin replaced => FolderOK(Q, f, stopped, k))
  BY <1>1 DEF AllOK
<1>5. AllOK(Q, L, stopped, replaced)
  BY <1>2, <1>4, AtFolder
<1>6. QED
  BY <1>3, <1>5

\* An installation makes its folder.
LEMMA Makes ==
    ASSUME NEW P, NEW K, NEW stopped, NEW replaced, AllOK(P, K, stopped, replaced),
           NEW p \in Process, NEW k \in Place, P[p].at = k, P[p].pc = "mkdir", ~K[k].dir,
           NEW r, r = [P[p] EXCEPT !.pc = "open", !.linked = TRUE], NEW Q, Q = [P EXCEPT ![p] = r],
           NEW f, f = [K[k] EXCEPT !.dir = TRUE], NEW L, L = [K EXCEPT ![k] = f]
    PROVE  AllOK(Q, L, stopped, replaced)
<1>1. ProcessOK(P[p]) /\ KernelOK(K[k]) /\ K[k] = Absent /\ replaced \subseteq Place
  BY DEF AllOK, KernelOK
<1>2. r = ProcessOf("open", P[p].exit, P[p].mode, P[p].opts, P[p].at, TRUE, P[p].spec, P[p].meant)
  BY <1>1 DEF ProcessOK, IsProcess, ProcessOf
<1>3. /\ IsProcess(r) /\ r.pc = "open" /\ r.exit = P[p].exit /\ r.mode = P[p].mode
      /\ r.opts = P[p].opts /\ r.at = k /\ r.linked = TRUE /\ r.spec = P[p].spec
  BY <1>2 DEF IsProcess, ProcessOf
<1>4. ProcessOK(r)
  <2>1. P[p].exit = "none" /\ P[p].mode = "install" /\ Installs(r)
    BY <1>1, <1>3 DEF ProcessOK, Installs
  <2>2. QED
    BY <1>3, <2>1 DEF ProcessOK, Exits
<1>5. f = KernelOf(TRUE, "none", <<>>, NoOptions)
  <2>1. PICK g : g = K[k]
    OBVIOUS
  <2>2. g = KernelOf(FALSE, "none", <<>>, NoOptions) /\ f = [g EXCEPT !.dir = TRUE]
    BY <1>1, <2>1 DEF Absent, KernelOf
  <2>3. QED
    BY <2>2 DEF KernelOf
<1>6. KernelOK(f) /\ f.dir /\ f.file # "whole"
  <2>1. /\ f = KernelOf(f.dir, f.file, f.argv, f.meant)
        /\ f.dir = TRUE /\ f.file = "none" /\ f.argv = <<>>
    <3>1. PICK dir \in BOOLEAN : dir = TRUE
      OBVIOUS
    <3>2. f = KernelOf(dir, "none", <<>>, NoOptions)
      BY <1>5, <3>1
    <3>3. /\ f = KernelOf(f.dir, f.file, f.argv, f.meant)
          /\ f.dir = dir /\ f.file = "none" /\ f.argv = <<>>
      BY ONLY <3>2, FolderFields
    <3>4. QED
      BY <3>1, <3>3, Zenon
  <2>2. QED
    BY <2>1 DEF KernelOK
<1>7. \A q \in Process : ~Linked(P[q], k)
  BY DEF AllOK, Linked
<1>8. /\ Q[p] = r
      /\ \A q \in Process \ {p} : Q[q] = P[q]
  BY OneProcess DEF AllOK
<1>9. FolderOK(Q, f, stopped, k)
  <2>1. Linked(Q[p], k) /\ Q[p].pc = "open"
    BY <1>3, <1>8 DEF Linked
  <2>2. \A q \in Process \ {p} : ~Linked(Q[q], k)
    BY <1>7, <1>8
  <2>3. QED
    BY <1>6, <2>1, <2>2, Made
<1>10. QED
  BY <1>1, <1>3, <1>4, <1>6, <1>9, AtFolder

\* A process opens the file that is at its place by now, its own or another's.
LEMMA Opens ==
    ASSUME NEW P, NEW K, NEW stopped, NEW replaced, AllOK(P, K, stopped, replaced),
           NEW p \in Process, NEW k \in Place, P[p].at = k, K[k].dir,
           NEW next, \/ P[p].pc = "open" /\ next = "dump"
                     \/ P[p].pc = "rewrite" /\ next = "save",
           NEW r, r = [P[p] EXCEPT !.pc = next, !.linked = TRUE], NEW Q, Q = [P EXCEPT ![p] = r],
           NEW f, f = [K[k] EXCEPT !.file = "torn", !.argv = <<>>], NEW L, L = [K EXCEPT ![k] = f],
           NEW stale2, stale2 = IF P[p].linked THEN replaced ELSE replaced \cup {k}
    PROVE  AllOK(Q, L, stopped, stale2)
<1>1. ProcessOK(P[p]) /\ KernelOK(K[k]) /\ replaced \subseteq Place
  BY DEF AllOK
<1>2. r = ProcessOf(next, P[p].exit, P[p].mode, P[p].opts, P[p].at, TRUE, P[p].spec, P[p].meant)
  BY <1>1 DEF ProcessOK, IsProcess, ProcessOf
<1>3. /\ IsProcess(r) /\ r.pc = next /\ r.exit = P[p].exit /\ r.mode = P[p].mode
      /\ r.opts = P[p].opts /\ r.at = k /\ r.linked = TRUE /\ r.spec = P[p].spec
  BY <1>2 DEF IsProcess, ProcessOf
<1>4. ProcessOK(r)
  <2>1. P[p].exit = "none" /\ Installs(r)
    BY <1>1, <1>3 DEF ProcessOK, Installs
  <2>2. CASE next = "dump"
    <3>1. P[p].mode = "install"
      BY <1>1, <2>2 DEF ProcessOK
    <3>2. QED
      BY <1>3, <2>1, <2>2, <3>1 DEF ProcessOK, Exits
  <2>3. CASE next = "save"
    <3>1. P[p].mode # "install" /\ Outdated(P[p].spec)
      BY <1>1, <2>3 DEF ProcessOK
    <3>2. QED
      BY <1>3, <2>1, <2>3, <3>1 DEF ProcessOK, Exits
  <2>4. QED
    BY <2>2, <2>3
<1>5. f = KernelOf(K[k].dir, "torn", <<>>, K[k].meant)
  BY <1>1 DEF KernelOK, KernelOf
<1>6. KernelOK(f) /\ f.dir /\ f.file = "torn"
  BY <1>1, <1>5 DEF KernelOK, KernelOf
<1>7. /\ Q[p] = r
      /\ \A q \in Process \ {p} : Q[q] = P[q]
  BY OneProcess DEF AllOK
<1>8. k \notin stale2 => FolderOK(Q, f, stopped, k)
  <2>1. ASSUME k \notin stale2 PROVE FolderOK(Q, f, stopped, k)
    <3>1. P[p].linked /\ FolderOK(P, K[k], stopped, k)
      BY <2>1 DEF AllOK
    <3>2. Linked(P[p], k) /\ Linked(r, k)
      BY <1>3, <3>1 DEF Linked
    <3>3. /\ \A q \in Process \ {p} : Q[q] = P[q]
          /\ Linked(Q[p], k) /\ Q[p].spec = P[p].spec
      BY <1>3, <1>7, <3>2
    <3>4. \/ P[p].pc = "open" /\ Q[p].pc = "dump"
          \/ P[p].pc = "rewrite" /\ Q[p].pc = "save"
      BY <1>3, <1>7
    <3>5. f.file = "torn" /\ FolderOK(P, K[k], stopped, k) /\ Linked(P[p], k)
      BY <1>6, <3>1, <3>2
    <3>6. QED
      BY ONLY p \in Process, <3>3, <3>4, <3>5, Opened
  <2>2. QED
    BY <2>1
<1>9. replaced \subseteq stale2 /\ stale2 \subseteq Place
  <2>1. CASE P[p].linked
    BY <1>1, <2>1
  <2>2. CASE ~P[p].linked
    BY <1>1, <2>2
  <2>3. QED
    BY <2>1, <2>2
<1>10. r.at = k /\ (r.linked => f.dir) /\ (K[k].dir => f.dir)
  BY <1>3, <1>6
<1>11. QED
  BY ONLY AllOK(P, K, stopped, replaced), p \in Process, k \in Place, P[p].at = k,
          Q = [P EXCEPT ![p] = r], L = [K EXCEPT ![k] = f],
          <1>4, <1>6, <1>8, <1>9, <1>10, AtFolder

\* What is left to do with an up-to-date specification ends the process.
LEMMA StartedEnds ==
    ASSUME NEW r, IsProcess(r), NEW args
    PROVE  \E result \in {"1", "2", "connects"} : \E opts :
              Started(r, args)
                = ProcessOf("done", result, r.mode, opts, r.at, r.linked, r.spec, r.meant)
<1>1. CASE IsOurs(args)
  BY <1>1, HandOverEnds DEF Started
<1>2. CASE ~IsOurs(args)
  <2>1. PICK t : t = Ended(r, "1")
    OBVIOUS
  <2>2. t = ProcessOf("done", "1", r.mode, r.opts, r.at, r.linked, r.spec, r.meant)
    BY <2>1 DEF IsProcess, ProcessOf, Ended
  <2>3. Started(r, args) = t
    BY <1>2, <2>1 DEF Started
  <2>4. QED
    BY <2>2, <2>3
<1>3. QED
  BY <1>1, <1>2

\* What a kernel.json may become.
LEMMA WrittenFile ==
    ASSUME NEW f, KernelOK(f), f.dir, NEW args, args # <<>>, UpgradesOnce(args), NEW options, NEW g,
           \/ g = [f EXCEPT !.file = "whole", !.argv = args, !.meant = options]
           \/ g = [f EXCEPT !.file = "torn", !.argv = <<>>]
    PROVE  KernelOK(g) /\ g.dir
<1>1. f = KernelOf(f.dir, f.file, f.argv, f.meant)
  BY DEF KernelOK
<1>2. \/ g = KernelOf(f.dir, "whole", args, options)
      \/ g = KernelOf(f.dir, "torn", <<>>, f.meant)
  BY <1>1 DEF KernelOf
<1>3. CASE g = KernelOf(f.dir, "whole", args, options)
  <2>1. /\ g = KernelOf(g.dir, g.file, g.argv, g.meant)
        /\ g.dir = f.dir /\ g.file = "whole" /\ g.argv = args
    BY ONLY <1>3, FolderFields
  <2>2. QED
    BY <2>1 DEF KernelOK
<1>4. CASE g = KernelOf(f.dir, "torn", <<>>, f.meant)
  <2>1. /\ g = KernelOf(g.dir, g.file, g.argv, g.meant)
        /\ g.dir = f.dir /\ g.file = "torn" /\ g.argv = <<>>
    BY ONLY <1>4, FolderFields
  <2>2. QED
    BY <2>1 DEF KernelOK
<1>5. QED
  BY <1>2, <1>3, <1>4

\* So a file that is opened and filled, or filled by two.
LEMMA Fills ==
    ASSUME NEW P, NEW K, NEW stopped, NEW replaced, AllOK(P, K, stopped, replaced),
           NEW p \in Process, NEW k \in Place, P[p].at = k,
           NEW r, ProcessOK(r), r.at = k, NEW Q, Q = [P EXCEPT ![p] = r],
           NEW f, KernelOK(f), f.dir, NEW L, L = [K EXCEPT ![k] = f],
           k \notin replaced => FolderOK(Q, f, stopped, k)
    PROVE  AllOK(Q, L, stopped, replaced)
<1>1. replaced \subseteq replaced /\ replaced \subseteq Place
  BY DEF AllOK
<1>2. QED
  BY <1>1, AtFolder

\* json.dump() by process r, of folders K and L.
Wrote(r, K, L, args, options) ==
    LET f == K[r.at]
        whole == [f EXCEPT !.file = "whole", !.argv = args, !.meant = options]
        mixed == [f EXCEPT !.file = "torn", !.argv = <<>>]
    IN  IF ~r.linked THEN L = K
        ELSE \/ L = [K EXCEPT ![r.at] = whole]
             \/ f.file = "whole" /\ f.argv # args /\ L = [K EXCEPT ![r.at] = mixed]

\* An installation writes its kernel.json.
LEMMA Dumps ==
    ASSUME NEW P, NEW K, NEW stopped, NEW replaced, AllOK(P, K, stopped, replaced),
           NEW p \in Process, NEW k \in Place, P[p].at = k, P[p].pc = "dump",
           NEW r, r = [P[p] EXCEPT !.pc = "logos"], NEW Q, Q = [P EXCEPT ![p] = r],
           NEW args, args = KernelArgs(P[p].opts), NEW options,
           NEW L, Wrote(P[p], K, L, args, options)
    PROVE  AllOK(Q, L, stopped, replaced)
<1>0. PICK whole, mixed : /\ whole = [K[k] EXCEPT !.file = "whole", !.argv = args, !.meant = options]
                          /\ mixed = [K[k] EXCEPT !.file = "torn", !.argv = <<>>]
  OBVIOUS
<1>1. ProcessOK(P[p]) /\ KernelOK(K[k])
  BY DEF AllOK
<1>2. r = ProcessOf("logos", P[p].exit, P[p].mode, P[p].opts, P[p].at, P[p].linked, P[p].spec,
                    P[p].meant)
  BY <1>1 DEF ProcessOK, IsProcess, ProcessOf
<1>3. /\ IsProcess(r) /\ r.pc = "logos" /\ r.exit = P[p].exit /\ r.mode = P[p].mode
      /\ r.opts = P[p].opts /\ r.at = k /\ r.linked = P[p].linked
  BY <1>2 DEF IsProcess, ProcessOf
<1>4. P[p].exit = "none" /\ P[p].mode = "install" /\ Installs(r)
  BY <1>1, <1>3 DEF ProcessOK, Installs
<1>5. ProcessOK(r)
  BY <1>1, <1>3, <1>4 DEF ProcessOK
<1>6. args # <<>> /\ UpgradesOnce(args)
  <2>1. Sayable(P[p].opts)
    BY <1>3, <1>4 DEF Installs
  <2>2. args # <<>> /\ Deprecated(args) = 0
    BY <2>1, InstalledIsNew
  <2>3. QED
    BY ONLY <2>2 DEF UpgradesOnce
<1>7. CASE ~P[p].linked
  <2>1. L = K /\ ~r.linked
    BY <1>3, <1>7 DEF Wrote
  <2>2. AllOK(Q, K, stopped, replaced)
    BY ONLY AllOK(P, K, stopped, replaced), p \in Process, <1>7, <1>5, <2>1,
            Q = [P EXCEPT ![p] = r], Moves
  <2>3. QED
    BY <2>1, <2>2
<1>8. CASE P[p].linked
  <2>1. \/ L = [K EXCEPT ![k] = whole]
        \/ K[k].file = "whole" /\ K[k].argv # args /\ L = [K EXCEPT ![k] = mixed]
    BY <1>0, <1>8 DEF Wrote
  <2>2. whole.file = "whole" /\ whole.argv = args
    <3>1. PICK h : h = K[k]
      OBVIOUS
    <3>2. h = KernelOf(h.dir, h.file, h.argv, h.meant)
          /\ whole = [h EXCEPT !.file = "whole", !.argv = args, !.meant = options]
      BY <1>0, <1>1, <3>1 DEF KernelOK
    <3>3. QED
      BY ONLY <3>2 DEF KernelOf
  <2>3. ASSUME k \notin replaced
        PROVE  FolderOK(Q, whole, stopped, k) /\ K[k].file # "whole"
    <3>1. FolderOK(P, K[k], stopped, k)
      BY <2>3 DEF AllOK
    <3>2. Q[p] = r /\ \A q \in Process \ {p} : Q[q] = P[q]
      BY OneProcess DEF AllOK
    <3>3. Linked(P[p], k) /\ Q[p].pc = "logos" /\ whole.argv = KernelArgs(Q[p].opts)
      <4>1. Q[p].pc = "logos" /\ Q[p].opts = P[p].opts
        BY <1>3, <3>2
      <4>2. whole.argv = KernelArgs(Q[p].opts)
        BY <2>2, <4>1
      <4>3. Linked(P[p], k)
        BY <1>8 DEF Linked
      <4>4. QED
        BY <4>1, <4>2, <4>3
    <3>4. QED
      BY ONLY p \in Process, P[p].pc = "dump", <2>2, <3>1, <3>2, <3>3, Filled
  <2>4. /\ r.at = k
        /\ k \notin replaced => FolderOK(Q, whole, stopped, k)
        /\ k \notin replaced => (K[k].file = "whole" => K[k].argv = args)
    BY <1>3, <2>3
  <2>5. PICK f \in {whole, mixed} : L = [K EXCEPT ![k] = f] /\ (f = whole \/ k \in replaced)
    BY <2>1, <2>4
  <2>6. k \notin replaced => FolderOK(Q, f, stopped, k)
    BY <2>4, <2>5
  <2>7. KernelOK(f) /\ f.dir
    <3>1. PICK h : h = K[k]
      OBVIOUS
    <3>2. \/ f = [h EXCEPT !.file = "whole", !.argv = args, !.meant = options]
          \/ f = [h EXCEPT !.file = "torn", !.argv = <<>>]
      BY <1>0, <2>5, <3>1
    <3>3. KernelOK(h) /\ h.dir
      BY <1>1, <1>8, <3>1 DEF AllOK
    <3>4. QED
      BY ONLY <3>2, <3>3, <1>6, WrittenFile
  <2>8. QED
    BY ONLY AllOK(P, K, stopped, replaced), p \in Process, k \in Place, P[p].at = k, <1>5,
            Q = [P EXCEPT ![p] = r], <2>4, <2>5, <2>6, <2>7, Fills
<1>9. QED
  BY <1>7, <1>8

\* A start or a synchronisation writes the upgraded one.
LEMMA Saves ==
    ASSUME NEW P, NEW K, NEW stopped, NEW replaced, AllOK(P, K, stopped, replaced),
           NEW p \in Process, NEW k \in Place, P[p].at = k, P[p].pc = "save",
           NEW args, args = Upgraded(P[p].spec),
           NEW r, r = Started(P[p], args), NEW Q, Q = [P EXCEPT ![p] = r], NEW options,
           NEW L, Wrote(P[p], K, L, args, options)
    PROVE  AllOK(Q, L, stopped, replaced)
<1>0. PICK whole, mixed : /\ whole = [K[k] EXCEPT !.file = "whole", !.argv = args, !.meant = options]
                          /\ mixed = [K[k] EXCEPT !.file = "torn", !.argv = <<>>]
  OBVIOUS
<1>1. ProcessOK(P[p]) /\ KernelOK(K[k])
  BY DEF AllOK
<1>2. IsProcess(P[p]) /\ P[p].mode # "install" /\ Outdated(P[p].spec)
  BY <1>1 DEF ProcessOK
<1>3. /\ IsProcess(r) /\ r.pc = "done" /\ r.exit \in {"1", "2", "connects"} /\ r.mode = P[p].mode
      /\ r.at = k /\ r.linked = P[p].linked
  <2>1. PICK result, opts :
            /\ result \in {"1", "2", "connects"}
            /\ r = ProcessOf("done", result, P[p].mode, opts, P[p].at, P[p].linked, P[p].spec, P[p].meant)
    BY <1>2, StartedEnds
  <2>2. QED
    BY <2>1 DEF IsProcess, ProcessOf
<1>4. ProcessOK(r)
  <2>1. Installs(r) /\ r.exit \in Exits /\ r.exit # "none"
    BY <1>2, <1>3 DEF Installs, Exits
  <2>2. QED
    BY <1>1, <1>3, <2>1 DEF ProcessOK
<1>5. args # <<>> /\ UpgradesOnce(args)
  BY <1>2 DEF Outdated, UpgradesOnce
<1>6. CASE ~P[p].linked
  <2>1. L = K /\ ~r.linked
    BY <1>3, <1>6 DEF Wrote
  <2>2. AllOK(Q, K, stopped, replaced)
    BY ONLY AllOK(P, K, stopped, replaced), p \in Process, <1>6, <1>4, <2>1,
            Q = [P EXCEPT ![p] = r], Moves
  <2>3. QED
    BY <2>1, <2>2
<1>7. CASE P[p].linked
  <2>1. \/ L = [K EXCEPT ![k] = whole]
        \/ K[k].file = "whole" /\ K[k].argv # args /\ L = [K EXCEPT ![k] = mixed]
    BY <1>0, <1>7 DEF Wrote
  <2>2. whole.file = "whole" /\ whole.argv = args
    <3>1. PICK h : h = K[k]
      OBVIOUS
    <3>2. h = KernelOf(h.dir, h.file, h.argv, h.meant)
          /\ whole = [h EXCEPT !.file = "whole", !.argv = args, !.meant = options]
      BY <1>0, <1>1, <3>1 DEF KernelOK
    <3>3. QED
      BY ONLY <3>2 DEF KernelOf
  <2>3. ASSUME k \notin replaced
        PROVE  FolderOK(Q, whole, stopped, k) /\ (K[k].file = "whole" => K[k].argv = args)
    <3>1. FolderOK(P, K[k], stopped, k)
      BY <2>3 DEF AllOK
    <3>2. Q[p] = r /\ \A q \in Process \ {p} : Q[q] = P[q]
      BY OneProcess DEF AllOK
    <3>3. Linked(P[p], k) /\ Q[p].pc = "done" /\ Q[p].mode # "install"
      BY <1>2, <1>3, <1>7, <3>2 DEF Linked
    <3>4. QED
      BY ONLY p \in Process, P[p].pc = "save", args = Upgraded(P[p].spec), <2>2, <3>1, <3>2, <3>3,
              Saved
  <2>4. /\ r.at = k
        /\ k \notin replaced => FolderOK(Q, whole, stopped, k)
        /\ k \notin replaced => (K[k].file = "whole" => K[k].argv = args)
    BY <1>3, <2>3
  <2>5. PICK f \in {whole, mixed} : L = [K EXCEPT ![k] = f] /\ (f = whole \/ k \in replaced)
    BY <2>1, <2>4
  <2>6. k \notin replaced => FolderOK(Q, f, stopped, k)
    BY <2>4, <2>5
  <2>7. KernelOK(f) /\ f.dir
    <3>1. PICK h : h = K[k]
      OBVIOUS
    <3>2. \/ f = [h EXCEPT !.file = "whole", !.argv = args, !.meant = options]
          \/ f = [h EXCEPT !.file = "torn", !.argv = <<>>]
      BY <1>0, <2>5, <3>1
    <3>3. KernelOK(h) /\ h.dir
      BY <1>1, <1>7, <3>1 DEF AllOK
    <3>4. QED
      BY ONLY <3>2, <3>3, <1>5, WrittenFile
  <2>8. QED
    BY ONLY AllOK(P, K, stopped, replaced), p \in Process, k \in Place, P[p].at = k, <1>4,
            Q = [P EXCEPT ![p] = r], <2>4, <2>5, <2>6, <2>7, Fills
<1>8. QED
  BY <1>6, <1>7

\* A start or a synchronisation has read a kernel.json.
LEMMA Loads ==
    ASSUME NEW P, NEW K, NEW stopped, NEW replaced, AllOK(P, K, stopped, replaced),
           NEW p \in Process, NEW k \in Place, P[p].at = k, P[p].pc = "load",
           NEW args, args = K[k].argv, K[k].file = "whole", ~LacksValue(args),
           NEW options, NEW read,
           read = [P[p] EXCEPT !.linked = TRUE, !.spec = args, !.meant = options],
           NEW r, r = IF Deprecated(args) = 0 THEN Started(read, args)
                      ELSE [read EXCEPT !.pc = "rewrite"],
           NEW Q, Q = [P EXCEPT ![p] = r]
    PROVE  AllOK(Q, K, stopped, replaced)
<1>1. ProcessOK(P[p]) /\ KernelOK(K[k]) /\ ~Linked(P[p], k)
  BY DEF AllOK, ProcessOK, Linked
<1>2. read = ProcessOf("load", P[p].exit, P[p].mode, P[p].opts, P[p].at, TRUE, args, options)
  BY <1>1 DEF ProcessOK, IsProcess, ProcessOf
<1>3. /\ IsProcess(read) /\ read.pc = "load" /\ read.exit = P[p].exit /\ read.mode = P[p].mode
      /\ read.at = k /\ read.linked = TRUE /\ read.spec = args
  BY <1>2 DEF IsProcess, ProcessOf
<1>4. P[p].exit = "none" /\ P[p].mode # "install"
  BY <1>1 DEF ProcessOK
<1>5. K[k].dir /\ args # <<>> /\ UpgradesOnce(args)
  BY <1>1 DEF KernelOK, Absent
<1>6. /\ IsProcess(r) /\ r.mode # "install" /\ r.at = k /\ r.linked = TRUE /\ r.spec = args
      /\ \/ r.pc = "done" /\ r.exit \in {"1", "2", "connects"}
         \/ r.pc = "rewrite" /\ r.exit = "none" /\ Deprecated(args) # 0
  <2>1. CASE Deprecated(args) = 0
    <3>1. PICK result, opts :
              /\ result \in {"1", "2", "connects"}
              /\ r = ProcessOf("done", result, read.mode, opts, read.at, read.linked, read.spec, read.meant)
      <4>1. r = Started(read, args)
        BY <2>1
      <4>2. QED
        BY ONLY <1>3, <4>1, StartedEnds
    <3>2. IsProcess(r) /\ r.pc = "done" /\ r.exit = result /\ r.mode = read.mode
          /\ r.at = read.at /\ r.linked = read.linked /\ r.spec = read.spec
      BY ONLY <3>1 DEF IsProcess, ProcessOf
    <3>3. QED
      BY <1>3, <1>4, <3>1, <3>2
  <2>2. CASE Deprecated(args) # 0
    <3>1. r = [read EXCEPT !.pc = "rewrite"]
      BY <2>2
    <3>2. r = ProcessOf("rewrite", read.exit, read.mode, read.opts, read.at, read.linked, read.spec,
                        read.meant)
      BY ONLY <1>3, <3>1 DEF IsProcess, ProcessOf
    <3>3. IsProcess(r) /\ r.pc = "rewrite" /\ r.exit = read.exit /\ r.mode = read.mode
          /\ r.at = read.at /\ r.linked = read.linked /\ r.spec = read.spec
      BY ONLY <3>2 DEF IsProcess, ProcessOf
    <3>4. QED
      BY <1>3, <1>4, <2>2, <3>3
  <2>3. QED
    BY <2>1, <2>2
<1>7. ProcessOK(r)
  <2>1. Installs(r) /\ r.exit \in Exits
    BY <1>6 DEF Installs, Exits
  <2>2. r.pc = "rewrite" => Outdated(r.spec)
    BY <1>5, <1>6 DEF UpgradesOnce, Outdated
  <2>3. QED
    BY ONLY <1>6, <2>1, <2>2, k \in Place DEF ProcessOK
<1>8. k \notin replaced => FolderOK(Q, K[k], stopped, k)
  <2>1. ASSUME k \notin replaced PROVE FolderOK(Q, K[k], stopped, k)
    <3>1. FolderOK(P, K[k], stopped, k)
      BY <2>1 DEF AllOK
    <3>2. Q[p] = r /\ \A q \in Process \ {p} : Q[q] = P[q]
      BY OneProcess DEF AllOK
    <3>3. /\ Q[p].mode # "install" /\ Q[p].spec = K[k].argv
          /\ Q[p].pc = "done" \/ (Q[p].pc = "rewrite" /\ Deprecated(K[k].argv) # 0)
      BY <1>6, <3>2
    <3>4. \A q \in Process : /\ Rewriting(P[q], k) => Outdated(P[q].spec)
                             /\ Installed(P[q], k) => Deprecated(KernelArgs(P[q].opts)) = 0
      BY InstalledIsNew DEF AllOK, ProcessOK, Installs, Rewriting, Installed
    <3>5. QED
      BY ONLY p \in Process, K[k].file = "whole", <1>1, <3>1, <3>2, <3>3, <3>4, Loaded
  <2>2. QED
    BY <2>1
<1>9. QED
  BY ONLY AllOK(P, K, stopped, replaced), p \in Process, k \in Place, P[p].at = k,
          Q = [P EXCEPT ![p] = r], <1>5, <1>6, <1>7, <1>8, AtSameFolder

\* A process that loses its folder.
LEMMA Unlinked ==
    ASSUME NEW r, ProcessOK(r), NEW s, s = [r EXCEPT !.linked = FALSE]
    PROVE  ProcessOK(s) /\ s.at = r.at /\ ~s.linked
<1>1. s = ProcessOf(r.pc, r.exit, r.mode, r.opts, r.at, FALSE, r.spec, r.meant)
  BY DEF ProcessOK, IsProcess, ProcessOf
<1>2. /\ IsProcess(s) /\ s.pc = r.pc /\ s.exit = r.exit /\ s.mode = r.mode
      /\ s.opts = r.opts /\ s.at = r.at /\ s.linked = FALSE /\ s.spec = r.spec
  BY <1>1 DEF IsProcess, ProcessOf
<1>3. Installs(s)
  BY <1>2 DEF ProcessOK, Installs
<1>4. QED
  BY ONLY ProcessOK(r), <1>2, <1>3 DEF ProcessOK

\* What happens elsewhere to several processes is nothing here either.
LEMMA AllElsewhere ==
    ASSUME NEW P, NEW Q, NEW f, NEW stopped, NEW stops, NEW k, FolderOK(P, f, stopped, k),
           k \in stopped => k \in stops,
           \A q \in Process : Linked(P[q], k) \/ Linked(Q[q], k) => Q[q] = P[q]
    PROVE  FolderOK(Q, f, stops, k)
<1> USE DEF Creating, Rewriting, Writes, Installed
<1>1. Alone(Q, f, k)
  BY DEF FolderOK, Alone
<1>2. Agreed(Q, f, k)
  BY DEF FolderOK, Agreed
<1>3. Kept(Q, f, k)
  BY DEF FolderOK, Kept
<1>4. Completed(Q, f, stops, k)
  BY DEF FolderOK, Completed
<1>5. QED
  BY <1>1, <1>2, <1>3, <1>4 DEF FolderOK

\* The user deletes a folder, whoever is at it.
LEMMA Removes ==
    ASSUME NEW P, NEW K, NEW stopped, NEW replaced, AllOK(P, K, stopped, replaced), NEW k \in Place,
           NEW Q, Q = [q \in Process |-> IF P[q].at = k THEN [P[q] EXCEPT !.linked = FALSE] ELSE P[q]],
           NEW L, L = [K EXCEPT ![k] = Absent]
    PROVE  AllOK(Q, L, stopped \ {k}, replaced \ {k})
<1>1. /\ L = [l \in Place |-> L[l]] /\ L[k] = Absent
      /\ \A l \in Place \ {k} : L[l] = K[l]
  BY OneFolder DEF AllOK
<1>2. Q = [q \in Process |-> Q[q]]
  OBVIOUS
<1>3. ASSUME NEW q \in Process
      PROVE  /\ ProcessOK(Q[q]) /\ Q[q].at = P[q].at
             /\ IF P[q].at = k THEN ~Q[q].linked ELSE Q[q] = P[q]
  <2>1. ProcessOK(P[q])
    BY DEF AllOK
  <2>2. CASE P[q].at = k
    <3>1. PICK s : s = [P[q] EXCEPT !.linked = FALSE]
      OBVIOUS
    <3>2. Q[q] = s
      BY <2>2, <3>1
    <3>3. QED
      BY ONLY <2>1, <2>2, <3>1, <3>2, Unlinked
  <2>3. CASE P[q].at # k
    BY <2>1, <2>3
  <2>4. QED
    BY <2>2, <2>3
<1>4. Absent.dir = FALSE /\ Absent.file = "none" /\ Absent.argv = <<>>
      /\ Absent = KernelOf(Absent.dir, Absent.file, Absent.argv, Absent.meant)
  BY DEF Absent, KernelOf
<1>5. \A l \in Place : KernelOK(L[l])
  <2>1. KernelOK(Absent)
    BY ONLY <1>4 DEF KernelOK
  <2>2. \A l \in Place : KernelOK(K[l])
    BY DEF AllOK
  <2>3. QED
    BY ONLY <1>1, <2>1, <2>2
<1>6. \A q \in Process : Q[q].linked => L[Q[q].at].dir
  <2>1. ASSUME NEW q \in Process, Q[q].linked PROVE L[Q[q].at].dir
    <3>1. Q[q] = P[q] /\ P[q].at # k
      BY ONLY <1>3, <2>1
    <3>2. P[q].at \in Place /\ K[P[q].at].dir
      BY <2>1, <3>1 DEF AllOK, ProcessOK
    <3>3. QED
      BY ONLY <1>1, <3>1, <3>2
  <2>2. QED
    BY <2>1
<1>7. ASSUME NEW l \in Place \ (replaced \ {k}) PROVE FolderOK(Q, L[l], stopped \ {k}, l)
  <2>1. CASE l = k
    <3>1. \A q \in Process : ~Linked(Q[q], l)
      BY <1>3, <2>1 DEF Linked
    <3>2. Alone(Q, L[l], l) /\ Agreed(Q, L[l], l) /\ Kept(Q, L[l], l)
      BY ONLY <3>1 DEF Alone, Agreed, Kept, Creating, Rewriting, Installed
    <3>3. ~L[l].dir
      BY ONLY <1>1, <1>4, <2>1
    <3>4. QED
      BY ONLY <3>2, <3>3 DEF FolderOK, Completed
  <2>2. CASE l # k
    <3>1. FolderOK(P, K[l], stopped, l)
      BY <2>2 DEF AllOK
    <3>2. \A q \in Process : Linked(P[q], l) \/ Linked(Q[q], l) => Q[q] = P[q]
      BY <1>3, <2>2 DEF Linked
    <3>3. L[l] = K[l] /\ (l \in stopped => l \in stopped \ {k})
      BY <1>1, <2>2
    <3>4. QED
      BY ONLY <3>1, <3>2, <3>3, AllElsewhere
  <2>3. QED
    BY <2>1, <2>2
<1>8. stopped \ {k} \subseteq Place /\ replaced \ {k} \subseteq Place
  BY DEF AllOK
<1>9. \A q \in Process : ProcessOK(Q[q])
  BY <1>3
<1>10. QED
  BY ONLY <1>1, <1>2, <1>5, <1>6, <1>7, <1>8, <1>9 DEF AllOK

----------------------------------------------------------------------------
(* The steps.                                                              *)

\* A process at work is at a place of kernels.
LEMMA AtPlace ==
    ASSUME CommandsInv, NEW p \in Process, proc[p].pc \notin {"off", "done"}
    PROVE  /\ ProcessOK(proc[p]) /\ IsProcess(proc[p]) /\ proc[p].exit = "none"
           /\ proc[p].at \in Place /\ KernelOK(kernels[proc[p].at])
<1>1. ProcessOK(proc[p])
  BY DEF CommandsInv, AllOK
<1>2. IsProcess(proc[p]) /\ proc[p].exit = "none" /\ proc[p].at \in Place
  BY <1>1 DEF ProcessOK
<1>3. QED
  BY <1>1, <1>2 DEF CommandsInv, AllOK

\* A process ends.
LEMMA LeaveStep ==
    ASSUME CommandsInv, NEW p \in Process, NEW result \in Exits \ {"none"}, Leave(p, result),
           result = "0" => proc[p].opts.dry \/ proc[p].pc = "logos"
    PROVE  CommandsInv'
<1>1. PICK r : r = Ended(proc[p], result)
  OBVIOUS
<1>2. r = ProcessOf("done", result, proc[p].mode, proc[p].opts, proc[p].at, proc[p].linked,
                    proc[p].spec, proc[p].meant)
  <2>1. IsProcess(proc[p])
    BY DEF CommandsInv, AllOK, ProcessOK
  <2>2. PICK s : s = proc[p]
    OBVIOUS
  <2>3. r = ProcessOf("done", result, s.mode, s.opts, s.at, s.linked, s.spec, s.meant)
    BY ONLY <1>1, <2>1, <2>2 DEF IsProcess, ProcessOf, Ended
  <2>4. QED
    BY <2>2, <2>3
<1>3. proc' = [proc EXCEPT ![p] = r] /\ kernels' = kernels /\ stale' = stale
      /\ cut' = cut \cup {k \in Place : Writing(p, k)}
  BY <1>1 DEF Leave, Becomes
<1>4. AllOK(proc, kernels, cut, stale)
  BY DEF CommandsInv
<1>5. cut \subseteq cut' /\ cut' \subseteq Place
  BY <1>3, <1>4 DEF AllOK
<1>6. \A k \in Place : Writes(proc[p], k) => k \in cut'
  BY <1>3 DEF Writes, Linked, Writing
<1>7. AllOK(proc', kernels, cut', stale)
  BY ONLY p \in Process, result \in Exits \ {"none"}, <1>2, <1>3, <1>4, <1>5, <1>6,
          result = "0" => proc[p].opts.dry \/ proc[p].pc = "logos", Ends
<1>8. QED
  BY <1>3, <1>7 DEF CommandsInv

\* A process at no folder moves on.
LEMMA MoveStep ==
    ASSUME CommandsInv, NEW p \in Process, ~proc[p].linked, NEW r, ProcessOK(r), ~r.linked,
           Becomes(p, r), UNCHANGED <<kernels, cut, stale>>
    PROVE  CommandsInv'
<1>1. proc' = [proc EXCEPT ![p] = r] /\ kernels' = kernels /\ cut' = cut /\ stale' = stale
  BY DEF Becomes
<1>2. AllOK(proc, kernels, cut, stale)
  BY DEF CommandsInv
<1>3. AllOK(proc', kernels, cut, stale)
  BY ONLY p \in Process, ~proc[p].linked, ProcessOK(r), ~r.linked, <1>1, <1>2, Moves
<1>4. QED
  BY <1>1, <1>3 DEF CommandsInv

\* An installation goes on to its next check.
LEMMA GotoStep ==
    ASSUME CommandsInv, NEW p \in Process, proc[p].pc \in {"test", "look"},
           NEW label \in {"stuck", "look", "mkdir"}, Goto(p, label),
           UNCHANGED <<kernels, cut, stale>>
    PROVE  CommandsInv'
<1>1. PICK r : r = [proc[p] EXCEPT !.pc = label]
  OBVIOUS
<1>2. ProcessOK(proc[p]) /\ IsProcess(proc[p]) /\ proc[p].exit = "none" /\ proc[p].at \in Place
  BY AtPlace
<1>3. r = ProcessOf(label, proc[p].exit, proc[p].mode, proc[p].opts, proc[p].at, proc[p].linked,
                    proc[p].spec, proc[p].meant)
  BY <1>1, <1>2 DEF IsProcess, ProcessOf
<1>4. /\ IsProcess(r) /\ r.pc = label /\ r.exit = proc[p].exit /\ r.mode = proc[p].mode
      /\ r.opts = proc[p].opts /\ r.at = proc[p].at /\ r.linked = proc[p].linked
  BY ONLY <1>3 DEF IsProcess, ProcessOf
<1>5. proc[p].linked = FALSE /\ proc[p].mode = "install"
  BY <1>2 DEF ProcessOK
<1>6. ProcessOK(r) /\ ~r.linked
  <2>1. Installs(r) /\ r.exit \in Exits
    BY <1>2, <1>4 DEF ProcessOK, Installs
  <2>2. QED
    BY ONLY label \in {"stuck", "look", "mkdir"}, <1>2, <1>4, <1>5, <2>1 DEF ProcessOK
<1>7. Becomes(p, r)
  BY <1>1 DEF Goto
<1>8. QED
  BY <1>5, <1>6, <1>7, MoveStep

\* A command starts.
LEMMA RunStep ==
    ASSUME CommandsInv, NEW p \in Process, Run(p)
    PROVE  CommandsInv'
<1>1. PICK r \in Dispatched : Becomes(p, r)
  BY DEF Run
<1>2. Fresh(r) /\ (r.pc # "done" => r.at \in Place)
  BY DispatchedIsFresh
<1>3. ProcessOK(r) /\ ~r.linked
  BY ONLY <1>2 DEF Fresh, ProcessOK, Exits
<1>4. proc[p].pc = "off" /\ ProcessOK(proc[p])
  BY DEF Run, At, CommandsInv, AllOK
<1>5. ~proc[p].linked
  BY <1>4 DEF ProcessOK
<1>6. QED
  BY <1>1, <1>3, <1>5, MoveStep DEF Run

\* install_kernel() before it writes.
LEMMA CheckSteps ==
    ASSUME CommandsInv, NEW p \in Process, Test(p) \/ TestBreaks(p) \/ Look(p)
    PROVE  CommandsInv'
<1>1. {"0", "1", "2"} \subseteq Exits \ {"none"}
  BY DEF Exits
<1>2. proc[p].pc \in {"test", "stuck", "look"}
  BY DEF Test, TestBreaks, Look, At
<1>3. CASE \E result \in {"1", "2"} : Leave(p, result)
  BY <1>1, <1>2, <1>3, LeaveStep
<1>4. CASE proc[p].opts.dry /\ Leave(p, "0")
  BY <1>1, <1>2, <1>4, LeaveStep
<1>5. CASE \E label \in {"stuck", "look", "mkdir"} :
              proc[p].pc \in {"test", "look"} /\ Goto(p, label) /\ UNCHANGED <<kernels, cut, stale>>
  BY <1>5, GotoStep
<1>6. \/ \E result \in {"1", "2"} : Leave(p, result)
      \/ proc[p].opts.dry /\ Leave(p, "0")
      \/ \E label \in {"stuck", "look", "mkdir"} :
              proc[p].pc \in {"test", "look"} /\ Goto(p, label) /\ UNCHANGED <<kernels, cut, stale>>
  BY DEF Test, TestBreaks, Look, At
<1>7. QED
  BY <1>3, <1>4, <1>5, <1>6

\* It makes its folder.
LEMMA MakeStep ==
    ASSUME CommandsInv, NEW p \in Process, MakeDir(p)
    PROVE  CommandsInv'
<1>1. PICK k \in Place : k = proc[p].at
  BY AtPlace DEF MakeDir, At
<1>2. PICK r, f : r = [proc[p] EXCEPT !.pc = "open", !.linked = TRUE] /\ f = [kernels[k] EXCEPT !.dir = TRUE]
  OBVIOUS
<1>3. /\ proc' = [proc EXCEPT ![p] = r] /\ kernels' = [kernels EXCEPT ![k] = f]
      /\ cut' = cut /\ stale' = stale /\ proc[p].pc = "mkdir" /\ ~kernels[k].dir
  BY <1>1, <1>2 DEF MakeDir, Becomes, Put, Here, CanMake, At
<1>4. AllOK(proc, kernels, cut, stale)
  BY DEF CommandsInv
<1>5. AllOK(proc', kernels', cut, stale)
  BY ONLY p \in Process, <1>1, <1>2, <1>3, <1>4, Makes
<1>6. QED
  BY <1>3, <1>5 DEF CommandsInv

\* A kernel.json is opened for writing.
LEMMA OpenSteps ==
    ASSUME CommandsInv, NEW p \in Process, OpenNew(p) \/ Rewrite(p)
    PROVE  CommandsInv'
<1>1. PICK k \in Place : k = proc[p].at
  BY AtPlace DEF OpenNew, Rewrite, At
<1>2. PICK next : /\ OpenFile(p, next)
                  /\ \/ proc[p].pc = "open" /\ next = "dump"
                     \/ proc[p].pc = "rewrite" /\ next = "save"
  BY DEF OpenNew, Rewrite, At
<1>3. PICK r, f : /\ r = [proc[p] EXCEPT !.pc = next, !.linked = TRUE]
                  /\ f = [kernels[k] EXCEPT !.file = "torn", !.argv = <<>>]
  OBVIOUS
<1>4. /\ proc' = [proc EXCEPT ![p] = r] /\ kernels' = [kernels EXCEPT ![k] = f] /\ cut' = cut
      /\ stale' = (IF proc[p].linked THEN stale ELSE stale \cup {k}) /\ kernels[k].dir
  BY <1>1, <1>2, <1>3 DEF OpenFile, Becomes, Put, Here
<1>5. AllOK(proc, kernels, cut, stale)
  BY DEF CommandsInv
<1>6. AllOK(proc', kernels', cut, stale')
  BY ONLY p \in Process, <1>1, <1>2, <1>3, <1>4, <1>5, Opens
<1>7. QED
  BY <1>4, <1>6 DEF CommandsInv

\* An installation fills it.
LEMMA DumpStep ==
    ASSUME CommandsInv, NEW p \in Process, Dump(p)
    PROVE  CommandsInv'
<1>1. PICK k \in Place : k = proc[p].at
  BY AtPlace DEF Dump, At
<1>2. PICK args, options : args = KernelArgs(proc[p].opts) /\ options = proc[p].opts
  OBVIOUS
<1>3. PICK r : r = [proc[p] EXCEPT !.pc = "logos"]
  OBVIOUS
<1>4. /\ proc' = [proc EXCEPT ![p] = r] /\ cut' = cut /\ stale' = stale /\ proc[p].pc = "dump"
      /\ Wrote(proc[p], kernels, kernels', args, options)
  BY <1>1, <1>2, <1>3 DEF Wrote, Dump, Dumped, Goto, Becomes, Put, Here, At
<1>5. AllOK(proc, kernels, cut, stale)
  BY DEF CommandsInv
<1>6. AllOK(proc', kernels', cut, stale)
  BY ONLY p \in Process, <1>1, <1>2, <1>3, <1>4, <1>5, Dumps
<1>7. QED
  BY <1>4, <1>6 DEF CommandsInv

\* A start or a synchronisation fills it.
LEMMA SaveStep ==
    ASSUME CommandsInv, NEW p \in Process, Save(p)
    PROVE  CommandsInv'
<1>1. PICK k \in Place : k = proc[p].at
  BY AtPlace DEF Save, At
<1>2. PICK args, options : args = Upgraded(proc[p].spec) /\ options = proc[p].meant
  OBVIOUS
<1>3. PICK r : r = Started(proc[p], args)
  OBVIOUS
<1>4. /\ proc' = [proc EXCEPT ![p] = r] /\ cut' = cut /\ stale' = stale /\ proc[p].pc = "save"
      /\ Wrote(proc[p], kernels, kernels', args, options)
  BY <1>1, <1>2, <1>3 DEF Wrote, Save, Dumped, Becomes, Put, Here, At
<1>5. AllOK(proc, kernels, cut, stale)
  BY DEF CommandsInv
<1>6. AllOK(proc', kernels', cut, stale)
  BY ONLY p \in Process, <1>1, <1>2, <1>3, <1>4, <1>5, Saves
<1>7. QED
  BY <1>4, <1>6 DEF CommandsInv

\* The command is over, by itself or by the user.
LEMMA LastSteps ==
    ASSUME CommandsInv, NEW p \in Process,
           CopyLogos(p) \/ InstallRaises(p) \/ RewriteRaises(p) \/ FileFails(p) \/ Kill(p)
    PROVE  CommandsInv'
<1>1. {"0", "1", "2", "killed"} \subseteq Exits \ {"none"}
  BY DEF Exits
<1>2. PICK result \in {"0", "1", "2", "killed"} :
          Leave(p, result) /\ (result = "0" => proc[p].pc = "logos")
  BY DEF CopyLogos, InstallRaises, RewriteRaises, FileFails, Kill, At
<1>3. QED
  BY <1>1, <1>2, LeaveStep

\* The search in the path.
LEMMA SearchStep ==
    ASSUME CommandsInv, NEW p \in Process, Search(p)
    PROVE  CommandsInv'
<1>1. proc[p].pc = "search" /\ ProcessOK(proc[p]) /\ proc[p].at \in Place
  BY AtPlace DEF Search, At
<1>2. proc[p].linked = FALSE /\ proc[p].mode # "install"
  BY <1>1 DEF ProcessOK
<1>3. PICK found : found = {i \in DOMAIN Path : kernels[<<Path[i], proc[p].at[2]>>].file # "none"}
  OBVIOUS
<1>4. CASE found = {}
  <2>1. Leave(p, "1")
    BY <1>3, <1>4 DEF Search
  <2>2. "1" \in Exits \ {"none"}
    BY DEF Exits
  <2>3. QED
    BY <1>1, <2>1, <2>2, LeaveStep
<1>5. CASE found # {}
  <2>1. PICK k : k = <<Path[First(found)], proc[p].at[2]>>
    OBVIOUS
  <2>2. First(found) \in DOMAIN Path
    <3>1. found \subseteq Nat /\ found \subseteq DOMAIN Path
      BY <1>3, CommandsAssumption
    <3>2. \E i \in found : \A j \in found : i <= j
      BY <1>5, <3>1, LeastNumber
    <3>3. First(found) \in found
      BY <3>2 DEF First
    <3>4. QED
      BY <3>1, <3>3
  <2>3. k \in Place
    BY <1>1, <2>1, <2>2 DEF Place
  <2>4. PICK r : r = [proc[p] EXCEPT !.pc = "load", !.at = k]
    OBVIOUS
  <2>5. Becomes(p, r) /\ UNCHANGED <<kernels, cut, stale>>
    BY <1>3, <1>5, <2>1, <2>4 DEF Search
  <2>6. r = ProcessOf("load", proc[p].exit, proc[p].mode, proc[p].opts, k, proc[p].linked,
                      proc[p].spec, proc[p].meant)
    BY <1>1, <2>4 DEF ProcessOK, IsProcess, ProcessOf
  <2>7. /\ IsProcess(r) /\ r.pc = "load" /\ r.exit = proc[p].exit /\ r.mode = proc[p].mode
        /\ r.opts = proc[p].opts /\ r.at = k /\ r.linked = proc[p].linked
    BY ONLY <2>6 DEF IsProcess, ProcessOf
  <2>8. proc[p].exit = "none" /\ Installs(r) /\ r.exit \in Exits
    BY <1>1, <2>7 DEF ProcessOK, Installs
  <2>9. ProcessOK(r)
    BY ONLY <1>2, <2>3, <2>7, <2>8 DEF ProcessOK
  <2>10. QED
    BY <1>2, <2>5, <2>7, <2>9, MoveStep
<1>6. QED
  BY <1>4, <1>5

\* kernel.json is read.
LEMMA LoadStep ==
    ASSUME CommandsInv, NEW p \in Process, Load(p)
    PROVE  CommandsInv'
<1>1. PICK k \in Place : k = proc[p].at
  BY AtPlace DEF Load, At
<1>2. proc[p].pc = "load"
  BY DEF Load, At
<1>3. PICK args, options : args = kernels[k].argv /\ options = kernels[k].meant
  OBVIOUS
<1>4. CASE kernels[k].file # "whole" \/ LacksValue(args)
  <2>1. Leave(p, "1")
    BY <1>1, <1>3, <1>4 DEF Load, Here
  <2>2. "1" \in Exits \ {"none"}
    BY DEF Exits
  <2>3. QED
    BY <1>2, <2>1, <2>2, LeaveStep
<1>5. CASE ~(kernels[k].file # "whole" \/ LacksValue(args))
  <2>1. PICK read : read = [proc[p] EXCEPT !.linked = TRUE, !.spec = args, !.meant = options]
    OBVIOUS
  <2>2. PICK r : r = IF Deprecated(args) = 0 THEN Started(read, args) ELSE [read EXCEPT !.pc = "rewrite"]
    OBVIOUS
  <2>3. /\ proc' = [proc EXCEPT ![p] = r] /\ kernels' = kernels /\ cut' = cut /\ stale' = stale
    BY <1>1, <1>3, <1>5, <2>1, <2>2 DEF Load, Here, Becomes
  <2>4. AllOK(proc, kernels, cut, stale)
    BY DEF CommandsInv
  <2>5. AllOK(proc', kernels, cut, stale)
    BY ONLY p \in Process, <1>1, <1>2, <1>3, <1>5, <2>1, <2>2, <2>3, <2>4, Loads
  <2>6. QED
    BY <2>3, <2>5 DEF CommandsInv
<1>6. QED
  BY <1>4, <1>5

\* A folder is deleted.
LEMMA RemoveStep ==
    ASSUME CommandsInv, NEW k \in Place, Remove(k)
    PROVE  CommandsInv'
<1>1. /\ kernels' = [kernels EXCEPT ![k] = Absent]
      /\ proc' = [p \in Process |->
                    IF proc[p].at = k THEN [proc[p] EXCEPT !.linked = FALSE] ELSE proc[p]]
      /\ cut' = cut \ {k} /\ stale' = stale \ {k}
  BY DEF Remove, Put
<1>2. AllOK(proc, kernels, cut, stale)
  BY DEF CommandsInv
<1>3. AllOK(proc', kernels', cut \ {k}, stale \ {k})
  BY <1>1, <1>2, Removes
<1>4. QED
  BY <1>1, <1>3 DEF CommandsInv

\* At the start nobody is at a folder, and the folders are complete.
LEMMA InitCommands == Init => CommandsInv
<1> SUFFICES ASSUME Init PROVE CommandsInv
  OBVIOUS
<1>1. PICK d \in Disks \cup {[l \in Place |-> Absent]} :
          kernels = d /\ proc = [p \in Process |-> NewProcess] /\ cut = {} /\ stale = {}
  BY DEF Init, CommandsInit
<1>2. Absent.dir = FALSE /\ Absent.file = "none" /\ Absent.argv = <<>>
      /\ Absent = KernelOf(Absent.dir, Absent.file, Absent.argv, Absent.meant)
  BY DEF Absent, KernelOf
<1>3. KernelOK(Absent)
  BY ONLY <1>2 DEF KernelOK
<1>4. /\ kernels = [k \in Place |-> kernels[k]]
      /\ \A k \in Place :
            \/ kernels[k] = Absent
            \/ /\ kernels[k] = KernelOf(TRUE, "whole", kernels[k].argv, kernels[k].meant)
               /\ UpgradesOnce(kernels[k].argv)
  <2>1. CASE d = [l \in Place |-> Absent]
    BY <1>1, <2>1
  <2>2. CASE d \in Disks
    <3>1. /\ d \in [Place -> {d[k] : k \in Place}]
          /\ \A k \in Place :
                \/ d[k] = Absent
                \/ /\ d[k] = KernelOf(TRUE, "whole", d[k].argv, d[k].meant)
                   /\ UpgradesOnce(d[k].argv)
      BY <2>2, DisksAssumption DEF KernelOf
    <3>2. d = [k \in Place |-> d[k]]
      BY <3>1
    <3>3. QED
      BY ONLY <1>1, <3>1, <3>2
  <2>3. QED
    BY <1>1, <2>1, <2>2
<1>5. ASSUME NEW k \in Place
      PROVE  KernelOK(kernels[k]) /\ (kernels[k].dir => kernels[k].file = "whole")
  <2>1. CASE kernels[k] = Absent
    BY ONLY <1>2, <1>3, <2>1
  <2>2. CASE /\ kernels[k] = KernelOf(TRUE, "whole", kernels[k].argv, kernels[k].meant)
             /\ UpgradesOnce(kernels[k].argv)
    <3>1. PICK f, on : f = kernels[k] /\ on = TRUE
      OBVIOUS
    <3>2. f = KernelOf(on, "whole", f.argv, f.meant) /\ UpgradesOnce(f.argv)
      BY ONLY <2>2, <3>1
    <3>3. f.dir = on /\ f.file = "whole" /\ f = KernelOf(f.dir, f.file, f.argv, f.meant)
      BY ONLY <3>2, FolderFields
    <3>4. f.dir \in BOOLEAN /\ f.dir
      BY ONLY <3>1, <3>3, Zenon
    <3>5. f.argv # <<>>
      BY ONLY <3>2 DEF UpgradesOnce
    <3>6. KernelOK(f)
      BY ONLY <3>2, <3>3, <3>4, <3>5 DEF KernelOK
    <3>7. QED
      BY ONLY <3>1, <3>3, <3>6
  <2>3. QED
    BY <1>4, <2>1, <2>2
<1>6. proc = [p \in Process |-> proc[p]] /\ \A p \in Process : proc[p] = NewProcess
  BY <1>1
<1>7. ProcessOK(NewProcess) /\ NewProcess.linked = FALSE /\ NewProcess.pc = "off"
  BY NewIsProcess DEF ProcessOK, Installs, Exits
<1>8. ASSUME NEW k \in Place PROVE FolderOK(proc, kernels[k], cut, k)
  <2>1. \A p \in Process : ~Linked(proc[p], k)
    BY <1>6, <1>7 DEF Linked
  <2>2. Alone(proc, kernels[k], k) /\ Agreed(proc, kernels[k], k) /\ Kept(proc, kernels[k], k)
    BY ONLY <2>1 DEF Alone, Agreed, Kept, Creating, Rewriting, Installed
  <2>3. QED
    BY <1>5, <2>2 DEF FolderOK, Completed
<1>9. QED
  BY <1>1, <1>4, <1>5, <1>6, <1>7, <1>8 DEF CommandsInv, AllOK

\* A step of anybody.
LEMMA StepCommands == CommandsInv /\ [Next]_vars => CommandsInv'
<1> SUFFICES ASSUME CommandsInv, [Next]_vars PROVE CommandsInv'
  OBVIOUS
<1>1. CASE UNCHANGED commandVars
  BY <1>1 DEF CommandsInv, commandVars
<1>2. CASE Use
  <2>1. ASSUME NEW p \in Process, Start(p) \/ CommandStep(p) PROVE CommandsInv'
    BY <2>1, RunStep, CheckSteps, MakeStep, OpenSteps, DumpStep, SearchStep, LoadStep, SaveStep,
       LastSteps DEF Start, CommandStep
  <2>2. QED
    BY <1>2, <2>1, RemoveStep DEF Use
<1>3. QED
  BY <1>1, <1>2 DEF Next, vars

\* An installation that has reported success is still there, until the user deletes
\* it, however many installations and starts race for the name (install.py:107, 148,
\* __init__.py:181).
THEOREM InstallationsLast == Spec => []InstalledIsLasting
<1>1. CommandsInv => InstalledIsLasting
  <2> SUFFICES ASSUME CommandsInv, NEW p \in Process, NEW k, k = proc[p].at,
                      proc[p].pc = "done", proc[p].mode = "install", proc[p].exit = "0",
                      ~proc[p].opts.dry, proc[p].linked, k \notin stale
               PROVE  kernels[k].argv = KernelArgs(proc[p].opts)
    BY DEF InstalledIsLasting
  <2>1. k \in Place \ stale
    BY DEF CommandsInv, AllOK, ProcessOK
  <2>2. Kept(proc, kernels[k], k)
    BY <2>1 DEF CommandsInv, AllOK, FolderOK
  <2>3. Installed(proc[p], k)
    BY DEF Installed, Linked
  <2>4. QED
    BY ONLY p \in Process, <2>2, <2>3 DEF Kept
<1>2. QED
  BY <1>1, InitCommands, StepCommands, PTL DEF Spec

\* A specification that cannot be read is being written, or was when somebody
\* stopped (install.py:148-150, __init__.py:181-182).
THEOREM TornIsInterrupted == Spec => []TornOnlyByInterruption
<1>1. CommandsInv => TornOnlyByInterruption
  <2> SUFFICES ASSUME CommandsInv, NEW k \in Place, kernels[k].dir, kernels[k].file # "whole",
                      k \notin cut, k \notin stale
               PROVE  \E p \in Process : Writing(p, k)
    BY DEF TornOnlyByInterruption
  <2>1. Completed(proc, kernels[k], cut, k)
    BY DEF CommandsInv, AllOK, FolderOK
  <2>2. PICK p \in Process : Writes(proc[p], k)
    BY <2>1 DEF Completed
  <2>3. QED
    BY <2>2 DEF Writes, Linked, Writing
<1>2. QED
  BY <1>1, InitCommands, StepCommands, PTL DEF Spec

----------------------------------------------------------------------------
(* What a kernel.json means.                                               *)

\* A start with these arguments is one with the options o.
Starts(args, o) == IsOurs(args) => Effect(Parse(StartArgs(args))) = Effect(o)

KernelMeans(f) ==
    f.file = "whole" /\ ~LacksValue(f.argv) => Starts(Upgraded(f.argv), f.meant)

\* What a process has read, and what it has made of that.
Honest(r) ==
    /\ r.exit = "connects" /\ r.spec # <<>> => Effect(r.opts) = Effect(r.meant)
    /\ r.pc \in {"rewrite", "save"} => Starts(Upgraded(r.spec), r.meant)

AllMean(P, K) == (\A k \in Place : KernelMeans(K[k])) /\ (\A p \in Process : Honest(P[p]))

MeansInv == AllMean(proc, kernels)

\* A kernel.json an installation has written starts the kernel that was installed.
LEMMA WrittenStarts ==
    ASSUME NEW args, NEW o, WrittenFor(args, o)
    PROVE  Starts(Upgraded(args), o)
<1>1. Sayable(o)
  BY DEF WrittenFor
<1>2. Upgraded(args) = KernelArgs(o)
  BY OldIsUpgraded
<1>3. StartArgs(KernelArgs(o)) = Body(o) /\ Effect(Parse(Body(o))) = Effect(o)
  BY <1>1, StartOfInstalled, BodyMeans
<1>4. QED
  BY <1>2, <1>3 DEF Starts

\* One process moves on, at one folder at most.
LEMMA OneMeans ==
    ASSUME NEW P, P = [p \in Process |-> P[p]], NEW K, K = [k \in Place |-> K[k]], AllMean(P, K),
           NEW p \in Process, NEW r, Honest(r), NEW Q, Q = [P EXCEPT ![p] = r],
           NEW L, L = K \/ \E k \in Place : \E f : KernelMeans(f) /\ L = [K EXCEPT ![k] = f]
    PROVE  AllMean(Q, L)
<1>1. ASSUME NEW q \in Process PROVE Honest(Q[q])
  <2>1. CASE q = p
    BY <2>1
  <2>2. CASE q # p
    BY <2>2 DEF AllMean
  <2>3. QED
    BY <2>1, <2>2
<1>2. ASSUME NEW l \in Place PROVE KernelMeans(L[l])
  <2>1. CASE L = K
    BY <2>1 DEF AllMean
  <2>2. CASE \E k \in Place : \E f : KernelMeans(f) /\ L = [K EXCEPT ![k] = f]
    <3>1. PICK k \in Place : \E f : KernelMeans(f) /\ L = [K EXCEPT ![k] = f]
      BY <2>2
    <3>2. PICK f : KernelMeans(f) /\ L = [K EXCEPT ![k] = f]
      BY <3>1
    <3>3. CASE l = k
      BY <3>2, <3>3
    <3>4. CASE l # k
      BY <3>2, <3>4 DEF AllMean
    <3>5. QED
      BY <3>3, <3>4
  <2>3. QED
    BY <2>1, <2>2
<1>3. QED
  BY <1>1, <1>2 DEF AllMean

\* The step of a process, whose folder may change.
LEMMA ProcessMeans ==
    ASSUME CommandsInv, MeansInv, NEW p \in Process, NEW r, Honest(r), proc' = [proc EXCEPT ![p] = r],
           \/ kernels' = kernels
           \/ \E k \in Place : \E f : KernelMeans(f) /\ kernels' = [kernels EXCEPT ![k] = f]
    PROVE  MeansInv'
<1>1. proc = [q \in Process |-> proc[q]] /\ kernels = [k \in Place |-> kernels[k]]
  BY DEF CommandsInv, AllOK
<1>2. AllMean(proc, kernels)
  BY DEF MeansInv
<1>3. AllMean(proc', kernels')
  BY <1>1, <1>2, OneMeans
<1>4. QED
  BY <1>3 DEF MeansInv

\* A process that is over has read nothing, or does not connect.
LEMMA LeaveMeans ==
    ASSUME CommandsInv, MeansInv, NEW p \in Process, NEW result, result # "connects",
           Leave(p, result)
    PROVE  MeansInv'
<1>1. PICK s, r : s = proc[p] /\ r = Ended(s, result)
  OBVIOUS
<1>2. proc' = [proc EXCEPT ![p] = r] /\ kernels' = kernels
  BY <1>1 DEF Leave, Becomes
<1>3. IsProcess(s)
  BY <1>1 DEF CommandsInv, AllOK, ProcessOK
<1>4. r = ProcessOf("done", result, s.mode, s.opts, s.at, s.linked, s.spec, s.meant)
  BY ONLY <1>1, <1>3 DEF IsProcess, ProcessOf, Ended
<1>5. r.pc = "done" /\ r.exit = result
  BY ONLY <1>4 DEF ProcessOf
<1>6. Honest(r)
  BY <1>5 DEF Honest
<1>7. QED
  BY <1>2, <1>6, ProcessMeans

\* So is a process that starts nothing yet, and one with a new command line.
LEMMA QuietMeans ==
    ASSUME CommandsInv, NEW p \in Process, proc[p].pc \notin {"off", "done"},
           NEW r, r.pc \notin {"rewrite", "save"}, r.exit = proc[p].exit
    PROVE  Honest(r)
<1>1. r.exit = "none"
  BY AtPlace
<1>2. QED
  BY <1>1 DEF Honest

\* A command starts without a specification.
LEMMA RunMeans ==
    ASSUME CommandsInv, MeansInv, NEW p \in Process, Run(p)
    PROVE  MeansInv'
<1>1. PICK r \in Dispatched : Becomes(p, r)
  BY DEF Run
<1>2. Fresh(r)
  BY DispatchedIsFresh
<1>3. Honest(r)
  BY <1>2 DEF Fresh, Honest
<1>4. proc' = [proc EXCEPT ![p] = r] /\ kernels' = kernels
  BY <1>1 DEF Run, Becomes
<1>5. QED
  BY <1>3, <1>4, ProcessMeans

\* An installation goes on to its next check.
LEMMA GotoMeans ==
    ASSUME CommandsInv, MeansInv, NEW p \in Process, proc[p].pc \notin {"off", "done"},
           NEW label, label \notin {"rewrite", "save"}, Goto(p, label),
           \/ kernels' = kernels
           \/ \E k \in Place : \E f : KernelMeans(f) /\ kernels' = [kernels EXCEPT ![k] = f]
    PROVE  MeansInv'
<1>1. PICK s, r : s = proc[p] /\ r = [s EXCEPT !.pc = label]
  OBVIOUS
<1>2. IsProcess(s)
  BY <1>1, AtPlace
<1>3. r = ProcessOf(label, s.exit, s.mode, s.opts, s.at, s.linked, s.spec, s.meant)
  BY ONLY <1>1, <1>2 DEF IsProcess, ProcessOf
<1>4. Honest(r)
  <2>1. r.pc = label /\ r.exit = s.exit
    BY ONLY <1>3 DEF ProcessOf
  <2>2. QED
    BY <1>1, <2>1, QuietMeans
<1>5. proc' = [proc EXCEPT ![p] = r]
  BY <1>1 DEF Goto, Becomes
<1>6. QED
  BY <1>4, <1>5, ProcessMeans

\* The steps that write no file and read none.
LEMMA OtherMeans ==
    ASSUME CommandsInv, MeansInv, NEW p \in Process,
           \/ Test(p) \/ TestBreaks(p) \/ Look(p)
           \/ CopyLogos(p) \/ InstallRaises(p) \/ RewriteRaises(p) \/ FileFails(p) \/ Kill(p)
    PROVE  MeansInv'
<1>1. \/ \E result \in {"0", "1", "2", "killed"} : Leave(p, result)
      \/ /\ proc[p].pc \notin {"off", "done"}
         /\ \E label \in {"stuck", "look", "mkdir"} : Goto(p, label) /\ kernels' = kernels
  BY DEF Test, TestBreaks, Look, CopyLogos, InstallRaises, RewriteRaises, FileFails, Kill, At
<1>2. QED
  BY <1>1, LeaveMeans, GotoMeans

\* A new folder has no file, as before.
LEMMA MakeMeans ==
    ASSUME CommandsInv, MeansInv, NEW p \in Process, MakeDir(p)
    PROVE  MeansInv'
<1>1. PICK k \in Place : k = proc[p].at
  BY AtPlace DEF MakeDir, At
<1>2. PICK s, r, g, f : /\ s = proc[p] /\ r = [s EXCEPT !.pc = "open", !.linked = TRUE]
                        /\ g = kernels[k] /\ f = [g EXCEPT !.dir = TRUE]
  OBVIOUS
<1>3. /\ proc' = [proc EXCEPT ![p] = r] /\ kernels' = [kernels EXCEPT ![k] = f]
      /\ proc[p].pc = "mkdir"
  BY <1>1, <1>2 DEF MakeDir, Becomes, Put, Here, At
<1>4. IsProcess(s) /\ KernelOK(g)
  BY <1>1, <1>2, <1>3, AtPlace
<1>5. r = ProcessOf("open", s.exit, s.mode, s.opts, s.at, TRUE, s.spec, s.meant)
  BY ONLY <1>2, <1>4 DEF IsProcess, ProcessOf
<1>6. Honest(r)
  <2>1. r.pc = "open" /\ r.exit = s.exit
    BY ONLY <1>5 DEF ProcessOf
  <2>2. QED
    BY <1>2, <1>3, <2>1, QuietMeans
<1>7. f.file = g.file /\ f.argv = g.argv /\ f.meant = g.meant
  BY ONLY <1>2, <1>4 DEF KernelOK, KernelOf
<1>8. KernelMeans(f)
  <2>1. KernelMeans(g)
    BY <1>2 DEF MeansInv, AllMean
  <2>2. QED
    BY ONLY <1>7, <2>1 DEF KernelMeans
<1>9. QED
  BY <1>3, <1>6, <1>8, ProcessMeans

\* A file that is being written means nothing, and what has been read stays.
LEMMA OpenMeans ==
    ASSUME CommandsInv, MeansInv, NEW p \in Process, OpenNew(p) \/ Rewrite(p)
    PROVE  MeansInv'
<1>1. PICK k \in Place : k = proc[p].at
  BY AtPlace DEF OpenNew, Rewrite, At
<1>2. PICK next : /\ OpenFile(p, next)
                  /\ \/ proc[p].pc = "open" /\ next = "dump"
                     \/ proc[p].pc = "rewrite" /\ next = "save"
  BY DEF OpenNew, Rewrite, At
<1>3. PICK s, r, g, f : /\ s = proc[p] /\ r = [s EXCEPT !.pc = next, !.linked = TRUE]
                        /\ g = kernels[k] /\ f = [g EXCEPT !.file = "torn", !.argv = <<>>]
  OBVIOUS
<1>4. proc' = [proc EXCEPT ![p] = r] /\ kernels' = [kernels EXCEPT ![k] = f]
  BY <1>1, <1>2, <1>3 DEF OpenFile, Becomes, Put, Here
<1>5. IsProcess(s) /\ KernelOK(g) /\ s.exit = "none" /\ Honest(s)
  BY <1>1, <1>2, <1>3, AtPlace DEF MeansInv, AllMean
<1>6. r = ProcessOf(next, s.exit, s.mode, s.opts, s.at, TRUE, s.spec, s.meant)
  BY ONLY <1>3, <1>5 DEF IsProcess, ProcessOf
<1>7. r.pc = next /\ r.exit = "none" /\ r.spec = s.spec /\ r.meant = s.meant
  BY ONLY <1>5, <1>6 DEF ProcessOf
<1>8. Honest(r)
  BY ONLY <1>2, <1>3, <1>5, <1>7 DEF Honest
<1>9. f.file = "torn"
  BY ONLY <1>3, <1>5 DEF KernelOK, KernelOf
<1>10. KernelMeans(f)
  BY ONLY <1>9 DEF KernelMeans
<1>11. QED
  BY <1>4, <1>8, <1>10, ProcessMeans

\* What json.dump() leaves means what the writer meant.
LEMMA WroteMeans ==
    ASSUME NEW r, NEW K, NEW L, NEW args, NEW options, Wrote(r, K, L, args, options),
           r.at \in Place, KernelOK(K[r.at]),
           ~LacksValue(args) => Starts(Upgraded(args), options)
    PROVE  L = K \/ \E k \in Place : \E f : KernelMeans(f) /\ L = [K EXCEPT ![k] = f]
<1>1. PICK k \in Place : k = r.at
  OBVIOUS
<1>2. PICK g, whole, mixed : /\ g = K[k] /\ mixed = [g EXCEPT !.file = "torn", !.argv = <<>>]
                             /\ whole = [g EXCEPT !.file = "whole", !.argv = args, !.meant = options]
  OBVIOUS
<1>3. L = K \/ L = [K EXCEPT ![k] = whole] \/ L = [K EXCEPT ![k] = mixed]
  BY <1>1, <1>2 DEF Wrote
<1>4. KernelOK(g)
  BY <1>1, <1>2
<1>5. whole.file = "whole" /\ whole.argv = args /\ whole.meant = options /\ mixed.file = "torn"
  BY ONLY <1>2, <1>4 DEF KernelOK, KernelOf
<1>6. KernelMeans(whole) /\ KernelMeans(mixed)
  BY <1>5 DEF KernelMeans
<1>7. QED
  BY <1>3, <1>6

\* An installation writes what it was asked for.
LEMMA DumpMeans ==
    ASSUME CommandsInv, MeansInv, NEW p \in Process, Dump(p)
    PROVE  MeansInv'
<1>1. PICK args, options : options = proc[p].opts /\ args = KernelArgs(options)
  OBVIOUS
<1>2. proc[p].pc = "dump" /\ Goto(p, "logos") /\ Wrote(proc[p], kernels, kernels', args, options)
  BY <1>1 DEF Wrote, Dump, Dumped, Put, Here, At
<1>3. ProcessOK(proc[p]) /\ proc[p].at \in Place /\ KernelOK(kernels[proc[p].at])
  BY <1>2, AtPlace
<1>4. Sayable(options)
  BY <1>1, <1>2, <1>3 DEF ProcessOK, Installs
<1>5. Starts(Upgraded(args), options)
  BY <1>1, <1>4, WrittenStarts DEF WrittenFor
<1>6. \/ kernels' = kernels
      \/ \E k \in Place : \E f : KernelMeans(f) /\ kernels' = [kernels EXCEPT ![k] = f]
  BY <1>2, <1>3, <1>5, WroteMeans
<1>7. QED
  BY <1>2, <1>6, GotoMeans

\* The search reads nothing.
LEMMA SearchMeans ==
    ASSUME CommandsInv, MeansInv, NEW p \in Process, Search(p)
    PROVE  MeansInv'
<1>1. proc[p].pc = "search" /\ IsProcess(proc[p])
  BY AtPlace DEF Search, At
<1>2. CASE Leave(p, "1")
  BY <1>2, LeaveMeans
<1>3. CASE \E at : Becomes(p, [proc[p] EXCEPT !.pc = "load", !.at = at]) /\ kernels' = kernels
  <2>1. PICK at : Becomes(p, [proc[p] EXCEPT !.pc = "load", !.at = at]) /\ kernels' = kernels
    BY <1>3
  <2>2. PICK s, r : s = proc[p] /\ r = [s EXCEPT !.pc = "load", !.at = at]
    OBVIOUS
  <2>3. r = ProcessOf("load", s.exit, s.mode, s.opts, at, s.linked, s.spec, s.meant)
    <3>1. IsProcess(s)
      BY <1>1, <2>2
    <3>2. QED
      BY ONLY <2>2, <3>1 DEF IsProcess, ProcessOf
  <2>4. Honest(r)
    <3>1. r.pc = "load" /\ r.exit = s.exit
      BY ONLY <2>3 DEF ProcessOf
    <3>2. QED
      BY <1>1, <2>2, <3>1, QuietMeans
  <2>5. QED
    BY <2>1, <2>2, <2>4, ProcessMeans DEF Becomes
<1>4. QED
  BY <1>2, <1>3 DEF Search

\* A command line that means the options is parsed to these.
LEMMA StartedMeans ==
    ASSUME NEW r, IsProcess(r), NEW args, Starts(args, r.meant)
    PROVE  Honest(Started(r, args))
<1>1. PICK t : t = Started(r, args)
  OBVIOUS
<1>2. CASE IsOurs(args) /\ Takes(r.mode, StartArgs(args))
  <2>1. PICK o : o = Parse(StartArgs(args))
    OBVIOUS
  <2>2. t = Ended([r EXCEPT !.mode = r.mode, !.opts = o], "connects")
    BY <1>1, <1>2, <2>1 DEF Started, HandOver
  <2>3. t = ProcessOf("done", "connects", r.mode, o, r.at, r.linked, r.spec, r.meant)
    BY ONLY <2>2, IsProcess(r) DEF Ended, IsProcess, ProcessOf
  <2>4. t.pc = "done" /\ t.opts = o /\ t.meant = r.meant
    BY ONLY <2>3 DEF ProcessOf
  <2>5. Effect(o) = Effect(r.meant)
    BY <1>2, <2>1 DEF Starts
  <2>6. QED
    BY <1>1, <2>4, <2>5 DEF Honest
<1>3. CASE ~(IsOurs(args) /\ Takes(r.mode, StartArgs(args)))
  <2>1. PICK result \in {"1", "2"} : t = Ended(r, result)
    BY <1>1, <1>3 DEF Started, HandOver
  <2>2. t = ProcessOf("done", result, r.mode, r.opts, r.at, r.linked, r.spec, r.meant)
    BY ONLY <2>1, IsProcess(r) DEF Ended, IsProcess, ProcessOf
  <2>3. t.pc = "done" /\ t.exit = result
    BY ONLY <2>2 DEF ProcessOf
  <2>4. QED
    BY <1>1, <2>3 DEF Honest
<1>4. QED
  BY <1>2, <1>3

\* What is up to date is not changed.
LEMMA NewIsUpgraded == \A args : Deprecated(args) = 0 => Upgraded(args) = args
BY DEF Upgraded

\* The file that is read means what was installed.
LEMMA LoadMeans ==
    ASSUME CommandsInv, MeansInv, NEW p \in Process, Load(p)
    PROVE  MeansInv'
<1>1. PICK k \in Place : k = proc[p].at
  BY AtPlace DEF Load, At
<1>2. PICK s, args, options : s = proc[p] /\ args = kernels[k].argv /\ options = kernels[k].meant
  OBVIOUS
<1>3. IsProcess(s) /\ s.exit = "none"
  BY <1>2, AtPlace DEF Load, At
<1>4. CASE kernels[k].file # "whole" \/ LacksValue(args)
  <2>1. Leave(p, "1")
    BY <1>1, <1>2, <1>4 DEF Load, Here
  <2>2. QED
    BY <2>1, LeaveMeans
<1>5. CASE kernels[k].file = "whole" /\ ~LacksValue(args)
  <2>1. PICK read : read = [s EXCEPT !.linked = TRUE, !.spec = args, !.meant = options]
    OBVIOUS
  <2>2. PICK r : r = IF Deprecated(args) = 0 THEN Started(read, args) ELSE [read EXCEPT !.pc = "rewrite"]
    OBVIOUS
  <2>3. proc' = [proc EXCEPT ![p] = r] /\ kernels' = kernels
    BY <1>1, <1>2, <1>5, <2>1, <2>2 DEF Load, Here, Becomes
  <2>4. read = ProcessOf(s.pc, s.exit, s.mode, s.opts, s.at, TRUE, args, options)
    BY ONLY <1>3, <2>1 DEF IsProcess, ProcessOf
  <2>5. IsProcess(read) /\ read.exit = "none" /\ read.meant = options /\ read.spec = args
    BY ONLY <1>3, <2>4 DEF IsProcess, ProcessOf
  <2>6. Starts(Upgraded(args), options)
    <3>1. KernelMeans(kernels[k])
      BY DEF MeansInv, AllMean
    <3>2. QED
      BY <1>2, <1>5, <3>1 DEF KernelMeans
  <2>7. CASE Deprecated(args) = 0
    <3>1. Starts(args, read.meant)
      BY <2>5, <2>6, <2>7, NewIsUpgraded
    <3>2. Honest(r)
      BY <2>2, <2>5, <2>7, <3>1, StartedMeans
    <3>3. QED
      BY <2>3, <3>2, ProcessMeans
  <2>8. CASE Deprecated(args) # 0
    <3>1. r = [read EXCEPT !.pc = "rewrite"]
      BY <2>2, <2>8
    <3>2. r.pc = "rewrite" /\ r.exit = "none" /\ r.spec = args /\ r.meant = options
      BY ONLY <2>5, <3>1 DEF IsProcess, ProcessOf
    <3>3. Honest(r)
      BY ONLY <2>6, <3>2 DEF Honest
    <3>4. QED
      BY <2>3, <3>3, ProcessMeans
  <2>9. QED
    BY <2>7, <2>8
<1>6. QED
  BY <1>4, <1>5

\* So does the one that is written back, and the arguments that are started with.
LEMMA SaveMeans ==
    ASSUME CommandsInv, MeansInv, NEW p \in Process, Save(p)
    PROVE  MeansInv'
<1>1. proc[p].pc = "save"
  BY DEF Save, At
<1>2. PICK args, options : args = Upgraded(proc[p].spec) /\ options = proc[p].meant
  OBVIOUS
<1>3. PICK r : r = Started(proc[p], args)
  OBVIOUS
<1>4. proc' = [proc EXCEPT ![p] = r] /\ Wrote(proc[p], kernels, kernels', args, options)
  BY <1>2, <1>3 DEF Wrote, Save, Dumped, Becomes, Put, Here
<1>5. /\ ProcessOK(proc[p]) /\ IsProcess(proc[p]) /\ proc[p].at \in Place
      /\ KernelOK(kernels[proc[p].at])
  BY <1>1, AtPlace
<1>6. Starts(args, options)
  BY <1>1, <1>2 DEF MeansInv, AllMean, Honest
<1>7. Upgraded(args) = args
  BY <1>1, <1>2, <1>5, NewIsUpgraded DEF ProcessOK, Outdated
<1>8. \/ kernels' = kernels
      \/ \E k \in Place : \E f : KernelMeans(f) /\ kernels' = [kernels EXCEPT ![k] = f]
  BY <1>4, <1>5, <1>6, <1>7, WroteMeans
<1>9. Honest(r)
  BY <1>2, <1>3, <1>5, <1>6, StartedMeans
<1>10. QED
  BY <1>4, <1>8, <1>9, ProcessMeans

\* Where nothing is, nothing is meant.
LEMMA RemoveMeans ==
    ASSUME CommandsInv, MeansInv, NEW k \in Place, Remove(k)
    PROVE  MeansInv'
<1>1. /\ kernels' = [kernels EXCEPT ![k] = Absent]
      /\ proc' = [p \in Process |->
                    IF proc[p].at = k THEN [proc[p] EXCEPT !.linked = FALSE] ELSE proc[p]]
  BY DEF Remove, Put
<1>2. KernelMeans(Absent)
  BY DEF KernelMeans, Absent
<1>3. ASSUME NEW l \in Place PROVE KernelMeans(kernels'[l])
  <2>1. kernels = [m \in Place |-> kernels[m]]
    BY DEF CommandsInv, AllOK
  <2>2. kernels'[l] = IF l = k THEN Absent ELSE kernels[l]
    BY ONLY <1>1, <2>1
  <2>3. QED
    BY <1>2, <2>2 DEF MeansInv, AllMean
<1>4. ASSUME NEW p \in Process PROVE Honest(proc'[p])
  <2>1. PICK s, r : s = proc[p] /\ r = [s EXCEPT !.linked = FALSE]
    OBVIOUS
  <2>2. IsProcess(s) /\ Honest(s)
    BY <2>1 DEF CommandsInv, AllOK, ProcessOK, MeansInv, AllMean
  <2>3. r.pc = s.pc /\ r.exit = s.exit /\ r.spec = s.spec /\ r.opts = s.opts /\ r.meant = s.meant
    BY ONLY <2>1, <2>2 DEF IsProcess, ProcessOf
  <2>4. Honest(r)
    BY ONLY <2>2, <2>3 DEF Honest
  <2>5. proc'[p] = s \/ proc'[p] = r
    BY <1>1, <2>1
  <2>6. QED
    BY <2>2, <2>4, <2>5
<1>5. QED
  BY <1>3, <1>4 DEF MeansInv, AllMean

\* At the start the files are those of installations, and nothing has been read.
LEMMA InitMeans == Init => MeansInv
<1> SUFFICES ASSUME Init PROVE MeansInv
  OBVIOUS
<1>1. PICK d \in Disks \cup {[l \in Place |-> Absent]} :
          kernels = d /\ proc = [p \in Process |-> NewProcess]
  BY DEF Init, CommandsInit
<1>2. KernelMeans(Absent)
  BY DEF KernelMeans, Absent
<1>3. ASSUME NEW k \in Place PROVE KernelMeans(kernels[k])
  <2>1. CASE kernels[k] = Absent
    BY <1>2, <2>1
  <2>2. CASE kernels[k] # Absent
    <3>1. d \in Disks
      BY <1>1, <2>2
    <3>2. ~LacksValue(d[k].argv) /\ IsOurs(Upgraded(d[k].argv)) => WrittenFor(d[k].argv, d[k].meant)
      BY <1>1, <2>2, <3>1, DisksAssumption
    <3>3. ~LacksValue(d[k].argv) => Starts(Upgraded(d[k].argv), d[k].meant)
      BY <3>2, WrittenStarts DEF Starts
    <3>4. QED
      BY <1>1, <3>3 DEF KernelMeans
  <2>3. QED
    BY <2>1, <2>2
<1>4. Honest(NewProcess)
  BY NewIsProcess DEF Honest
<1>5. QED
  BY <1>1, <1>3, <1>4 DEF MeansInv, AllMean

\* A step of anybody.
LEMMA StepMeans == CommandsInv /\ MeansInv /\ [Next]_vars => MeansInv'
<1> SUFFICES ASSUME CommandsInv, MeansInv, [Next]_vars PROVE MeansInv'
  OBVIOUS
<1>1. CASE UNCHANGED commandVars
  BY <1>1 DEF MeansInv, commandVars
<1>2. CASE Use
  <2>1. ASSUME NEW p \in Process, Start(p) \/ CommandStep(p) PROVE MeansInv'
    BY <2>1, RunMeans, OtherMeans, MakeMeans, OpenMeans, DumpMeans, SearchMeans, LoadMeans, SaveMeans
       DEF Start, CommandStep
  <2>2. QED
    BY <1>2, <2>1, RemoveMeans DEF Use
<1>3. QED
  BY <1>1, <1>2 DEF Next, vars

\* A kernel is started with the options it was installed with, by today's version or
\* by the first, and whoever else upgrades or installs it at the same time
\* (install.py:112-140, __init__.py:115-127, 141-179).
THEOREM OptionsSurvive == Spec => []StartsAsInstalled
<1>1. MeansInv => StartsAsInstalled
  BY DEF MeansInv, AllMean, Honest, StartsAsInstalled
<1>2. CommandsInv /\ MeansInv /\ [Next]_vars => CommandsInv' /\ MeansInv'
  BY StepCommands, StepMeans
<1>3. Init => CommandsInv /\ MeansInv
  BY InitCommands, InitMeans
<1>4. QED
  BY <1>1, <1>2, <1>3, PTL DEF Spec

----------------------------------------------------------------------------
(* The types of the program                                                *)

\* The history, the import and its report.
VersionBounds ==
    /\ top \in Commits /\ subst \subseteq 1..top /\ tagged \in [TagSet -> 0..MaxCommit]
    /\ dirty \in BOOLEAN /\ moved \in BOOLEAN /\ tree \in {"checkout", "inside", "outside"}
    /\ stage \in Asking \cup {"off", "done", "raised"}
    /\ stage = "done" => report.version # <<>>

\* The files of setup, which runs only when it has found its section.
ConfigInv ==
    /\ config \in {"none", "sample", "ok"} /\ versionFile \in {"torn", "whole"}
    /\ step \in Running => config = "ok"

\* A command runs when its package has been imported.
IdleInv == \A p \in Process : proc[p].pc # "off" => stage = "done" /\ task = "use"

\* A text is a version of one part.
LEMMA TextIsVersion == \A text : Text(text) # <<>>
BY DEF Text

\* The developer's steps stay within the history.
LEMMA WorksInBounds ==
    ASSUME VersionBounds, HistoryInv,
           \/ Edit \/ \E expands : \E left \in BOOLEAN : MakeCommit(expands, left)
           \/ \E c \in Commits : Checkout(c)
           \/ \E i \in DOMAIN Tag : MakeTag(i)
    PROVE  VersionBounds'
<1> USE DEF VersionBounds, HistoryInv, Works, package, Asking
<1>0. MaxCommit \in Nat /\ top \in Nat /\ top <= MaxCommit /\ head \in 1..top
  BY VersionAssumption DEF Commits
<1>1. CASE Edit
  BY <1>1 DEF Edit
<1>2. CASE \E expands : \E left \in BOOLEAN : MakeCommit(expands, left)
  <2>0. PICK expands : \E left \in BOOLEAN : MakeCommit(expands, left)
    BY <1>2
  <2>1. PICK left \in BOOLEAN : MakeCommit(expands, left)
    BY <2>0
  <2>2. top' = top + 1 /\ subst' \subseteq subst \cup {top + 1} /\ top + 1 \in Commits
    BY <1>0, <2>1 DEF MakeCommit, Commits
  <2>3. subst' \subseteq 1..top'
    BY <1>0, <2>2
  <2>4. QED
    BY <2>1, <2>2, <2>3 DEF MakeCommit
<1>3. CASE \E c \in Commits : Checkout(c)
  BY <1>3 DEF Checkout
<1>4. CASE \E i \in DOMAIN Tag : MakeTag(i)
  <2>1. PICK i \in DOMAIN Tag : MakeTag(i)
    BY <1>4
  <2>2. head \in 0..MaxCommit
    BY <1>0
  <2>3. tagged' \in [TagSet -> 0..MaxCommit]
    BY <2>1, <2>2 DEF MakeTag
  <2>4. QED
    BY <2>1, <2>3 DEF MakeTag
<1>5. QED
  BY <1>1, <1>2, <1>3, <1>4

\* An import ends with a version.
LEMMA ImportInBounds ==
    ASSUME VersionBounds, ReportInv, HistoryInv, Import
    PROVE  VersionBounds' /\ stage # "done"
<1> USE DEF VersionBounds, Asking
<1>1. UNCHANGED <<repository, package>> /\ stage # "done" /\ moved' \in BOOLEAN
  BY DEF Import, Begin, GitDir, Describe, RevParse, Count, Show, GitFails, GitFailsLate
<1>2. stage' \in Asking \cup {"done", "raised"}
  BY DEF Import, Begin, GitDir, Describe, RevParse, Count, Show, GitFails, GitFailsLate,
         Ask, Finish, NextMethod
<1>3. stage' = "done" => report'.version # <<>>
  <2>1. CASE Begin
    BY <2>1, TextIsVersion DEF Begin, Finish, Ask, FromKeywords, Report, Unknown
  <2>2. CASE GitFails
    BY <2>2, TextIsVersion DEF GitFails, NextMethod, Finish, FromParentdir, Report, Unknown
  <2>3. CASE Show
    <3>1. pieces \in Pieces /\ head \in Nat /\ style \in StyleNames
      BY DEF ReportInv, AskedInv, HistoryInv
    <3>2. PICK p \in Pieces : p = [pieces EXCEPT !.date = head]
      BY <3>1, MorePieces
    <3>3. Fits(Rendered(p), p)
      BY <3>1, VersionSays
    <3>4. Rendered(p) # <<>>
      BY <3>3 DEF Fits, Begins
    <3>5. report'.version = Rendered(p)
      BY <2>3, <3>2 DEF Show, Finish, Report
    <3>6. QED
      BY <3>4, <3>5
  <2>4. CASE GitDir \/ Describe \/ RevParse \/ Count \/ GitFailsLate
    BY <2>4 DEF GitDir, Describe, RevParse, Count, GitFailsLate, Ask
  <2>5. QED
    BY <2>1, <2>2, <2>3, <2>4 DEF Import
<1>4. QED
  BY <1>1, <1>2, <1>3 DEF repository, package

\* Setup runs on a configured checkout.
LEMMA SetupInBounds ==
    ASSUME VersionBounds, ConfigInv, SetupStep \/ Configure
    PROVE  VersionBounds' /\ ConfigInv'
<1> USE DEF ConfigInv, Running, files
<1>1. ConfigInv'
  BY DEF SetupStep, Configure, ReadConfig, OpenVersionFile, WriteVersionFile, AppendSnippet,
         Include, AddLine, GitAdd, GitAddFails, SetupStops, Touch
<1>2. UNCHANGED <<top, tagged, subst, tree, stage, report, moved>> /\ dirty' \in {dirty, TRUE}
  BY DEF SetupStep, Configure, ReadConfig, OpenVersionFile, WriteVersionFile, AppendSnippet,
         Include, AddLine, GitAdd, GitAddFails, SetupStops, Touch, versionVars, repository,
         package, import
<1>3. QED
  BY <1>1, <1>2 DEF VersionBounds

\* Copies and new processes keep to the history.
LEMMA CopyInBounds ==
    ASSUME VersionBounds,
           \/ Again
           \/ \E where \in {"inside", "outside"} : Installation(where)
           \/ \E where \in {"inside", "outside"}, marks \in BOOLEAN : Archive(where, marks)
    PROVE  VersionBounds'
BY DEF VersionBounds, Again, Installation, Archive, Copy, repository, package, import, Asking

\* Every step of the program keeps these.
LEMMA StepBounds ==
    ASSUME VersionBounds, ConfigInv, ReportInv, HistoryInv, [Next]_vars
    PROVE  VersionBounds' /\ ConfigInv'
<1>1. CASE Import /\ UNCHANGED setupVars
  BY <1>1, ImportInBounds DEF ConfigInv, setupVars, files
<1>2. CASE Develop /\ UNCHANGED setupVars
  <2>1. ConfigInv'
    BY <1>2 DEF ConfigInv, setupVars, files
  <2>2. \/ Edit \/ \E expands : \E left \in BOOLEAN : MakeCommit(expands, left)
        \/ \E c \in Commits : Checkout(c)
        \/ \E i \in DOMAIN Tag : MakeTag(i)
        \/ Again \/ \E where \in {"inside", "outside"} : Installation(where)
    BY <1>2 DEF Develop
  <2>3. QED
    BY <2>1, <2>2, WorksInBounds, CopyInBounds
<1>3. CASE Release
  <2>1. CASE SetupStep \/ Configure
    BY <2>1, SetupInBounds
  <2>2. CASE \E all \in BOOLEAN : Commit(all)
    <3>1. ConfigInv'
      BY <2>2 DEF Commit, ConfigInv, files
    <3>2. \E expands : \E left \in BOOLEAN : MakeCommit(expands, left)
      BY <2>2 DEF Commit
    <3>3. QED
      BY <3>1, <3>2, WorksInBounds
  <2>3. CASE \E i \in DOMAIN Tag : MakeTag(i) /\ UNCHANGED setupVars
    BY <2>3, WorksInBounds DEF ConfigInv, setupVars, files
  <2>4. CASE \E where \in {"inside", "outside"}, marks \in BOOLEAN :
                Archive(where, marks) /\ UNCHANGED setupVars
    BY <2>4, CopyInBounds DEF ConfigInv, setupVars, files
  <2>5. QED
    BY <1>3, <2>1, <2>2, <2>3, <2>4 DEF Release
<1>4. CASE UNCHANGED <<versionVars, setupVars>>
  BY <1>4 DEF VersionBounds, ConfigInv, versionVars, repository, package, import, setupVars, files
<1>5. QED
  BY <1>1, <1>2, <1>3, <1>4 DEF Next, vars

\* No command is on its way before the import is over, and none gets anywhere near it.
LEMMA StepIdle ==
    ASSUME IdleInv, VersionBounds, ReportInv, HistoryInv, CommandsInv, [Next]_vars
    PROVE  IdleInv'
<1>1. \A p \in Process : IsProcess(proc[p])
  BY DEF CommandsInv, AllOK, ProcessOK
<1>2. proc = [p \in Process |-> proc[p]]
  BY DEF CommandsInv, AllOK
<1>3. CASE UNCHANGED <<proc, stage, task>>
  BY <1>3 DEF IdleInv
<1>4. CASE Import /\ UNCHANGED <<commandVars, task>>
  <2>1. stage # "done"
    BY <1>4, ImportInBounds
  <2>2. QED
    BY <1>4, <2>1 DEF IdleInv, commandVars
<1>5. CASE task # "use" /\ UNCHANGED <<commandVars, task>>
  BY <1>5 DEF IdleInv, commandVars
<1>6. CASE task = "use" /\ Use /\ UNCHANGED <<versionVars, task>>
  <2>1. stage' = stage /\ task' = "use"
    BY <1>6 DEF versionVars, import
  <2>2. CASE \E k \in Place : Remove(k)
    <3>1. PICK k \in Place : Remove(k)
      BY <2>2
    <3>2. ASSUME NEW p \in Process PROVE proc'[p].pc = proc[p].pc
      <4>1. [proc[p] EXCEPT !.linked = FALSE].pc = proc[p].pc
        BY <1>1 DEF IsProcess, ProcessOf
      <4>2. QED
        BY <3>1, <4>1 DEF Remove
    <3>3. QED
      BY <1>6, <2>1, <3>2 DEF IdleInv
  <2>3. CASE \E p \in Process : Start(p) \/ CommandStep(p)
    <3>1. PICK p \in Process : Start(p) \/ CommandStep(p)
      BY <2>3
    <3>2. stage = "done"
      <4>1. CASE Start(p)
        BY <4>1 DEF Start
      <4>2. CASE CommandStep(p)
        <5>1. proc[p].pc # "off"
          BY <4>2 DEF CommandStep, Test, TestBreaks, Look, MakeDir, OpenNew, Dump, CopyLogos,
                      InstallRaises, Search, Load, Rewrite, Save, RewriteRaises, FileFails, Kill,
                      At
        <5>2. QED
          BY <5>1 DEF IdleInv
      <4>3. QED
        BY <3>1, <4>1, <4>2
    <3>3. QED
      BY <2>1, <3>2 DEF IdleInv
  <2>4. QED
    BY <1>6, <2>2, <2>3 DEF Use
<1>7. \/ Import /\ UNCHANGED <<commandVars, task>>
      \/ task # "use" /\ UNCHANGED <<commandVars, task>>
      \/ task = "use" /\ Use /\ UNCHANGED <<versionVars, task>>
      \/ UNCHANGED <<proc, stage, task>>
  BY DEF Next, vars, commandVars, versionVars, import
<1>8. QED
  BY <1>3, <1>4, <1>5, <1>6, <1>7

\* Every variable keeps its type, and no command runs before its package has been
\* imported (__init__.py:22-24).
THEOREM ProgramTypes == Spec => []TypeOK
<1> DEFINE IInv == /\ ReleaseInv /\ ImportInv /\ ReportInv /\ CommandsInv
                   /\ VersionBounds /\ ConfigInv /\ IdleInv
<1>1. Init => IInv
  <2>1. Init => ReleaseInv /\ ImportInv /\ ReportInv /\ CommandsInv
    BY InitRelease, InitReports, InitCommands
  <2>2. ASSUME Init PROVE VersionBounds /\ ConfigInv /\ IdleInv
    <3>1. PICK k \in Packages : VersionInit(k) /\ SetupInit
      BY <2>2 DEF Init
    <3>2. VersionBounds
      <4>1. 1 \in Commits /\ 0 \in 0..MaxCommit
        BY VersionAssumption DEF Commits
      <4>2. k.tree \in {"checkout", "inside", "outside"}
        BY VersionAssumption
      <4>3. QED
        BY <3>1, <4>1, <4>2 DEF VersionInit, VersionBounds
    <3>3. ConfigInv
      BY <3>1 DEF SetupInit, ConfigInv, Running
    <3>4. IdleInv
      <4>1. proc = [p \in Process |-> NewProcess]
        BY <2>2 DEF Init, CommandsInit
      <4>2. QED
        BY <4>1, NewIsProcess DEF IdleInv
    <3>5. QED
      BY <3>2, <3>3, <3>4
  <2>3. QED
    BY <2>1, <2>2
<1>2. IInv /\ [Next]_vars => IInv'
  <2>1. IInv /\ [Next]_vars => ReleaseInv' /\ ImportInv' /\ ReportInv' /\ CommandsInv'
    BY StepReports, StepCommands
  <2>2. IInv /\ [Next]_vars => VersionBounds' /\ ConfigInv'
    BY StepBounds DEF ReleaseInv
  <2>3. IInv /\ [Next]_vars => IdleInv'
    BY StepIdle DEF ReleaseInv
  <2>4. QED
    BY <2>1, <2>2, <2>3
<1>3. IInv => TypeOK
  <2> SUFFICES ASSUME IInv PROVE TypeOK
    OBVIOUS
  <2>1. CommandsTypeOK
    BY DEF CommandsInv, AllOK, KernelOK, ProcessOK, Exits, CommandsTypeOK
  <2>2. VersionTypeOK
    <3>1. \A c \in 1..top : c \in 0..MaxCommit
      BY VersionAssumption DEF VersionBounds, Commits
    <3>2. QED
      BY <3>1 DEF VersionBounds, VersionTypeOK, ReleaseInv, HistoryInv, ImportInv, IsExpanded
  <2>3. PackagingTypeOK
    <3>1. 1..top \subseteq Commits
      BY VersionAssumption DEF VersionBounds, Commits
    <3>2. ripe \subseteq Commits
      BY <3>1 DEF VersionBounds, ReleaseInv, LineInv
    <3>3. QED
      BY <3>2 DEF PackagingTypeOK, ConfigInv, ReleaseInv, SetupInv, LineInv
  <2>4. \A p \in Process : ~At(p, "off") => stage = "done"
    BY DEF IdleInv, At
  <2>5. QED
    BY <2>1, <2>2, <2>3, <2>4 DEF TypeOK
<1>4. QED
  BY <1>1, <1>2, <1>3, PTL DEF Spec
=============================================================================
