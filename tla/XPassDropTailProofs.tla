------------------------ MODULE XPassDropTailProofs --------------------------
(***************************************************************************)
(* Theorems about the output port for every value of the constants.        *)
(***************************************************************************)
EXTENDS XPassDropTail, SequenceTheorems, NumberTheorems

-----------------------------------------------------------------------------
(* Arithmetic. *)

\* int arithmetic is exact while the result fits.
LEMMA WrapExact ==
  ASSUME NEW x \in Int, -INT_MAX - 1 <= x, x <= INT_MAX
  PROVE  Wrap(x) = x
<1> DEFINE n == 2 * (INT_MAX + 1)
<1>1. n \in Nat \ {0} /\ x + INT_MAX + 1 \in Nat /\ x + INT_MAX + 1 < n
  BY TimeAssumption
<1>2. (x + INT_MAX + 1) % n = x + INT_MAX + 1
  BY <1>1, ModSmall
<1> QED
  BY <1>2, TimeAssumption DEF Wrap

\* ... and an int in any case.
LEMMA WrapType ==
  ASSUME NEW x \in Int
  PROVE  Wrap(x) \in Int
<1>1. 2 * (INT_MAX + 1) \in Nat \ {0} /\ x + INT_MAX + 1 \in Int
  BY TimeAssumption
<1>2. (x + INT_MAX + 1) % (2 * (INT_MAX + 1)) \in Int
  BY <1>1
<1> QED
  BY <1>2, TimeAssumption DEF Wrap

-----------------------------------------------------------------------------
(* The bytes of a sequence. *)

\* f[i] is the total of the first i elements of s.
PartialSums(s, f) ==
  /\ f \in [0..Len(s) -> Int]
  /\ f[0] = 0
  /\ \A i \in 1..Len(s) : f[i] = f[i - 1] + s[i]

LEMMA PartialSumsExist ==
  ASSUME NEW s \in Seq(Int)
  PROVE  \E f : PartialSums(s, f)
<1> DEFINE Good(n, f) == /\ f \in [0..n -> Int]
                         /\ f[0] = 0
                         /\ \A i \in 1..n : f[i] = f[i - 1] + s[i]
           N == {n \in Nat : \E f : Good(n, f)}
<1>1. Len(s) \in Nat /\ \A i \in 1..Len(s) : s[i] \in Int
  BY LenProperties, ElementOfSeq
<1>2. 0 \in N
  <2>1. Good(0, [i \in 0..0 |-> 0])
    OBVIOUS
  <2> QED
    BY <2>1
<1>3. ASSUME NEW n \in Nat, n < Len(s), n \in N PROVE n + 1 \in N
  <2>1. PICK f : Good(n, f)
    BY <1>3
  <2> DEFINE g == [i \in 0..(n + 1) |-> IF i <= n THEN f[i] ELSE f[n] + s[n + 1]]
  <2>2. s[n + 1] \in Int /\ f[n] \in Int /\ \A i \in 0..n : f[i] \in Int
    BY <1>1, <1>3, <2>1
  <2>3. g \in [0..(n + 1) -> Int] /\ g[0] = 0
    BY <2>1, <2>2
  <2>4. ASSUME NEW i \in 1..(n + 1) PROVE g[i] = g[i - 1] + s[i]
    <3>1. CASE i <= n
      BY <2>1, <3>1
    <3>2. CASE i = n + 1
      BY <3>2
    <3> QED
      BY <3>1, <3>2
  <2>5. Good(n + 1, g)
    <3> HIDE DEF g
    <3> QED
      BY <2>3, <2>4
  <2>6. n + 1 \in Nat
    OBVIOUS
  <2> HIDE DEF g, Good
  <2> QED
    BY <2>5, <2>6
<1>4. Len(s) \in N
  <2> HIDE DEF N
  <2>1. \A n \in 0..Len(s) : n \in N
    BY <1>1, <1>2, <1>3, UpTo
  <2> QED
    BY <1>1, <2>1
<1> QED
  BY <1>4 DEF PartialSums

\* Bytes is the last partial sum.
LEMMA BytesIsSum ==
  ASSUME NEW s \in Seq(Int), NEW f, PartialSums(s, f)
  PROVE  Bytes(s) = f[Len(s)]
<1> DEFINE Def(u) == u = [i \in 0..Len(s) |-> IF i = 0 THEN 0 ELSE u[i - 1] + s[i]]
           g == CHOOSE u : Def(u)
           N == {n \in Nat : n <= Len(s) => g[n] = f[n]}
<1>1. Len(s) \in Nat
  BY LenProperties
<1>2. Def(f)
  <2>1. f = [i \in 0..Len(s) |-> f[i]]
    BY DEF PartialSums
  <2>2. \A i \in 0..Len(s) : f[i] = IF i = 0 THEN 0 ELSE f[i - 1] + s[i]
    BY <1>1 DEF PartialSums
  <2> QED
    BY <2>1, <2>2
<1>3. Def(g)
  <2> HIDE DEF Def
  <2> QED
    BY <1>2
<1>4. Bytes(s) = g[Len(s)]
  BY Zenon DEF Bytes
<1> HIDE DEF g
<1>5. 0 \in N
  BY <1>1, <1>3 DEF PartialSums
<1>6. ASSUME NEW n \in Nat, n < Len(s), n \in N PROVE n + 1 \in N
  <2>1. g[n] = f[n] /\ n + 1 \in 1..Len(s)
    BY <1>1, <1>6
  <2>2. g[n + 1] = g[n] + s[n + 1]
    BY <1>1, <1>3, <2>1
  <2>3. f[n + 1] = f[n] + s[n + 1]
    BY <2>1 DEF PartialSums
  <2> QED
    BY <2>1, <2>2, <2>3
<1>7. Len(s) \in N
  <2> HIDE DEF N
  <2>1. \A n \in 0..Len(s) : n \in N
    BY <1>1, <1>5, <1>6, UpTo
  <2> QED
    BY <1>1, <2>1
<1> QED
  BY <1>1, <1>4, <1>7

\* The bytes of a window of s, elements a+1 to b, are the difference of two
\* partial sums.
LEMMA BytesOfWindow ==
  ASSUME NEW s \in Seq(Int), NEW f, PartialSums(s, f),
         NEW a \in 0..Len(s), NEW b \in a..Len(s),
         NEW r \in Seq(Int), Len(r) = b - a,
         \A k \in 1..(b - a) : r[k] = s[a + k]
  PROVE  Bytes(r) = f[b] - f[a]
<1> DEFINE F(i) == f[a + i]
           g == [i \in 0..Len(r) |-> F(i) - F(0)]
<1>1. Len(s) \in Nat /\ Len(r) \in Nat /\ a \in Nat /\ b \in Nat /\ b <= Len(s)
  BY LenProperties
<1>2. \A i \in 0..Len(r) : F(i) \in Int
  <2>1. \A i \in 0..Len(s) : f[i] \in Int
    BY DEF PartialSums
  <2>2. \A i \in 0..Len(r) : a + i \in 0..Len(s)
    BY <1>1
  <2> QED
    BY <2>1, <2>2
<1>3. ASSUME NEW i \in 1..Len(r)
      PROVE  F(i) = F(i - 1) + r[i] /\ r[i] \in Int /\ i - 1 \in 0..Len(r)
  <2>1. a + i \in 1..Len(s) /\ (a + i) - 1 = a + (i - 1) /\ i - 1 \in 0..Len(r)
    BY <1>1
  <2>2. f[a + i] = f[(a + i) - 1] + s[a + i]
    BY <2>1 DEF PartialSums
  <2>3. s[a + i] = r[i] /\ r[i] \in Int
    BY <1>1, ElementOfSeq
  <2> QED
    BY <2>1, <2>2, <2>3
<1>0. F(0) = f[a] /\ F(Len(r)) = f[b]
  <2>1. a + 0 = a /\ a + Len(r) = b
    BY <1>1
  <2> QED
    BY <2>1
<1> HIDE DEF F
<1>4. g \in [0..Len(r) -> Int] /\ g[0] = 0
  <2>1. \A i \in 0..Len(r) : F(i) - F(0) \in Int
    BY <1>1, <1>2
  <2> QED
    BY <1>1, <1>2, <2>1
<1>5. ASSUME NEW i \in 1..Len(r) PROVE g[i] = g[i - 1] + r[i]
  <2>1. F(i) \in Int /\ F(i - 1) \in Int /\ F(0) \in Int
    BY <1>1, <1>2, <1>3
  <2>2. g[i] = F(i) - F(0) /\ g[i - 1] = F(i - 1) - F(0)
    BY <1>3
  <2>3. F(i) = F(i - 1) + r[i] /\ r[i] \in Int
    BY <1>3
  <2>4. PICK p \in Int, q \in Int, v \in Int, w \in Int :
               p = F(i) /\ q = F(i - 1) /\ v = r[i] /\ w = F(0)
    BY <2>1, <2>3
  <2>5. p = q + v
    BY <2>3, <2>4, Zenon
  <2>6. p - w = (q - w) + v
    BY <2>5
  <2>7. g[i] = p - w /\ g[i - 1] = q - w /\ r[i] = v
    BY <2>2, <2>4, Zenon
  <2> HIDE DEF g
  <2> QED
    BY <2>6, <2>7, Zenon
<1>6. PartialSums(r, g)
  <2> HIDE DEF g
  <2> QED
    BY <1>4, <1>5 DEF PartialSums
<1>7. Bytes(r) = g[Len(r)]
  <2> HIDE DEF g
  <2> QED
    BY <1>6, BytesIsSum
<1> QED
  BY <1>0, <1>1, <1>7

LEMMA BytesEmpty == Bytes(<<>>) = 0
<1>1. <<>> \in Seq(Int) /\ Len(<<>>) = 0
  BY EmptySeq
<1>2. PICK f : PartialSums(<<>>, f)
  BY <1>1, PartialSumsExist
<1> QED
  BY <1>1, <1>2, BytesIsSum DEF PartialSums

LEMMA BytesAppend ==
  ASSUME NEW s \in Seq(Int), NEW x \in Int
  PROVE  Bytes(s) \in Int /\ Bytes(Append(s, x)) = Bytes(s) + x
<1> DEFINE r == Append(s, x)
           n == Len(s)
<1>1. r \in Seq(Int) /\ Len(r) = n + 1 /\ n \in Nat
      /\ (\A i \in 1..n : r[i] = s[i]) /\ r[n + 1] = x
  BY AppendProperties, LenProperties
<1> HIDE DEF r, n
<1>2. PICK f : PartialSums(r, f)
  BY <1>1, PartialSumsExist
<1>3. f[n] \in Int /\ f[0] = 0 /\ f[n + 1] = f[n] + x
  BY <1>1, <1>2 DEF PartialSums
<1>4. Bytes(r) = f[n + 1]
  BY <1>1, <1>2, BytesIsSum
<1>5. Bytes(s) = f[n] - f[0]
  <2>1. \A k \in 1..(n - 0) : s[k] = r[0 + k]
    BY <1>1
  <2>2. 0 \in 0..Len(r) /\ n \in 0..Len(r) /\ Len(s) = n - 0
    BY <1>1 DEF n
  <2> QED
    BY <1>1, <1>2, <2>1, <2>2, BytesOfWindow
<1> QED
  BY <1>3, <1>4, <1>5 DEF r

\* Splitting a sequence splits its bytes.
LEMMA BytesSplit ==
  ASSUME NEW s \in Seq(Int), NEW n \in 0..Len(s)
  PROVE  /\ Bytes(s) \in Int
         /\ Bytes(SubSeq(s, 1, n)) \in Int
         /\ Bytes(SubSeq(s, n + 1, Len(s))) = Bytes(s) - Bytes(SubSeq(s, 1, n))
<1> DEFINE p == SubSeq(s, 1, n)
           r == SubSeq(s, n + 1, Len(s))
           l == Len(s)
<1>1. l \in Nat /\ n \in Nat /\ n <= l /\ \A i \in 1..l : s[i] \in Int
  BY LenProperties, ElementOfSeq
<1>2. /\ p \in Seq(Int) /\ Len(p) = n - 0
      /\ \A k \in 1..(n - 0) : p[k] = s[0 + k]
  <2>1. \A i \in 1..n : s[i] \in Int
    BY <1>1
  <2>2. /\ p \in Seq(Int) /\ Len(p) = IF 1 <= n THEN n - 1 + 1 ELSE 0
        /\ \A k \in 1..(n - 1 + 1) : p[k] = s[1 + k - 1]
    BY <1>1, <2>1, SubSeqProperties
  <2> HIDE DEF p
  <2> QED
    BY <1>1, <2>2
<1>3. /\ r \in Seq(Int) /\ Len(r) = l - n
      /\ \A k \in 1..(l - n) : r[k] = s[n + k]
  <2>1. \A i \in (n + 1)..l : s[i] \in Int
    BY <1>1
  <2>2. /\ r \in Seq(Int) /\ Len(r) = IF n + 1 <= l THEN l - (n + 1) + 1 ELSE 0
        /\ \A k \in 1..(l - (n + 1) + 1) : r[k] = s[(n + 1) + k - 1]
    BY <1>1, <2>1, SubSeqProperties
  <2> HIDE DEF r, l
  <2> QED
    BY <1>1, <2>2
<1>4. PICK f : PartialSums(s, f)
  BY PartialSumsExist
<1>5. Bytes(s) = f[l]
  BY <1>4, BytesIsSum
<1>6. f[0] = 0 /\ f[n] \in Int /\ f[l] \in Int
  BY <1>1, <1>4 DEF PartialSums
<1> HIDE DEF p, r, l
<1>7. Bytes(p) = f[n] - f[0]
  <2>1. 0 \in 0..Len(s) /\ n \in 0..Len(s)
    BY <1>1
  <2> QED
    BY <1>2, <1>4, <2>1, BytesOfWindow
<1>8. Bytes(r) = f[l] - f[n]
  <2>1. n \in 0..Len(s) /\ l \in n..Len(s)
    BY <1>1 DEF l
  <2> QED
    BY <1>3, <1>4, <2>1, BytesOfWindow
<1> QED
  BY <1>5, <1>6, <1>7, <1>8 DEF p, r, l

\* Taking the head off takes its size off.
LEMMA BytesTail ==
  ASSUME NEW s \in Seq(Int), s # <<>>
  PROVE  Bytes(Tail(s)) = Bytes(s) - Head(s)
<1> DEFINE one == SubSeq(s, 1, 1)
<1>1. Len(s) \in Nat /\ Len(s) >= 1
  <2>1. Len(s) \in Nat \ {0}
    BY EmptySeq
  <2> QED
    BY <2>1
<1>2. Tail(s) = SubSeq(s, 1 + 1, Len(s))
  BY TailIsSubSeq
<1>3. Bytes(Tail(s)) = Bytes(s) - Bytes(one)
  <2>1. 1 \in 0..Len(s)
    BY <1>1
  <2> QED
    BY <1>2, <2>1, BytesSplit, Zenon
<1>4. s[1] \in Int /\ Head(s) = s[1]
  BY <1>1, ElementOfSeq
<1>5. one = Append(<<>>, s[1])
  <2>1. \A i \in 1..1 : s[i] \in Int
    BY <1>4
  <2>2. one \in Seq(Int) /\ Len(one) = 1 /\ one[1] = s[1]
    BY <2>1, SubSeqProperties
  <2>3. /\ Append(<<>>, s[1]) \in Seq(Int) /\ Len(Append(<<>>, s[1])) = 1
        /\ Append(<<>>, s[1])[1] = s[1]
    <3>1. <<>> \in Seq(Int) /\ Len(<<>>) = 0
      BY EmptySeq
    <3> QED
      BY <1>4, <3>1, AppendProperties
  <2> HIDE DEF one
  <2> QED
    BY <2>2, <2>3, SeqEqual
<1>6. Bytes(one) = s[1]
  <2>1. <<>> \in Seq(Int)
    BY EmptySeq
  <2>2. Bytes(Append(<<>>, s[1])) = Bytes(<<>>) + s[1]
    BY <1>4, <2>1, BytesAppend, Zenon
  <2>3. Bytes(one) = 0 + s[1]
    BY <1>5, <2>2, BytesEmpty, Zenon
  <2> QED
    BY <1>4, <2>3
<1> QED
  BY <1>3, <1>4, <1>6

-----------------------------------------------------------------------------
(* Types. *)

CreditQueues == [pkts : Seq(CreditSizes), bytes : Int]
DataQueues == [pkts : Seq(DataSizes), bytes : Int]

\* enque keeps the type of a queue: a packet that does not fit leaves again.
LEMMA EnqueType ==
  ASSUME NEW S, \A x \in S : x \in Int,
         NEW q \in [pkts : Seq(S), bytes : Int],
         NEW size \in S, NEW limit \in Int
  PROVE  EnqueOrDrop(q, size, limit) \in [pkts : Seq(S), bytes : Int]
<1> DEFINE r == Enque(q, size)
           n == Len(r.pkts)
<1>1. q.pkts \in Seq(S) /\ q.bytes \in Int
  OBVIOUS
<1>2. /\ r = [pkts |-> Append(q.pkts, size), bytes |-> q.bytes + size]
      /\ r.pkts \in Seq(S)
      /\ r.pkts # <<>>
  BY <1>1, AppendProperties DEF Enque
<1>3. n \in Nat /\ n # 0
  BY <1>1, <1>2, AppendProperties, LenProperties
<1>4. \A i \in 1..n : r.pkts[i] \in S
  BY <1>2, ElementOfSeq
<1>5. SubSeq(r.pkts, 1, n - 1) \in Seq(S)
  <2>1. \A i \in 1..(n - 1) : r.pkts[i] \in S
    BY <1>3, <1>4
  <2> QED
    BY <1>3, <2>1, SubSeqProperties
<1>6. r.pkts[n] \in Int /\ r.bytes \in Int
  BY <1>1, <1>2, <1>3, <1>4
<1> HIDE DEF r, n
<1>7. RemoveLast(r) \in [pkts : Seq(S), bytes : Int]
  BY <1>5, <1>6 DEF RemoveLast, n
<1>8. r \in [pkts : Seq(S), bytes : Int]
  BY <1>2, <1>6
<1> QED
  BY <1>7, <1>8 DEF EnqueOrDrop, r

\* deque keeps the type of a queue that holds a packet.
LEMMA DequeType ==
  ASSUME NEW S, \A x \in S : x \in Int,
         NEW q \in [pkts : Seq(S), bytes : Int],
         q.pkts # <<>>
  PROVE  /\ Head(q.pkts) \in S
         /\ Deque(q) \in [pkts : Seq(S), bytes : Int]
<1>1. q.pkts \in Seq(S) /\ q.bytes \in Int
  OBVIOUS
<1>2. Head(q.pkts) \in S /\ Tail(q.pkts) \in Seq(S)
  BY <1>1, HeadTailProperties
<1> QED
  BY <1>1, <1>2 DEF Deque

\* The bucket's arithmetic stays within the integers.
LEMMA BucketType ==
  ASSUME tokens \in Int, token_bucket_clock \in Int, NEW t \in Int
  PROVE  NewTokens(t) \in Int /\ TokensAt(t) \in Int /\ ClockAt(t) \in Int
<1>0. TokenPeriod \in Nat \ {0} /\ INT_MAX \in Nat /\ max_tokens \in Nat
  BY TimeAssumption, LimitsAssumption
<1>1. NewTokens(t) \in Int
  <2>1. t - token_bucket_clock \in Int
    OBVIOUS
  <2>2. (t - token_bucket_clock) \div TokenPeriod \in Int
    BY <1>0, <2>1, DivMod
  <2> QED
    BY <1>0, <2>2 DEF NewTokens, ToInt
<1>2. Wrap(tokens + NewTokens(t)) \in Int
  BY <1>0, <1>1, WrapType
<1> QED
  BY <1>0, <1>1, <1>2 DEF TokensAt, ClockAt, Lesser

\* The sizes are numbers.
LEMMA SizesAreNumbers ==
  /\ \A x \in CreditSizes : x \in Int
  /\ \A x \in DataSizes : x \in Int
  BY SizesAssumption

\* SetCreditTimer sets an integer.
LEMMA TimerType ==
  ASSUME NEW pkts \in Seq(CreditSizes), NEW tok \in Int, NEW t \in Int,
         SetCreditTimer(pkts, tok, t)
  PROVE  credit_timer' \in Int
<1>1. CASE pkts = <<>>
  BY <1>1 DEF SetCreditTimer, Never
<1>2. CASE pkts # <<>>
  <2>1. Head(pkts) \in CreditSizes
    BY <1>2, HeadTailProperties
  <2>2. Head(pkts) - tok \in Int
    BY <2>1, SizesAreNumbers
  <2>3. Wrap(Head(pkts) - tok) \in Int
    BY <2>2, WrapType
  <2>4. TokenPeriod \in Int
    BY TimeAssumption
  <2> QED
    BY <1>2, <2>3, <2>4 DEF SetCreditTimer
<1> QED
  BY <1>1, <1>2

\* What TypeOK says of the variables that deque and its callers assign.
Errors == {"none", "Event UID not valid", "timer was not set",
           "scheduler going backwards in time"}
Logs == Seq([at : Nat, size : CreditSizes])
PortType ==
  /\ credit_q \in CreditQueues
  /\ data_q \in DataQueues
  /\ tokens \in Int
  /\ token_bucket_clock \in Int
  /\ credit_timer \in Int
  /\ blocked \in BOOLEAN
  /\ intr \in Int
  /\ log \in Logs
  /\ err \in Errors
EnvType ==
  /\ now \in Nat
  /\ arrivals \in 0..MaxArrivals
  /\ resets \in 0..MaxResets

LEMMA TypeSplit ==
  /\ TypeOK => PortType /\ EnvType
  /\ PortType' /\ EnvType' => TypeOK'
  BY DEF TypeOK, PortType, EnvType, CreditQueues, DataQueues, Logs, Errors

\* The end of a transmission is a number.
LEMMA TransmitType ==
  ASSUME NEW size \in Int, NEW t \in Int, NEW busy \in BOOLEAN,
         err \in Errors, Transmit(size, t, busy)
  PROVE  intr' \in Int /\ blocked' \in BOOLEAN /\ err' \in Errors
<1>1. TxPerByte \in Int
  BY TimeAssumption
<1>2. size * TxPerByte \in Int
  BY <1>1
<1>a. intr' = t + size * TxPerByte
  BY Zenon DEF Transmit
<1>3. intr' \in Int
  BY <1>2, <1>a
<1>4. blocked' \in BOOLEAN /\ err' \in Errors
  BY DEF Transmit, Errors
<1> QED
  BY <1>3, <1>4

LEMMA DequeAndSendType ==
  ASSUME PortType, NEW cq \in CreditQueues, NEW dq \in DataQueues,
         NEW t \in Nat, NEW busy \in BOOLEAN,
         DequeAndSend(cq, dq, t, busy)
  PROVE  PortType'
<1>0. /\ tokens \in Int /\ token_bucket_clock \in Int
      /\ log \in Logs /\ err \in Errors /\ intr \in Int
  BY DEF PortType
<1>1. TokensAt(t) \in Int /\ ClockAt(t) \in Int
  BY <1>0, BucketType
<1>2. token_bucket_clock' \in Int
  BY <1>1 DEF DequeAndSend
<1>3. CASE ForwardCredit(cq, dq, t, busy)
  <2> DEFINE h == Head(cq.pkts)
  <2>0. cq.pkts # <<>>
    BY <1>3 DEF ForwardCredit
  <2>1. h \in CreditSizes /\ Deque(cq) \in CreditQueues
    BY <2>0, DequeType, SizesAreNumbers DEF CreditQueues
  <2>2. h \in Int
    BY <2>1, SizesAreNumbers
  <2> HIDE DEF h
  <2>3. [at |-> t, size |-> h] \in [at : Nat, size : CreditSizes]
    BY <2>1
  <2>4. log' = Append(log, [at |-> t, size |-> h])
    BY <1>3 DEF ForwardCredit, h
  <2>5. log' \in Logs
    BY <1>0, <2>3, <2>4, AppendProperties DEF Logs
  <2>6. Transmit(h, t, busy) /\ tokens' = TokensAt(t) - h
    BY <1>3 DEF ForwardCredit, h
  <2>7. intr' \in Int /\ blocked' \in BOOLEAN /\ err' \in Errors
    BY <1>0, <2>2, <2>6, TransmitType
  <2>8. tokens' \in Int
    BY <1>1, <2>2, <2>6
  <2>9. credit_q' \in CreditQueues /\ data_q' \in DataQueues /\ credit_timer' \in Int
    BY <1>3, <2>1 DEF ForwardCredit, Never
  <2> QED
    BY <1>2, <2>5, <2>7, <2>8, <2>9 DEF PortType
<1>4. CASE ForwardData(cq, dq, t, busy)
  <2> DEFINE h == Head(dq.pkts)
  <2>0. dq.pkts # <<>>
    BY <1>4 DEF ForwardData
  <2>1. h \in DataSizes /\ Deque(dq) \in DataQueues
    BY <2>0, DequeType, SizesAreNumbers DEF DataQueues
  <2>2. h \in Int
    BY <2>1, SizesAreNumbers
  <2> HIDE DEF h
  <2>3. Transmit(h, t, busy)
    BY <1>4 DEF ForwardData, h
  <2>4. intr' \in Int /\ blocked' \in BOOLEAN /\ err' \in Errors
    BY <1>0, <2>2, <2>3, TransmitType
  <2>5. /\ credit_q' \in CreditQueues /\ data_q' \in DataQueues
        /\ credit_timer' \in Int /\ tokens' \in Int /\ log' \in Logs
    BY <1>0, <1>1, <1>4, <2>1 DEF ForwardData, Never
  <2> QED
    BY <1>2, <2>4, <2>5 DEF PortType
<1>5. CASE ForwardNothing(cq, dq, t, busy)
  <2>1. cq.pkts \in Seq(CreditSizes) /\ SetCreditTimer(cq.pkts, TokensAt(t), t)
    BY <1>5 DEF ForwardNothing, CreditQueues
  <2>2. credit_timer' \in Int
    BY <1>1, <2>1, TimerType
  <2>3. intr' \in Int /\ err' \in Errors
    <3>a. Never \in Int
      BY DEF Never
    <3>1. intr' \in Int
      BY <1>0, <1>5, <3>a, Zenon DEF ForwardNothing
    <3>2. err' \in Errors
      BY <1>0, <1>5 DEF ForwardNothing, Errors
    <3> QED
      BY <3>1, <3>2
  <2>4. /\ credit_q' \in CreditQueues /\ data_q' \in DataQueues
        /\ tokens' \in Int /\ log' \in Logs /\ blocked' \in BOOLEAN
    BY <1>0, <1>1, <1>5 DEF ForwardNothing
  <2> QED
    BY <1>2, <2>2, <2>3, <2>4 DEF PortType
<1> QED
  BY <1>3, <1>4, <1>5 DEF DequeAndSend

\* A packet arrives on well-typed queues.
LEMMA RecvType ==
  ASSUME TypeOK, NEW cq \in CreditQueues, NEW dq \in DataQueues,
         NEW t \in Nat, RecvWith(cq, dq, t)
  PROVE  TypeOK'
<1>0. PortType /\ EnvType
  BY TypeSplit
<1>1. PortType'
  <2>1. CASE blocked
    BY <1>0, <2>1 DEF RecvWith, PortType
  <2>2. CASE ~blocked
    <3>1. DequeAndSend(cq, dq, t, intr # Never)
      BY <2>2 DEF RecvWith
    <3> QED
      BY <1>0, <3>1, DequeAndSendType
  <2> QED
    BY <2>1, <2>2
<1>2. EnvType'
  BY <1>0, TimeAssumption DEF RecvWith, EnvType
<1> QED
  BY <1>1, <1>2, TypeSplit

\* Every step keeps the types.
LEMMA TypeStep == TypeOK /\ [Next]_vars => TypeOK'
<1> SUFFICES ASSUME TypeOK, [Next]_vars PROVE TypeOK'
  OBVIOUS
<1>0. /\ PortType /\ EnvType
      /\ credit_q \in CreditQueues /\ data_q \in DataQueues
  BY TypeSplit DEF PortType
<1>t. ASSUME NEW t \in now..LastArrival PROVE t \in Nat
  BY <1>0, TimeAssumption DEF EnvType
<1>l. credit_q_limit \in Int /\ data_q_limit \in Int
  BY LimitsAssumption
<1>1. ASSUME NEW t \in now..LastArrival, NEW size \in CreditSizes,
             RecvCredit(size, t)
      PROVE  TypeOK'
  <2>1. t \in Nat
    BY <1>t
  <2>2. EnqueOrDrop(credit_q, size, credit_q_limit) \in CreditQueues
    BY <1>0, <1>l, EnqueType, SizesAreNumbers DEF CreditQueues
  <2>3. RecvWith(EnqueOrDrop(credit_q, size, credit_q_limit), data_q, t)
    BY <1>1 DEF RecvCredit
  <2> QED
    BY <1>0, <2>1, <2>2, <2>3, RecvType
<1>2. ASSUME NEW t \in now..LastArrival, NEW size \in DataSizes,
             RecvData(size, t)
      PROVE  TypeOK'
  <2>1. t \in Nat
    BY <1>t
  <2>2. EnqueOrDrop(data_q, size, data_q_limit) \in DataQueues
    BY <1>0, <1>l, EnqueType, SizesAreNumbers DEF DataQueues
  <2>3. RecvWith(credit_q, EnqueOrDrop(data_q, size, data_q_limit), t)
    BY <1>2 DEF RecvData
  <2> QED
    BY <1>0, <2>1, <2>2, <2>3, RecvType
<1>3. ASSUME NEW t \in now..LastArrival, NEW n \in 0..Len(credit_q.pkts),
             NEW b \in 0..credit_q.bytes, Reset(t, n, b)
      PROVE  TypeOK'
  <2> DEFINE left == [pkts  |-> SubSeq(credit_q.pkts, n + 1, Len(credit_q.pkts)),
                      bytes |-> credit_q.bytes - b]
  <2>1. t \in Nat /\ b \in Int /\ n \in Nat
    BY <1>t
  <2>2. credit_q.pkts \in Seq(CreditSizes) /\ credit_q.bytes \in Int
    BY <1>0 DEF CreditQueues
  <2>3. Len(credit_q.pkts) \in Nat
    BY <2>2, LenProperties
  <2>4. \A i \in (n + 1)..Len(credit_q.pkts) : credit_q.pkts[i] \in CreditSizes
    BY <2>1, <2>2, <2>3, ElementOfSeq
  <2>5. left.pkts \in Seq(CreditSizes)
    BY <2>1, <2>3, <2>4, SubSeqProperties
  <2>6. left \in CreditQueues
    BY <2>1, <2>2, <2>5 DEF CreditQueues
  <2>7. TokensAt(t) \in Int /\ ClockAt(t) \in Int
    <3>1. tokens \in Int /\ token_bucket_clock \in Int
      BY <1>0 DEF PortType
    <3> QED
      BY <2>1, <3>1, BucketType
  <2>8. TokensAt(t) - b \in Int
    BY <2>1, <2>7
  <2>9. SetCreditTimer(left.pkts, TokensAt(t) - b, t)
    BY <1>3 DEF Reset
  <2>10. credit_timer' \in Int
    <3> HIDE DEF left
    <3> QED
      BY <2>1, <2>5, <2>8, <2>9, TimerType
  <2>11. EmptyQueue \in DataQueues
    BY EmptySeq DEF EmptyQueue, DataQueues
  <2>12. credit_q' \in CreditQueues /\ data_q' \in DataQueues
    BY <1>3, <2>6, <2>11 DEF Reset
  <2>13. PortType'
    BY <1>0, <1>3, <2>7, <2>8, <2>10, <2>12 DEF Reset, PortType, Errors
  <2>14. EnvType'
    <3>1. /\ now' = t /\ resets < MaxResets /\ resets' = resets + 1
          /\ arrivals' = arrivals
      BY <1>3, Zenon DEF Reset
    <3> QED
      BY <1>0, <2>1, <3>1, TimeAssumption DEF EnvType
  <2> QED
    BY <2>13, <2>14, TypeSplit
<1>4. CASE Resume
  <2>1. intr \in Nat
    BY <1>0, <1>4 DEF Resume, MayDispatch, PortType, EnvType
  <2>2. DequeAndSend(credit_q, data_q, intr, FALSE)
    BY <1>4 DEF Resume
  <2>3. PortType'
    BY <1>0, <2>1, <2>2, DequeAndSendType
  <2>4. EnvType'
    BY <1>0, <1>4, <2>1 DEF Resume, EnvType
  <2> QED
    BY <2>3, <2>4, TypeSplit
<1>5. CASE Expire
  <2>1. credit_timer \in Nat
    BY <1>0, <1>5 DEF Expire, MayDispatch, PortType, EnvType
  <2>2. PortType'
    <3>1. CASE blocked
      BY <1>0, <1>5, <3>1 DEF Expire, PortType, Never
    <3>2. CASE ~blocked
      <4>1. DequeAndSend(credit_q, data_q, credit_timer, intr # Never)
        BY <1>5, <3>2 DEF Expire
      <4> QED
        BY <1>0, <2>1, <4>1, DequeAndSendType
    <3> QED
      BY <3>1, <3>2
  <2>3. EnvType'
    BY <1>0, <1>5, <2>1 DEF Expire, EnvType
  <2> QED
    BY <2>2, <2>3, TypeSplit
<1>6. CASE UNCHANGED vars
  BY <1>6 DEF vars, TypeOK
<1> QED
  BY <1>1, <1>2, <1>3, <1>4, <1>5, <1>6 DEF Next

\* The initial state is well typed.
LEMMA InitType == Init => TypeOK
<1> SUFFICES ASSUME Init PROVE TypeOK
  OBVIOUS
<1>1. EmptyQueue \in CreditQueues /\ EmptyQueue \in DataQueues
  BY EmptySeq DEF EmptyQueue, CreditQueues, DataQueues
<1>2. log \in Logs
  BY EmptySeq DEF Init, Logs
<1>3. /\ now \in Nat /\ tokens \in Int /\ token_bucket_clock \in Int
      /\ credit_timer \in Int /\ intr \in Int
      /\ arrivals \in 0..MaxArrivals /\ resets \in 0..MaxResets
  BY TimeAssumption DEF Init, Never
<1>4. blocked \in BOOLEAN /\ err \in Errors
  BY DEF Init, Errors
<1> QED
  BY <1>1, <1>2, <1>3, <1>4
     DEF Init, TypeOK, CreditQueues, DataQueues, Logs, Errors

\* The port is well typed for every value of the constants: no sequence of
\* arrivals, expiries, transmissions and resets takes deque or enque out of
\* the domains of their queues.
THEOREM Typing == Spec => []TypeOK
  BY InitType, TypeStep, PTL DEF Spec

-----------------------------------------------------------------------------
(* Byte counts. *)

\* A queue counts its bytes and keeps to its limit.
Exact(q, limit) == q.bytes = Bytes(q.pkts) /\ q.bytes <= limit

LEMMA SeqOfSizes ==
  ASSUME NEW S, \A x \in S : x \in Nat, NEW s \in Seq(S)
  PROVE  s \in Seq(Int) /\ Bytes(s) \in Int
<1>1. S \subseteq Int
  OBVIOUS
<1>2. s \in Seq(Int)
  BY <1>1, SeqMonotonic
<1>3. Len(s) \in Nat
  BY LenProperties
<1> QED
  BY <1>2, <1>3, BytesSplit

LEMMA LimitsAreNumbers ==
  /\ credit_q_limit \in Nat /\ data_q_limit \in Nat
  /\ credit_q_limit \in Int /\ data_q_limit \in Int
  BY LimitsAssumption

LEMMA EmptyExact ==
  ASSUME NEW limit \in Nat PROVE Exact([pkts |-> <<>>, bytes |-> 0], limit)
  BY BytesEmpty DEF Exact

LEMMA NoBytesWithoutPackets ==
  ASSUME NEW q, NEW limit, Exact(q, limit), q.pkts = <<>>
  PROVE  ~(q.bytes > 0)
<1>1. q.bytes = 0
  BY BytesEmpty, Zenon DEF Exact
<1> QED
  BY <1>1

LEMMA SizesAreNaturals ==
  /\ \A x \in CreditSizes : x \in Nat
  /\ \A x \in DataSizes : x \in Nat
  BY SizesAssumption

\* enque counts the packet it keeps; a packet that does not fit leaves the
\* count as it was.
LEMMA EnqueExact ==
  ASSUME NEW S, \A x \in S : x \in Nat,
         NEW q \in [pkts : Seq(S), bytes : Int],
         NEW size \in S, NEW limit \in Int, Exact(q, limit)
  PROVE  Exact(EnqueOrDrop(q, size, limit), limit)
<1> DEFINE a == Append(q.pkts, size)
           n == Len(a)
<1>1. q.pkts \in Seq(S) /\ q.bytes \in Int /\ size \in Int
  OBVIOUS
<1>2. q.pkts \in Seq(Int)
  BY <1>1, SeqOfSizes
<1>3. Bytes(a) = q.bytes + size
  BY <1>1, <1>2, BytesAppend DEF Exact
<1>4. Enque(q, size) = [pkts |-> a, bytes |-> q.bytes + size]
  BY DEF Enque
<1>5. /\ a \in Seq(S) /\ n = Len(q.pkts) + 1 /\ a[n] = size
      /\ Len(q.pkts) \in Nat /\ \A i \in 1..Len(q.pkts) : a[i] = q.pkts[i]
  BY <1>1, AppendProperties, LenProperties
<1>6. SubSeq(a, 1, n - 1) = q.pkts
  <2>1. \A i \in 1..(n - 1) : a[i] \in S
    BY <1>1, <1>5, ElementOfSeq
  <2>2. /\ SubSeq(a, 1, n - 1) \in Seq(S)
        /\ Len(SubSeq(a, 1, n - 1)) = IF 1 <= n - 1 THEN n - 1 - 1 + 1 ELSE 0
        /\ \A i \in 1..(n - 1 - 1 + 1) : SubSeq(a, 1, n - 1)[i] = a[1 + i - 1]
    <3> HIDE DEF a, n
    <3>1. n - 1 \in Int
      BY <1>5
    <3> QED
      BY <2>1, <3>1, SubSeqProperties
  <2> HIDE DEF a, n
  <2>3. Len(SubSeq(a, 1, n - 1)) = Len(q.pkts)
    BY <1>5, <2>2
  <2>4. \A i \in 1..Len(q.pkts) : SubSeq(a, 1, n - 1)[i] = q.pkts[i]
    BY <1>5, <2>2
  <2> QED
    BY <1>1, <2>2, <2>3, <2>4, SeqEqual
<1> HIDE DEF a, n
<1>7. CASE q.bytes + size > limit
  <2>1. EnqueOrDrop(q, size, limit) = RemoveLast([pkts |-> a, bytes |-> q.bytes + size])
    BY <1>4, <1>7 DEF EnqueOrDrop
  <2>2. RemoveLast([pkts |-> a, bytes |-> q.bytes + size])
        = [pkts |-> SubSeq(a, 1, n - 1), bytes |-> (q.bytes + size) - a[n]]
    BY DEF RemoveLast, n
  <2>3. (q.bytes + size) - a[n] = q.bytes
    BY <1>1, <1>5
  <2> QED
    BY <1>6, <2>1, <2>2, <2>3 DEF Exact
<1>8. CASE ~(q.bytes + size > limit)
  <2>1. EnqueOrDrop(q, size, limit) = [pkts |-> a, bytes |-> q.bytes + size]
    BY <1>4, <1>8 DEF EnqueOrDrop
  <2> QED
    BY <1>1, <1>3, <1>8, <2>1 DEF Exact
<1> QED
  BY <1>7, <1>8

\* deque takes the size of the packet at the head off the count.
LEMMA DequeExact ==
  ASSUME NEW S, \A x \in S : x \in Nat,
         NEW q \in [pkts : Seq(S), bytes : Int], q.pkts # <<>>,
         NEW limit \in Int, Exact(q, limit)
  PROVE  Exact(Deque(q), limit)
<1>1. q.pkts \in Seq(S) /\ q.bytes \in Int
  OBVIOUS
<1>2. q.pkts \in Seq(Int)
  BY <1>1, SeqOfSizes
<1>3. Bytes(Tail(q.pkts)) = q.bytes - Head(q.pkts)
  BY <1>2, BytesTail DEF Exact
<1>4. Head(q.pkts) \in Nat
  BY <1>1, HeadTailProperties
<1> QED
  BY <1>1, <1>3, <1>4 DEF Exact, Deque

\* The counts are exact, and deque never finds bytes without packets.
Counted ==
  /\ TypeOK
  /\ err # "timer was not set"
  /\ Exact(credit_q, credit_q_limit)
  /\ Exact(data_q, data_q_limit)

LEMMA DequeAndSendCounts ==
  ASSUME NEW cq \in CreditQueues, NEW dq \in DataQueues,
         Exact(cq, credit_q_limit), Exact(dq, data_q_limit),
         NEW t \in Int, NEW busy \in BOOLEAN, DequeAndSend(cq, dq, t, busy),
         err # "timer was not set"
  PROVE  /\ err' # "timer was not set"
         /\ Exact(credit_q', credit_q_limit)
         /\ Exact(data_q', data_q_limit)
<1>1. credit_q_limit \in Int /\ data_q_limit \in Int
  BY LimitsAreNumbers, Zenon
<1>2. CASE ForwardCredit(cq, dq, t, busy)
  <2>1. /\ cq.pkts # <<>> /\ credit_q' = Deque(cq) /\ data_q' = dq
        /\ err' = IF busy THEN "Event UID not valid" ELSE err
    BY <1>2, Zenon DEF ForwardCredit, Transmit
  <2>2. Exact(Deque(cq), credit_q_limit)
    BY <1>1, <2>1, DequeExact, SizesAreNaturals DEF CreditQueues
  <2> QED
    BY <2>1, <2>2
<1>3. CASE ForwardData(cq, dq, t, busy)
  <2>1. /\ dq.pkts # <<>> /\ data_q' = Deque(dq) /\ credit_q' = cq
        /\ err' = IF busy THEN "Event UID not valid" ELSE err
    BY <1>3, Zenon DEF ForwardData, Transmit
  <2>2. Exact(Deque(dq), data_q_limit)
    BY <1>1, <2>1, DequeExact, SizesAreNaturals DEF DataQueues
  <2> QED
    BY <2>1, <2>2
<1>4. CASE ForwardNothing(cq, dq, t, busy)
  <2>1. credit_q' = cq /\ data_q' = dq
    BY <1>4, Zenon DEF ForwardNothing
  <2>2. ~(cq.pkts = <<>> /\ cq.bytes > 0 /\ dq.bytes > 0)
    BY NoBytesWithoutPackets, Zenon
  <2>3. err' # "timer was not set"
    BY <1>4, <2>2 DEF ForwardNothing
  <2> QED
    BY <2>1, <2>3
<1> QED
  BY <1>2, <1>3, <1>4 DEF DequeAndSend

LEMMA CountedStep == Counted /\ [Next]_vars => Counted'
<1> SUFFICES ASSUME Counted, [Next]_vars PROVE Counted'
  OBVIOUS
<1>0. /\ TypeOK /\ err # "timer was not set"
      /\ Exact(credit_q, credit_q_limit) /\ Exact(data_q, data_q_limit)
  BY DEF Counted
<1>1. TypeOK'
  BY <1>0, TypeStep
<1>2. /\ credit_q \in CreditQueues /\ data_q \in DataQueues
      /\ intr \in Int /\ credit_timer \in Int /\ now \in Nat
  <2>1. credit_q \in CreditQueues /\ data_q \in DataQueues
    BY <1>0 DEF TypeOK, CreditQueues, DataQueues
  <2>2. intr \in Int /\ credit_timer \in Int /\ now \in Nat
    BY <1>0, TypeSplit DEF PortType, EnvType
  <2> QED
    BY <2>1, <2>2
<1>3. credit_q_limit \in Int /\ data_q_limit \in Int /\ 0 <= data_q_limit
  BY LimitsAssumption
<1>4. ASSUME NEW cq \in CreditQueues, NEW dq \in DataQueues, NEW t \in Int,
             Exact(cq, credit_q_limit), Exact(dq, data_q_limit),
             RecvWith(cq, dq, t)
      PROVE  Counted'
  <2>1. CASE blocked
    <3>1. credit_q' = cq /\ data_q' = dq /\ err' = err
      BY <1>4, <2>1 DEF RecvWith
    <3> QED
      BY <1>0, <1>1, <1>4, <3>1 DEF Counted
  <2>2. CASE ~blocked
    <3>1. DequeAndSend(cq, dq, t, intr # Never)
      BY <1>4, <2>2 DEF RecvWith
    <3> QED
      BY <1>0, <1>1, <1>4, <3>1, DequeAndSendCounts DEF Counted
  <2> QED
    BY <2>1, <2>2
<1>5. ASSUME NEW t \in Int, NEW size \in CreditSizes, RecvCredit(size, t)
      PROVE  Counted'
  <2> DEFINE cq == EnqueOrDrop(credit_q, size, credit_q_limit)
  <2>1. cq \in CreditQueues
    BY <1>2, <1>3, EnqueType, SizesAreNumbers DEF CreditQueues
  <2>2. Exact(cq, credit_q_limit)
    BY <1>0, <1>2, <1>3, EnqueExact, SizesAreNaturals DEF CreditQueues
  <2>3. RecvWith(cq, data_q, t)
    BY <1>5 DEF RecvCredit
  <2> HIDE DEF cq
  <2> QED
    BY <1>0, <1>2, <1>4, <2>1, <2>2, <2>3
<1>6. ASSUME NEW t \in Int, NEW size \in DataSizes, RecvData(size, t)
      PROVE  Counted'
  <2> DEFINE dq == EnqueOrDrop(data_q, size, data_q_limit)
  <2>1. dq \in DataQueues
    BY <1>2, <1>3, EnqueType, SizesAreNumbers DEF DataQueues
  <2>2. Exact(dq, data_q_limit)
    BY <1>0, <1>2, <1>3, EnqueExact, SizesAreNaturals DEF DataQueues
  <2>3. RecvWith(credit_q, dq, t)
    BY <1>6 DEF RecvData
  <2> HIDE DEF dq
  <2> QED
    BY <1>0, <1>2, <1>4, <2>1, <2>2, <2>3
<1>7. ASSUME NEW t \in Int, NEW n \in 0..Len(credit_q.pkts), NEW b \in 0..credit_q.bytes,
             Reset(t, n, b)
      PROVE  Counted'
  <2> DEFINE s == credit_q.pkts
  <2>1. s \in Seq(CreditSizes) /\ credit_q.bytes \in Int /\ credit_q.bytes = Bytes(s)
    BY <1>0, <1>2 DEF CreditQueues, Exact
  <2>2. s \in Seq(Int) /\ n \in 0..Len(s)
    BY <2>1, SeqOfSizes, SizesAreNaturals
  <2> HIDE DEF s
  <2>3. /\ Bytes(s) \in Int
        /\ Bytes(SubSeq(s, 1, n)) \in Int
        /\ Bytes(SubSeq(s, n + 1, Len(s))) = Bytes(s) - Bytes(SubSeq(s, 1, n))
    BY <2>2, BytesSplit
  <2>4. b = Bytes(SubSeq(s, 1, n))
    <3>1. CASE n = 0
      <4>1. b = 0
        BY <1>7, <3>1 DEF Reset
      <4>2. SubSeq(s, 1, n) = <<>>
        BY <3>1, SubSeqEmpty
      <4> QED
        BY <4>1, <4>2, BytesEmpty
    <3>2. CASE n # 0
      BY <1>7, <3>2 DEF Reset, s
    <3> QED
      BY <3>1, <3>2
  <2>5. credit_q' = [pkts |-> SubSeq(s, n + 1, Len(s)), bytes |-> Bytes(s) - b]
    BY <1>7, <2>1 DEF Reset, s
  <2>6. b \in Nat /\ Bytes(s) <= credit_q_limit
    <3>1. credit_q.bytes <= credit_q_limit
      BY <1>0, Zenon DEF Exact
    <3> QED
      BY <2>1, <3>1
  <2>7. Exact(credit_q', credit_q_limit)
    BY <1>3, <2>3, <2>4, <2>5, <2>6 DEF Exact
  <2>8. data_q' = [pkts |-> <<>>, bytes |-> 0]
    BY <1>7 DEF Reset, EmptyQueue
  <2>9. Exact(data_q', data_q_limit)
    BY <2>8, EmptyExact, LimitsAreNumbers
  <2>10. err' # "timer was not set"
    BY <1>0, <1>7 DEF Reset
  <2> QED
    BY <1>1, <2>7, <2>9, <2>10 DEF Counted
<1>8. CASE Resume
  <2>1. DequeAndSend(credit_q, data_q, intr, FALSE)
    BY <1>8 DEF Resume
  <2> QED
    BY <1>0, <1>1, <1>2, <2>1, DequeAndSendCounts DEF Counted
<1>9. CASE Expire
  <2>1. CASE blocked
    <3>1. credit_q' = credit_q /\ data_q' = data_q /\ err' = err
      BY <1>9, <2>1 DEF Expire
    <3> QED
      BY <1>0, <1>1, <3>1 DEF Counted
  <2>2. CASE ~blocked
    <3>1. DequeAndSend(credit_q, data_q, credit_timer, intr # Never)
      BY <1>9, <2>2 DEF Expire
    <3> QED
      BY <1>0, <1>1, <1>2, <3>1, DequeAndSendCounts DEF Counted
  <2> QED
    BY <2>1, <2>2
<1>10. CASE UNCHANGED vars
  BY <1>0, <1>1, <1>10 DEF vars, Counted
<1>11. ASSUME NEW t \in now..LastArrival PROVE t \in Int
  BY <1>2, TimeAssumption
<1> QED
  BY <1>5, <1>6, <1>7, <1>8, <1>9, <1>10, <1>11 DEF Next

\* byteLength() is the sum of the sizes in the list and stays within the limit
\* through every order of enque, remove, deque and reset, so deque's "timer
\* was not set" check never fails.
THEOREM ByteLengthSafe == Spec => []ByteLengthExact
<1>1. Init => Counted
  <2> SUFFICES ASSUME Init PROVE Counted
    OBVIOUS
  <2>1. /\ err # "timer was not set"
        /\ credit_q = [pkts |-> <<>>, bytes |-> 0]
        /\ data_q = [pkts |-> <<>>, bytes |-> 0]
    BY DEF Init, EmptyQueue
  <2>2. Exact(credit_q, credit_q_limit) /\ Exact(data_q, data_q_limit)
    BY <2>1, EmptyExact, LimitsAreNumbers
  <2> QED
    BY <2>1, <2>2, InitType DEF Counted
<1>2. Counted => ByteLengthExact
  BY DEF Counted, Exact, ByteLengthExact
<1> QED
  BY <1>1, <1>2, CountedStep, PTL DEF Spec

-----------------------------------------------------------------------------
(* The link, without any condition on the length of the simulation: what   *)
(* a composition of ports relies on.                                       *)

\* blocked_ and LinkDelay's pending event go together.
LinkOwned ==
  /\ ~blocked => intr = Never
  /\ blocked => intr >= now

\* From this time on the link may take a packet.
LinkFree == IF blocked THEN intr ELSE now

\* A credit of some size goes to the link at time t.
CreditLeaves(t) ==
  \E h \in CreditSizes :
    /\ log' = Append(log, [at |-> t, size |-> h])
    /\ blocked' = TRUE
    /\ intr' = t + h * TxPerByte

\* deque and its callers, when the link is free at time t.
LEMMA DequeAndSendLink ==
  ASSUME NEW cq \in CreditQueues, NEW dq \in DataQueues, NEW t \in Nat,
         now' = t, DequeAndSend(cq, dq, t, FALSE)
  PROVE  LinkOwned' /\ LinkFree' >= t /\ (log' = log \/ CreditLeaves(t))
<1>1. ASSUME NEW size \in Nat, Transmit(size, t, FALSE)
      PROVE  LinkOwned' /\ LinkFree' >= t
  <2>1. blocked' = TRUE /\ intr' = t + size * TxPerByte
    BY <1>1, Zenon DEF Transmit
  <2>2. size * TxPerByte \in Nat
    BY TimeAssumption
  <2>3. intr' >= t
    BY <2>1, <2>2
  <2> QED
    BY <2>1, <2>3, Zenon DEF LinkOwned, LinkFree
<1>2. CASE ForwardCredit(cq, dq, t, FALSE)
  <2> DEFINE h == Head(cq.pkts)
  <2>1. /\ cq.pkts # <<>> /\ log' = Append(log, [at |-> t, size |-> h])
        /\ Transmit(h, t, FALSE)
    BY <1>2, Zenon DEF ForwardCredit
  <2>2. h \in CreditSizes
    BY <2>1, HeadTailProperties DEF CreditQueues
  <2>3. h \in Nat
    BY <2>2, SizesAreNaturals
  <2> HIDE DEF h
  <2>4. CreditLeaves(t)
    BY <2>1, <2>2, Zenon DEF CreditLeaves, Transmit
  <2> QED
    BY <1>1, <2>1, <2>3, <2>4
<1>3. CASE ForwardData(cq, dq, t, FALSE)
  <2> DEFINE h == Head(dq.pkts)
  <2>1. dq.pkts # <<>> /\ log' = log /\ Transmit(h, t, FALSE)
    BY <1>3, Zenon DEF ForwardData
  <2>2. h \in DataSizes
    BY <2>1, HeadTailProperties DEF DataQueues
  <2>3. h \in Nat
    BY <2>2, SizesAreNaturals
  <2> HIDE DEF h
  <2> QED
    BY <1>1, <2>1, <2>3
<1>4. CASE ForwardNothing(cq, dq, t, FALSE)
  <2>1. log' = log /\ blocked' = FALSE /\ intr' = Never
    BY <1>4, Zenon DEF ForwardNothing
  <2>2. t >= t
    OBVIOUS
  <2> QED
    BY <2>1, <2>2, Zenon DEF LinkOwned, LinkFree
<1> QED
  BY <1>2, <1>3, <1>4 DEF DequeAndSend

\* A packet arrives at time t, the link finishes a packet, or the timer
\* expires: a credit that leaves at time t finds the link free by then, and a
\* step without one never makes the link free earlier than before.
LEMMA LinkStep ==
  ASSUME TypeOK, LinkOwned,
         \/ \E t \in Nat : \E size \in CreditSizes : RecvCredit(size, t)
         \/ \E t \in Nat : \E size \in DataSizes : RecvData(size, t)
         \/ Resume
         \/ Expire
  PROVE  /\ TypeOK' /\ LinkOwned'
         /\ \/ log' = log /\ LinkFree' >= LinkFree
            \/ LinkFree <= now' /\ CreditLeaves(now')
<1>1. /\ credit_q \in CreditQueues /\ data_q \in DataQueues
      /\ now \in Nat /\ intr \in Int /\ credit_timer \in Int /\ blocked \in BOOLEAN
  BY TypeSplit DEF PortType, EnvType
<1>2. LinkFree \in Int
  BY <1>1 DEF LinkFree
<1>3. ASSUME NEW cq \in CreditQueues, NEW dq \in DataQueues, NEW t \in Nat,
             now' = t, LinkFree <= t, DequeAndSend(cq, dq, t, FALSE)
      PROVE  /\ LinkOwned'
             /\ \/ log' = log /\ LinkFree' >= LinkFree
                \/ LinkFree <= now' /\ CreditLeaves(now')
  <2>1. LinkOwned' /\ LinkFree' >= t /\ (log' = log \/ CreditLeaves(t))
    BY <1>3, DequeAndSendLink
  <2>2. CASE CreditLeaves(t)
    BY <1>3, <2>1, <2>2, Zenon
  <2>3. CASE log' = log
    <3>1. LinkFree' \in Int
      <4>1. blocked' \in BOOLEAN /\ intr' \in Int
        <5>1. PortType'
          BY <1>3, DequeAndSendType, TypeSplit
        <5> QED
          BY <5>1 DEF PortType
      <4> QED
        BY <1>3, <4>1 DEF LinkFree
    <3>2. LinkFree' >= LinkFree
      <4>1. \A a, b, c \in Int : a >= b /\ c <= b => a >= c
        OBVIOUS
      <4>2. t \in Int
        OBVIOUS
      <4> QED
        BY <1>2, <1>3, <2>1, <3>1, <4>1, <4>2, Zenon
    <3> QED
      BY <2>1, <2>3, <3>2, Zenon
  <2> QED
    BY <2>1, <2>2, <2>3
<1>4. ASSUME NEW t \in Nat, now' = t, t <= intr,
             blocked, blocked' = blocked, intr' = intr, log' = log
      PROVE  /\ LinkOwned'
             /\ \/ log' = log /\ LinkFree' >= LinkFree
                \/ LinkFree <= now' /\ CreditLeaves(now')
  <2>1. intr >= t /\ intr >= intr
    BY <1>1, <1>4
  <2> QED
    BY <1>4, <2>1, Zenon DEF LinkOwned, LinkFree
<1>5. ASSUME NEW cq \in CreditQueues, NEW dq \in DataQueues, NEW t \in Nat,
             RecvWith(cq, dq, t)
      PROVE  /\ LinkOwned'
             /\ \/ log' = log /\ LinkFree' >= LinkFree
                \/ LinkFree <= now' /\ CreditLeaves(now')
  <2>1. now' = t /\ now <= t /\ (intr # Never => t <= intr)
    BY <1>5, Zenon DEF RecvWith, MayDispatch
  <2>2. CASE blocked
    <3>1. blocked' = blocked /\ intr' = intr /\ log' = log
      BY <1>5, <2>2 DEF RecvWith
    <3>2. intr >= now
      BY <2>2 DEF LinkOwned
    <3>3. t <= intr
      BY <1>1, <2>1, <3>2 DEF Never
    <3> QED
      BY <1>4, <2>1, <2>2, <3>1, <3>3
  <2>3. CASE ~blocked
    <3>1. (intr # Never) = FALSE
      BY <2>3 DEF LinkOwned
    <3>2. DequeAndSend(cq, dq, t, FALSE)
      BY <1>5, <2>3, <3>1 DEF RecvWith
    <3>3. LinkFree <= t
      BY <2>1, <2>3, Zenon DEF LinkFree
    <3> QED
      BY <1>3, <2>1, <3>2, <3>3
  <2> QED
    BY <1>1, <2>2, <2>3
<1>6. ASSUME NEW t \in Nat, NEW size \in CreditSizes, RecvCredit(size, t)
      PROVE  /\ TypeOK' /\ LinkOwned'
             /\ \/ log' = log /\ LinkFree' >= LinkFree
                \/ LinkFree <= now' /\ CreditLeaves(now')
  <2>1. EnqueOrDrop(credit_q, size, credit_q_limit) \in CreditQueues
    BY <1>1, EnqueType, SizesAreNumbers, LimitsAreNumbers DEF CreditQueues
  <2>2. RecvWith(EnqueOrDrop(credit_q, size, credit_q_limit), data_q, t)
    BY <1>6 DEF RecvCredit
  <2>3. TypeOK'
    BY <1>1, <2>1, <2>2, RecvType
  <2> QED
    BY <1>1, <1>5, <2>1, <2>2, <2>3
<1>7. ASSUME NEW t \in Nat, NEW size \in DataSizes, RecvData(size, t)
      PROVE  /\ TypeOK' /\ LinkOwned'
             /\ \/ log' = log /\ LinkFree' >= LinkFree
                \/ LinkFree <= now' /\ CreditLeaves(now')
  <2>1. EnqueOrDrop(data_q, size, data_q_limit) \in DataQueues
    BY <1>1, EnqueType, SizesAreNumbers, LimitsAreNumbers DEF DataQueues
  <2>2. RecvWith(credit_q, EnqueOrDrop(data_q, size, data_q_limit), t)
    BY <1>7 DEF RecvData
  <2>3. TypeOK'
    BY <1>1, <2>1, <2>2, RecvType
  <2> QED
    BY <1>1, <1>5, <2>1, <2>2, <2>3
<1>8. CASE Resume
  <2>1. /\ now' = intr /\ now <= intr /\ intr # Never
        /\ DequeAndSend(credit_q, data_q, intr, FALSE)
    BY <1>8, Zenon DEF Resume, MayDispatch
  <2>2. PICK t \in Nat : t = intr
    BY <1>1, <2>1
  <2>3. blocked
    BY <2>1 DEF LinkOwned
  <2>4. LinkFree <= t
    <3>1. LinkFree = t
      BY <2>2, <2>3, Zenon DEF LinkFree
    <3> QED
      BY <3>1
  <2>5. now' = t /\ DequeAndSend(credit_q, data_q, t, FALSE)
    BY <2>1, <2>2, Zenon
  <2>6. TypeOK'
    BY <1>8, TypeStep DEF Next
  <2> QED
    BY <1>1, <1>3, <2>4, <2>5, <2>6
<1>9. CASE Expire
  <2>1. /\ now' = credit_timer /\ now <= credit_timer
        /\ (intr # Never => credit_timer <= intr)
    BY <1>9, Zenon DEF Expire, MayDispatch
  <2>2. PICK t \in Nat : t = credit_timer
    BY <1>1, <2>1
  <2>3. TypeOK'
    BY <1>9, TypeStep DEF Next
  <2>4. CASE blocked
    <3>1. blocked' = blocked /\ intr' = intr /\ log' = log
      BY <1>9, <2>4 DEF Expire
    <3>2. intr >= now
      BY <2>4 DEF LinkOwned
    <3>3. t <= intr
      BY <1>1, <2>1, <2>2, <3>2 DEF Never
    <3> QED
      BY <1>4, <2>1, <2>2, <2>3, <2>4, <3>1, <3>3
  <2>5. CASE ~blocked
    <3>1. (intr # Never) = FALSE
      BY <2>5 DEF LinkOwned
    <3>2. DequeAndSend(credit_q, data_q, t, FALSE)
      BY <1>9, <2>2, <2>5, <3>1 DEF Expire
    <3>3. LinkFree <= t
      BY <2>1, <2>2, <2>5, Zenon DEF LinkFree
    <3> QED
      BY <1>1, <1>3, <2>1, <2>2, <2>3, <3>2, <3>3
  <2> QED
    BY <1>1, <2>4, <2>5
<1> QED
  BY <1>6, <1>7, <1>8, <1>9

-----------------------------------------------------------------------------
(* Safety.  The conditions below are inductive together as long as the     *)
(* elapsed time of the simulation, in tokens, fits an int (HorizonFits).   *)

\* A pending timer is not in the past.
TimerAhead == credit_timer = Never \/ credit_timer >= now

\* While credits wait on an idle link the timer is set for the time at which
\* the tokens they miss have come in, counted from the last deque, at time u.
WakeExact ==
  ~blocked /\ credit_q.pkts # <<>> =>
    \E u \in Int :
      /\ token_bucket_clock <= u
      /\ u < token_bucket_clock + TokenPeriod
      /\ tokens < Head(credit_q.pkts)
      /\ credit_timer = u + (Head(credit_q.pkts) - tokens) * TokenPeriod

IInv ==
  /\ TypeOK
  /\ TokensInBucket
  /\ token_bucket_clock >= 0
  /\ NoLostWakeup
  /\ LinkNotDoubleBooked
  /\ TimerAhead
  /\ WakeExact

\* updateTokenBucket is exact and the bucket's clock stays within one token of
\* the scheduler's.
LEMMA Refill ==
  ASSUME HorizonFits, tokens \in 0..max_tokens, token_bucket_clock \in Nat,
         NEW t \in Nat, token_bucket_clock <= t, t <= SimEnd
  PROVE  /\ TokensAt(t) \in 0..max_tokens
         /\ ClockAt(t) \in Nat
         /\ ClockAt(t) <= t
         /\ t < ClockAt(t) + TokenPeriod
         /\ \E d \in Nat : /\ TokensAt(t) = Lesser(tokens + d, max_tokens)
                          /\ ClockAt(t) = token_bucket_clock + d * TokenPeriod
<1> DEFINE d == (t - token_bucket_clock) \div TokenPeriod
<1>1. /\ TokenPeriod \in Nat \ {0} /\ INT_MAX \in Nat /\ max_tokens \in Nat
      /\ SimEnd \in Nat
  BY TimeAssumption, LimitsAssumption
<1>2. t - token_bucket_clock \in Nat /\ t - token_bucket_clock <= SimEnd
  BY <1>1
<1>3. /\ d \in Int
      /\ d * TokenPeriod <= t - token_bucket_clock
      /\ t - token_bucket_clock < d * TokenPeriod + TokenPeriod
  BY <1>1, <1>2, DivMod
<1>4. d >= 0
  <2>1. 0 \div TokenPeriod = 0
    BY <1>1, DivUnique
  <2>2. 0 \div TokenPeriod <= d
    BY <1>1, <1>2, DivMono
  <2> QED
    BY <1>3, <2>1, <2>2
<1>5. d + max_tokens <= INT_MAX
  <2>1. d <= SimEnd \div TokenPeriod
    BY <1>1, <1>2, DivMono
  <2>2. SimEnd \div TokenPeriod \in Int
    BY <1>1, DivMod
  <2> HIDE DEF d
  <2> QED
    BY <1>1, <1>3, <2>1, <2>2 DEF HorizonFits
<1>6. NewTokens(t) = d
  <2>1. CASE t - token_bucket_clock <= 0
    <3>1. t - token_bucket_clock = 0
      BY <1>2, <2>1
    <3>2. d = 0
      BY <1>1, <3>1, DivUnique
    <3> QED
      BY <2>1, <3>2 DEF NewTokens
  <2>2. CASE ~(t - token_bucket_clock <= 0)
    BY <1>1, <1>3, <1>5, <2>2 DEF NewTokens, ToInt
  <2> QED
    BY <2>1, <2>2
<1> HIDE DEF d
<1>7. d * TokenPeriod \in Nat
  BY <1>1, <1>3, <1>4
<1>8. ClockAt(t) = token_bucket_clock + d * TokenPeriod
  BY <1>6 DEF ClockAt
<1>9. TokensAt(t) \in 0..max_tokens /\ TokensAt(t) = Lesser(tokens + d, max_tokens)
  <2>1. CASE t - token_bucket_clock <= 0
    <3>1. t - token_bucket_clock = 0
      BY <1>2, <2>1
    <3>2. d = 0
      BY <1>1, <3>1, DivUnique DEF d
    <3> QED
      BY <1>1, <2>1, <3>2 DEF TokensAt, Lesser
  <2>2. CASE ~(t - token_bucket_clock <= 0)
    <3>1. tokens + d \in Nat /\ tokens + d <= INT_MAX
      BY <1>1, <1>3, <1>4, <1>5
    <3>2. Wrap(tokens + d) = tokens + d
      BY <1>1, <3>1, WrapExact
    <3>3. TokensAt(t) = Lesser(tokens + d, max_tokens)
      BY <1>6, <2>2, <3>2 DEF TokensAt
    <3> QED
      BY <1>1, <3>1, <3>3 DEF Lesser
  <2> QED
    BY <2>1, <2>2
<1>10. /\ ClockAt(t) \in Nat
       /\ ClockAt(t) <= t
       /\ t < ClockAt(t) + TokenPeriod
  <2> DEFINE m == d * TokenPeriod
  <2>1. /\ m \in Nat /\ ClockAt(t) = token_bucket_clock + m
        /\ m <= t - token_bucket_clock
        /\ t - token_bucket_clock < m + TokenPeriod
    BY <1>3, <1>7, <1>8
  <2> HIDE DEF m
  <2> QED
    BY <1>1, <2>1
<1>11. d \in Nat
  BY <1>3, <1>4
<1> QED
  BY <1>8, <1>9, <1>10, <1>11

\* The delay of the credit timer: positive, and exact.
LEMMA WakeDelay ==
  ASSUME HorizonFits, NEW pkts \in Seq(CreditSizes), pkts # <<>>,
         NEW tok \in 0..max_tokens, tok < Head(pkts),
         NEW t \in Nat, SetCreditTimer(pkts, tok, t)
  PROVE  /\ ~NegativeDelay(pkts, tok)
         /\ credit_timer' = t + (Head(pkts) - tok) * TokenPeriod
         /\ credit_timer' >= t
<1> DEFINE h == Head(pkts)
<1>1. /\ TokenPeriod \in Nat \ {0} /\ INT_MAX \in Nat /\ max_tokens \in Nat
      /\ SimEnd \in Nat
  BY TimeAssumption, LimitsAssumption
<1>2. h \in CreditSizes
  BY HeadTailProperties
<1>3. h \in Nat /\ h <= max_tokens
  BY <1>2, SizesAssumption
<1>4. max_tokens <= INT_MAX
  <2>1. 0 \div TokenPeriod = 0
    BY <1>1, DivUnique
  <2>2. 0 \div TokenPeriod <= SimEnd \div TokenPeriod
    BY <1>1, DivMono
  <2>3. SimEnd \div TokenPeriod \in Int
    BY <1>1, DivMod
  <2> QED
    BY <1>1, <2>1, <2>2, <2>3 DEF HorizonFits
<1> HIDE DEF h
<1>5. h - tok \in Nat /\ h - tok <= INT_MAX
  BY <1>1, <1>3, <1>4 DEF h
<1>6. Wrap(h - tok) = h - tok
  BY <1>1, <1>5, WrapExact
<1>7. credit_timer' = t + (h - tok) * TokenPeriod
  BY <1>6 DEF SetCreditTimer, h
<1>8. ~NegativeDelay(pkts, tok)
  BY <1>5, <1>6 DEF NegativeDelay, h
<1>9. (h - tok) * TokenPeriod \in Nat
  BY <1>1, <1>5
<1> QED
  BY <1>7, <1>8, <1>9 DEF h

\* What deque and its callers leave behind at time t.
Settled(t) ==
  /\ tokens \in 0..max_tokens
  /\ token_bucket_clock \in 0..t
  /\ err \in {"none", "timer was not set"}
  /\ credit_timer = Never \/ credit_timer >= t
  /\ blocked => intr >= t
  /\ ~blocked => intr = Never /\ data_q.pkts = <<>>
  /\ ~blocked /\ credit_q.pkts # <<>> =>
       /\ credit_timer >= t
       /\ token_bucket_clock <= t
       /\ t < token_bucket_clock + TokenPeriod
       /\ tokens < Head(credit_q.pkts)
       /\ credit_timer = t + (Head(credit_q.pkts) - tokens) * TokenPeriod

LEMMA DequeAndSendSettles ==
  ASSUME HorizonFits, PortType, tokens \in 0..max_tokens,
         token_bucket_clock \in Nat, NEW t \in Nat,
         token_bucket_clock <= t, t <= SimEnd, err = "none",
         NEW cq \in CreditQueues, NEW dq \in DataQueues,
         DequeAndSend(cq, dq, t, FALSE)
  PROVE  Settled(t)'
<1>1. /\ TokensAt(t) \in 0..max_tokens
      /\ ClockAt(t) \in Nat
      /\ ClockAt(t) <= t
      /\ t < ClockAt(t) + TokenPeriod
  BY Refill
<1>2. token_bucket_clock' = ClockAt(t)
  BY DEF DequeAndSend
<1>3. max_tokens \in Nat /\ TokenPeriod \in Nat
  BY LimitsAssumption, TimeAssumption
<1>4. ASSUME NEW size \in Nat, Transmit(size, t, FALSE)
      PROVE  blocked' = TRUE /\ intr' >= t /\ err' = "none"
  <2>1. intr' = t + size * TxPerByte /\ blocked' = TRUE /\ err' = "none"
    BY <1>4, Zenon DEF Transmit
  <2>2. size * TxPerByte \in Nat
    BY TimeAssumption
  <2>3. intr' >= t
    BY <2>1, <2>2
  <2> QED
    BY <2>1, <2>3
<1>5. CASE ForwardCredit(cq, dq, t, FALSE)
  <2> DEFINE h == Head(cq.pkts)
  <2>1. cq.pkts # <<>> /\ cq.pkts \in Seq(CreditSizes)
    BY <1>5 DEF ForwardCredit, CreditQueues
  <2>2. h \in CreditSizes
    BY <2>1, HeadTailProperties
  <2>3. h \in Nat
    BY <2>2, SizesAssumption
  <2> HIDE DEF h
  <2>4. /\ Transmit(h, t, FALSE) /\ tokens' = TokensAt(t) - h
        /\ TokensAt(t) >= h /\ credit_timer' = Never
    BY <1>5, Zenon DEF ForwardCredit, h
  <2>5. tokens' \in 0..max_tokens
    BY <1>1, <1>3, <2>3, <2>4
  <2>6. blocked' = TRUE /\ intr' >= t /\ err' = "none"
    BY <1>4, <2>3, <2>4
  <2>7. token_bucket_clock' \in 0..t
    BY <1>1, <1>2
  <2> QED
    BY <2>4, <2>5, <2>6, <2>7, Zenon DEF Settled
<1>6. CASE ForwardData(cq, dq, t, FALSE)
  <2> DEFINE h == Head(dq.pkts)
  <2>1. dq.pkts # <<>> /\ dq.pkts \in Seq(DataSizes)
    BY <1>6 DEF ForwardData, DataQueues
  <2>2. h \in DataSizes
    BY <2>1, HeadTailProperties
  <2>3. h \in Nat
    BY <2>2, SizesAssumption
  <2> HIDE DEF h
  <2>4. Transmit(h, t, FALSE) /\ tokens' = TokensAt(t) /\ credit_timer' = Never
    BY <1>6, Zenon DEF ForwardData, h
  <2>5. blocked' = TRUE /\ intr' >= t /\ err' = "none"
    BY <1>4, <2>3, <2>4
  <2>6. token_bucket_clock' \in 0..t
    BY <1>1, <1>2
  <2> QED
    BY <1>1, <2>4, <2>5, <2>6, Zenon DEF Settled
<1>7. CASE ForwardNothing(cq, dq, t, FALSE)
  <2>1. /\ cq.pkts # <<>> => TokensAt(t) < Head(cq.pkts)
        /\ dq.pkts = <<>> /\ credit_q' = cq /\ data_q' = dq
        /\ tokens' = TokensAt(t) /\ blocked' = FALSE /\ intr' = Never
        /\ SetCreditTimer(cq.pkts, TokensAt(t), t)
    BY <1>7, Zenon DEF ForwardNothing
  <2>2. token_bucket_clock' \in 0..t
    BY <1>1, <1>2
  <2>3. cq.pkts \in Seq(CreditSizes)
    BY DEF CreditQueues
  <2>4. CASE cq.pkts = <<>>
    <3>1. credit_timer' = Never
      BY <2>1, <2>4, Zenon DEF SetCreditTimer
    <3>2. ~NegativeDelay(cq.pkts, TokensAt(t))
      BY <2>4, Zenon DEF NegativeDelay
    <3>3. err' \in {"none", "timer was not set"}
      BY <1>7, <3>2 DEF ForwardNothing
    <3> QED
      BY <1>1, <2>1, <2>2, <2>4, <3>1, <3>3, Zenon DEF Settled
  <2>5. CASE cq.pkts # <<>>
    <3>1. /\ ~NegativeDelay(cq.pkts, TokensAt(t))
          /\ credit_timer' = t + (Head(cq.pkts) - TokensAt(t)) * TokenPeriod
          /\ credit_timer' >= t
      BY <1>1, <2>1, <2>3, <2>5, WakeDelay
    <3>2. err' \in {"none", "timer was not set"}
      BY <1>7, <3>1 DEF ForwardNothing
    <3> QED
      BY <1>1, <1>2, <2>1, <2>2, <2>5, <3>1, <3>2, Zenon DEF Settled
  <2> QED
    BY <2>4, <2>5
<1> QED
  BY <1>5, <1>6, <1>7 DEF DequeAndSend

\* Every step keeps the invariant: a step that runs deque settles the port at
\* its own time, and the others only meet events that are not yet due.
LEMMA InvStep == HorizonFits /\ IInv /\ [Next]_vars => IInv'
<1> SUFFICES ASSUME HorizonFits, IInv, [Next]_vars PROVE IInv'
  OBVIOUS
<1>0. TypeOK' /\ PortType /\ EnvType
  BY TypeStep, TypeSplit DEF IInv
<1>1. /\ tokens \in 0..max_tokens /\ token_bucket_clock \in Nat
      /\ token_bucket_clock <= now /\ now \in Nat
  <2>1. /\ tokens \in 0..max_tokens /\ token_bucket_clock <= now
        /\ token_bucket_clock >= 0
    BY DEF IInv, TokensInBucket
  <2>2. token_bucket_clock \in Int /\ now \in Nat
    BY <1>0 DEF PortType, EnvType
  <2> QED
    BY <2>1, <2>2
<1>2. /\ credit_q \in CreditQueues /\ data_q \in DataQueues
      /\ credit_timer \in Int /\ intr \in Int /\ blocked \in BOOLEAN
  BY <1>0 DEF PortType
<1>3. ASSUME NEW t \in Nat, now' = t, Settled(t)' PROVE IInv'
  <2>1. /\ tokens' \in 0..max_tokens
        /\ token_bucket_clock' \in 0..t
        /\ err' \in {"none", "timer was not set"}
        /\ credit_timer' = Never \/ credit_timer' >= t
        /\ blocked' => intr' >= t
        /\ ~blocked' => intr' = Never /\ data_q'.pkts = <<>>
        /\ ~blocked' /\ credit_q'.pkts # <<>> =>
             /\ credit_timer' >= t
             /\ token_bucket_clock' <= t
             /\ t < token_bucket_clock' + TokenPeriod
             /\ tokens' < Head(credit_q'.pkts)
             /\ credit_timer' = t + (Head(credit_q'.pkts) - tokens') * TokenPeriod
    BY <1>3, Zenon DEF Settled
  <2>2. TokensInBucket' /\ token_bucket_clock' >= 0
    <3>0. token_bucket_clock' \in 0..t
      BY <2>1, Zenon
    <3>1. token_bucket_clock' <= now' /\ token_bucket_clock' >= 0
      BY <1>3, <3>0
    <3>2. err' # "scheduler going backwards in time"
      BY <2>1
    <3> QED
      BY <2>1, <3>1, <3>2, Zenon DEF TokensInBucket
  <2>3. LinkNotDoubleBooked' /\ NoLostWakeup' /\ TimerAhead'
    <3>1. err' # "Event UID not valid"
      BY <2>1
    <3> QED
      BY <1>3, <2>1, <3>1, Zenon DEF LinkNotDoubleBooked, NoLostWakeup, TimerAhead
  <2>4. WakeExact'
    <3>1. t \in Int
      OBVIOUS
    <3> QED
      BY <2>1, <3>1, Zenon DEF WakeExact
  <2> QED
    BY <1>0, <2>2, <2>3, <2>4 DEF IInv
<1>4. ASSUME NEW cq \in CreditQueues, NEW dq \in DataQueues, NEW t \in Nat,
             RecvWith(cq, dq, t)
      PROVE  IInv'
  <2>1. /\ now' = t /\ now <= t /\ t <= SimEnd /\ err = "none"
        /\ credit_timer # Never => t <= credit_timer
        /\ intr # Never => t <= intr
    BY <1>4, Zenon DEF RecvWith, MayDispatch
  <2>2. CASE blocked
    <3>1. UNCHANGED <<tokens, token_bucket_clock, credit_timer, blocked, intr,
                      err>>
      BY <1>4, <2>2 DEF RecvWith
    <3>2. intr >= now
      BY <2>2 DEF IInv, LinkNotDoubleBooked
    <3>3. intr >= t
      BY <1>1, <1>2, <2>1, <3>2 DEF Never
    <3>4. credit_timer = Never \/ credit_timer >= t
      BY <1>2, <2>1
    <3>5. token_bucket_clock \in 0..t
      BY <1>1, <2>1
    <3>6. err' \in {"none", "timer was not set"}
      BY <2>1, <3>1
    <3>7. Settled(t)'
      BY <1>1, <2>2, <3>1, <3>3, <3>4, <3>5, <3>6 DEF Settled
    <3> QED
      BY <1>3, <2>1, <3>7
  <2>3. CASE ~blocked
    <3>1. (intr # Never) = FALSE
      BY <2>3 DEF IInv, LinkNotDoubleBooked
    <3>2. DequeAndSend(cq, dq, t, FALSE)
      BY <1>4, <2>3, <3>1 DEF RecvWith
    <3>3. token_bucket_clock <= t
      BY <1>1, <2>1
    <3>4. Settled(t)'
      BY <1>0, <1>1, <2>1, <3>2, <3>3, DequeAndSendSettles
    <3> QED
      BY <1>3, <2>1, <3>4
  <2> QED
    BY <2>2, <2>3
<1>t. ASSUME NEW t \in now..LastArrival PROVE t \in Nat
  BY <1>1, TimeAssumption
<1>l. credit_q_limit \in Int /\ data_q_limit \in Int
  BY LimitsAssumption
<1>5. ASSUME NEW t \in now..LastArrival, NEW size \in CreditSizes,
             RecvCredit(size, t)
      PROVE  IInv'
  <2>1. t \in Nat
    BY <1>t
  <2>2. EnqueOrDrop(credit_q, size, credit_q_limit) \in CreditQueues
    BY <1>2, <1>l, EnqueType, SizesAreNumbers DEF CreditQueues
  <2>3. RecvWith(EnqueOrDrop(credit_q, size, credit_q_limit), data_q, t)
    BY <1>5 DEF RecvCredit
  <2> QED
    BY <1>2, <1>4, <2>1, <2>2, <2>3
<1>6. ASSUME NEW t \in now..LastArrival, NEW size \in DataSizes,
             RecvData(size, t)
      PROVE  IInv'
  <2>1. t \in Nat
    BY <1>t
  <2>2. EnqueOrDrop(data_q, size, data_q_limit) \in DataQueues
    BY <1>2, <1>l, EnqueType, SizesAreNumbers DEF DataQueues
  <2>3. RecvWith(credit_q, EnqueOrDrop(data_q, size, data_q_limit), t)
    BY <1>6 DEF RecvData
  <2> QED
    BY <1>2, <1>4, <2>1, <2>2, <2>3
<1>7. CASE Resume
  <2>1. /\ now' = intr /\ now <= intr /\ intr <= SimEnd /\ err = "none"
        /\ DequeAndSend(credit_q, data_q, intr, FALSE)
    BY <1>7, Zenon DEF Resume, MayDispatch
  <2>2. intr \in Nat
    BY <1>1, <1>2, <2>1
  <2>3. PICK t \in Nat : t = intr
    BY <2>2
  <2>4. /\ now' = t /\ token_bucket_clock <= t /\ t <= SimEnd
        /\ DequeAndSend(credit_q, data_q, t, FALSE)
    <3>1. now' = t /\ t <= SimEnd /\ DequeAndSend(credit_q, data_q, t, FALSE)
      BY <2>1, <2>3, Zenon
    <3>2. now <= t
      BY <2>1, <2>3, Zenon
    <3>3. token_bucket_clock <= t
      BY <1>1, <3>2
    <3> QED
      BY <3>1, <3>3, Zenon
  <2>5. Settled(t)'
    BY <1>0, <1>1, <1>2, <2>1, <2>4, DequeAndSendSettles
  <2> QED
    BY <1>3, <2>4, <2>5
<1>8. CASE Expire
  <2>1. /\ now' = credit_timer /\ now <= credit_timer /\ credit_timer <= SimEnd
        /\ err = "none"
        /\ intr # Never => credit_timer <= intr
    BY <1>8, Zenon DEF Expire, MayDispatch
  <2>2. credit_timer \in Nat
    BY <1>1, <1>2, <2>1
  <2>3. PICK t \in Nat : t = credit_timer
    BY <2>2
  <2>4. now' = t /\ token_bucket_clock <= t /\ t <= SimEnd
    BY <1>1, <2>1, <2>3
  <2>5. CASE blocked
    <3>1. /\ credit_timer' = Never
          /\ UNCHANGED <<tokens, token_bucket_clock, blocked, intr, err>>
      BY <1>8, <2>5 DEF Expire
    <3>2. intr >= now
      BY <2>5 DEF IInv, LinkNotDoubleBooked
    <3>3. intr >= t
      BY <1>1, <1>2, <2>1, <2>3, <3>2 DEF Never
    <3>4. token_bucket_clock \in 0..t
      BY <1>1, <2>4
    <3>5. err' \in {"none", "timer was not set"}
      BY <2>1, <3>1
    <3>6. Settled(t)'
      BY <1>1, <2>5, <3>1, <3>3, <3>4, <3>5 DEF Settled
    <3> QED
      BY <1>3, <2>4, <3>6
  <2>6. CASE ~blocked
    <3>1. (intr # Never) = FALSE
      BY <2>6 DEF IInv, LinkNotDoubleBooked
    <3>2. DequeAndSend(credit_q, data_q, t, FALSE)
      BY <1>8, <2>3, <2>6, <3>1 DEF Expire
    <3>3. Settled(t)'
      BY <1>0, <1>1, <1>2, <2>1, <2>4, <3>2, DequeAndSendSettles
    <3> QED
      BY <1>3, <2>4, <3>3
  <2> QED
    BY <2>5, <2>6
<1>9. ASSUME NEW t \in now..LastArrival, NEW n \in 0..Len(credit_q.pkts),
             NEW b \in 0..credit_q.bytes, Reset(t, n, b)
      PROVE  IInv'
  <2> DEFINE left == [pkts  |-> SubSeq(credit_q.pkts, n + 1, Len(credit_q.pkts)),
                      bytes |-> credit_q.bytes - b]
  <2>1. t \in Nat /\ b \in Nat
    <3>1. credit_q.bytes \in Int
      BY <1>2 DEF CreditQueues
    <3> QED
      BY <1>t, <3>1
  <2>2. /\ now' = t /\ now <= t /\ t <= SimEnd /\ err = "none"
        /\ credit_timer # Never => t <= credit_timer
        /\ intr # Never => t <= intr
    BY <1>9, Zenon DEF Reset, MayDispatch
  <2>3. token_bucket_clock <= t
    BY <1>1, <2>1, <2>2
  <2>4. /\ TokensAt(t) \in 0..max_tokens
        /\ ClockAt(t) \in Nat
        /\ ClockAt(t) <= t
        /\ t < ClockAt(t) + TokenPeriod
    BY <1>1, <2>1, <2>2, <2>3, Refill
  <2>5. credit_q' \in CreditQueues
    BY <1>0 DEF TypeOK, CreditQueues
  <2>6. /\ left.pkts # <<>> => TokensAt(t) - b < Head(left.pkts)
        /\ IF n = 0 THEN b = 0
           ELSE b = Bytes(SubSeq(credit_q.pkts, 1, n)) /\ b <= TokensAt(t)
        /\ credit_q' = left /\ data_q' = EmptyQueue
        /\ tokens' = TokensAt(t) - b
        /\ token_bucket_clock' = ClockAt(t)
        /\ SetCreditTimer(left.pkts, TokensAt(t) - b, t)
        /\ err' = IF NegativeDelay(left.pkts, TokensAt(t) - b)
                  THEN "scheduler going backwards in time" ELSE err
        /\ UNCHANGED <<blocked, intr>>
    BY <1>9 DEF Reset
  <2>7. left.pkts \in Seq(CreditSizes)
    BY <2>5, <2>6 DEF CreditQueues
  <2> HIDE DEF left
  <2>8. TokensAt(t) - b \in 0..max_tokens
    <3>1. b = 0 \/ b <= TokensAt(t)
      BY <2>6, Zenon
    <3>2. max_tokens \in Nat
      BY LimitsAssumption
    <3> QED
      BY <2>1, <2>4, <3>1, <3>2
  <2>9. EmptyQueue.pkts = <<>>
    BY DEF EmptyQueue
  <2>10. blocked => intr >= t
    <3>1. blocked => intr >= now
      BY DEF IInv, LinkNotDoubleBooked
    <3> QED
      BY <1>1, <1>2, <2>2, <3>1 DEF Never
  <2>11. ~blocked => intr = Never
    BY DEF IInv, LinkNotDoubleBooked
  <2>12. token_bucket_clock' \in 0..t
    <3>1. token_bucket_clock' = ClockAt(t)
      BY <2>6, Zenon
    <3> QED
      BY <2>1, <2>4, <3>1
  <2>13. CASE left.pkts = <<>>
    <3>1. credit_timer' = Never
      BY <2>6, <2>13, Zenon DEF SetCreditTimer
    <3>2. err' = "none"
      BY <2>2, <2>6, <2>13, Zenon DEF NegativeDelay
    <3>3. err' \in {"none", "timer was not set"}
      BY <3>2
    <3>4. Settled(t)'
      BY <2>6, <2>8, <2>9, <2>10, <2>11, <2>12, <2>13, <3>1, <3>3, Zenon
         DEF Settled
    <3> QED
      BY <1>3, <2>1, <2>2, <3>4
  <2>14. CASE left.pkts # <<>>
    <3>1. /\ ~NegativeDelay(left.pkts, TokensAt(t) - b)
          /\ credit_timer' = t + (Head(left.pkts) - (TokensAt(t) - b)) * TokenPeriod
          /\ credit_timer' >= t
      BY <2>1, <2>6, <2>7, <2>8, <2>14, WakeDelay
    <3>2. err' = "none"
      BY <2>2, <2>6, <3>1, Zenon
    <3>3. err' \in {"none", "timer was not set"}
      BY <3>2
    <3>4. Settled(t)'
      BY <2>4, <2>6, <2>8, <2>9, <2>10, <2>11, <2>12, <2>14, <3>1, <3>3, Zenon
         DEF Settled
    <3> QED
      BY <1>3, <2>1, <2>2, <3>4
  <2> QED
    BY <2>13, <2>14
<1>10. CASE UNCHANGED vars
  <2>1. UNCHANGED <<now, credit_q, data_q, tokens, token_bucket_clock,
                    credit_timer, blocked, intr, err>>
    BY <1>10 DEF vars
  <2> QED
    BY <1>0, <2>1 DEF IInv, TokensInBucket, NoLostWakeup, LinkNotDoubleBooked,
                      TimerAhead, WakeExact
<1> QED
  BY <1>5, <1>6, <1>7, <1>8, <1>9, <1>10 DEF Next

\* The exact delay of the timer is neither short nor long.
LEMMA ExactIsOnTime == HorizonFits /\ IInv => WakeOnTime
<1> SUFFICES ASSUME HorizonFits, IInv, ~blocked, credit_q.pkts # <<>>
             PROVE  /\ TokensAt(credit_timer) >= Head(credit_q.pkts)
                    /\ TokensAt(credit_timer - TokenPeriod) < Head(credit_q.pkts)
  BY Zenon DEF WakeOnTime
<1> DEFINE h == Head(credit_q.pkts)
           K == TokenPeriod
           c == token_bucket_clock
<1>1. /\ K \in Nat \ {0} /\ INT_MAX \in Nat /\ max_tokens \in Nat
      /\ SimEnd \in Nat
  BY TimeAssumption, LimitsAssumption
<1>2. PICK u \in Int : /\ c <= u
                       /\ u < c + K
                       /\ tokens < h
                       /\ credit_timer = u + (h - tokens) * K
  BY Zenon DEF IInv, WakeExact
<1>3. c \in Int /\ tokens \in 0..max_tokens /\ credit_q.pkts \in Seq(CreditSizes)
  BY DEF IInv, TypeOK, TokensInBucket
<1>4. h \in CreditSizes
  BY <1>3, HeadTailProperties
<1>5. h \in Nat /\ h <= max_tokens
  BY <1>4, SizesAssumption
<1>6. max_tokens <= INT_MAX
  <2>1. 0 \div K = 0
    BY <1>1, DivUnique
  <2>2. 0 \div K <= SimEnd \div K
    BY <1>1, DivMono
  <2>3. SimEnd \div K \in Int
    BY <1>1, DivMod
  <2> QED
    BY <1>1, <2>1, <2>2, <2>3 DEF HorizonFits
<1> HIDE DEF h, K, c
\* m token periods after time u the bucket has received m tokens
<1>7. ASSUME NEW m \in Nat, m + tokens <= max_tokens, m > 0
      PROVE  TokensAt(u + m * K) = m + tokens
  <2>1. m * K \in Nat /\ m * K >= K
    <3>1. 1 * K <= m * K
      BY <1>1, <1>7, MulMono
    <3> QED
      BY <1>1, <3>1
  <2>2. (u + m * K) - c \in Int /\ ~((u + m * K) - c <= 0)
    BY <1>1, <1>2, <1>3, <2>1
  <2>3. ((u + m * K) - c) \div K = m
    <3>1. m * K <= (u + m * K) - c /\ (u + m * K) - c < m * K + K
      BY <1>1, <1>2, <1>3, <2>1
    <3> QED
      BY <1>1, <2>2, <3>1, DivUnique
  <2>4. m <= INT_MAX /\ tokens + m \in Int /\ tokens + m <= INT_MAX
        /\ -INT_MAX - 1 <= tokens + m
    BY <1>1, <1>3, <1>6, <1>7
  <2>5. NewTokens(u + m * K) = m
    BY <1>1, <2>2, <2>3, <2>4 DEF NewTokens, ToInt, K, c
  <2>6. Wrap(tokens + m) = tokens + m
    BY <2>4, WrapExact
  <2>7. TokensAt(u + m * K) = Lesser(tokens + m, max_tokens)
    BY <2>2, <2>5, <2>6 DEF TokensAt, c
  <2> QED
    BY <1>1, <1>3, <1>7, <2>7 DEF Lesser
<1>8. h - tokens \in Nat /\ h - tokens > 0
  BY <1>2, <1>3, <1>5
<1>9. TokensAt(credit_timer) = h
  <2>1. TokensAt(u + (h - tokens) * K) = (h - tokens) + tokens
    BY <1>1, <1>3, <1>5, <1>7, <1>8
  <2>2. (h - tokens) + tokens = h
    BY <1>3, <1>5
  <2> QED
    BY <1>2, <2>1, <2>2
<1>10. TokensAt(credit_timer - K) < h
  <2> DEFINE m == (h - tokens) - 1
  <2>1. m \in Nat /\ m + tokens < h /\ m + tokens <= max_tokens
    BY <1>1, <1>3, <1>5, <1>8
  <2>2. credit_timer - K = u + m * K
    <3>1. (h - tokens) * K = m * K + K
      BY <1>1, <1>8
    <3>2. m * K \in Int
      BY <1>1, <2>1
    <3> QED
      BY <1>1, <1>2, <3>1, <3>2
  <2> HIDE DEF m
  <2>3. CASE m > 0
    BY <1>7, <2>1, <2>2, <2>3
  <2>4. CASE m = 0
    <3>1. credit_timer - K = u
      BY <1>1, <2>2, <2>4
    <3>2. (u - c) \div K = 0
      <4>1. u - c \in Int /\ 0 * K <= u - c /\ u - c < 0 * K + K
        BY <1>1, <1>2, <1>3
      <4> QED
        BY <1>1, <4>1, DivUnique
    <3>3. NewTokens(u) = 0
      BY <1>1, <3>2 DEF NewTokens, ToInt, c, K
    <3>4. Wrap(tokens + 0) = tokens + 0
      BY <1>1, <1>3, <1>6, WrapExact
    <3>5. TokensAt(u) = tokens
      BY <1>1, <1>3, <3>3, <3>4 DEF TokensAt, Lesser
    <3> QED
      BY <1>2, <3>1, <3>5
  <2> QED
    BY <2>1, <2>3, <2>4
<1> QED
  BY <1>5, <1>9, <1>10 DEF h, K

LEMMA InvInit == Init => IInv
<1> SUFFICES ASSUME Init PROVE IInv
  OBVIOUS
<1>1. TypeOK
  BY InitType
<1>2. tokens \in 0..max_tokens /\ token_bucket_clock <= now /\ token_bucket_clock >= 0
  BY LimitsAssumption DEF Init
<1>3. err # "scheduler going backwards in time" /\ err # "Event UID not valid"
  BY DEF Init
<1>4. credit_q.pkts = <<>> /\ data_q.pkts = <<>> /\ blocked = FALSE
      /\ intr = Never /\ credit_timer = Never
  BY DEF Init, EmptyQueue
<1> QED
  BY <1>1, <1>2, <1>3, <1>4, Zenon
     DEF IInv, TokensInBucket, NoLostWakeup, LinkNotDoubleBooked, TimerAhead,
         WakeExact

\* The invariant holds as long as int arithmetic does not overflow.
LEMMA Invariance == ASSUME HorizonFits PROVE Spec => []IInv
  BY InvInit, InvStep, PTL DEF Spec

\* Tokens stay between zero and max_tokens_, the bucket's clock never passes
\* the scheduler's and no timer is set in the past (updateTokenBucket, deque).
THEOREM BucketSafe == ASSUME HorizonFits PROVE Spec => []TokensInBucket
<1>1. IInv => TokensInBucket
  BY DEF IInv
<1> QED
  BY <1>1, Invariance, PTL

\* No packet waits on an idle link without an event that will send it: every
\* path through recv, resume, expire and reset leaves the link busy, the queues
\* empty or the credit timer pending.
THEOREM WakeupSafe == ASSUME HorizonFits PROVE Spec => []NoLostWakeup
<1>1. IInv => NoLostWakeup
  BY DEF IInv
<1> QED
  BY <1>1, Invariance, PTL

\* The queue and the link agree on who owns the link, so LinkDelay's only
\* intr_ event is never scheduled twice.
THEOREM LinkSafe == ASSUME HorizonFits PROVE Spec => []LinkNotDoubleBooked
<1>1. IInv => LinkNotDoubleBooked
  BY DEF IInv
<1> QED
  BY <1>1, Invariance, PTL

\* The credit timer expires when, and only when, the bucket has the tokens for
\* the credit at the head of the queue.
THEOREM WakeOnTimeSafe == ASSUME HorizonFits PROVE Spec => []WakeOnTime
<1>1. IInv => WakeOnTime
  BY ExactIsOnTime
<1> QED
  BY <1>1, Invariance, PTL

-----------------------------------------------------------------------------
(* The port as a credit shaper.  Level is what the bucket is worth in time *)
(* units: the tokens it holds and the time not yet turned into tokens.     *)

LEMMA DepthType ==
  /\ TokenPeriod \in Nat \ {0} /\ max_tokens \in Nat
  /\ TokenPeriod * max_tokens \in Nat
  /\ Depth \in Nat
<1>1. TokenPeriod \in Nat \ {0} /\ max_tokens \in Nat
  BY TimeAssumption, LimitsAssumption
<1>2. TokenPeriod * max_tokens \in Nat
  BY <1>1
<1> QED
  BY <1>1, <1>2 DEF Depth

\* updateTokenBucket turns time into tokens without adding to what the bucket
\* is worth, and what it throws away is what exceeds Depth.
LEMMA RefillLevel ==
  ASSUME HorizonFits, tokens \in 0..max_tokens, token_bucket_clock \in Nat,
         NEW t \in Nat, token_bucket_clock <= t, t <= SimEnd
  PROVE  /\ TokenPeriod * TokensAt(t) \in Nat
         /\ TokenPeriod * tokens \in Nat
         /\ TokenPeriod * TokensAt(t) + t - ClockAt(t) <= Depth
         /\ TokenPeriod * TokensAt(t) + t - ClockAt(t)
              <= TokenPeriod * tokens + t - token_bucket_clock
<1> DEFINE K == TokenPeriod
           c == token_bucket_clock
           T == TokensAt(t)
           C == ClockAt(t)
<1>1. K \in Nat \ {0} /\ max_tokens \in Nat
  BY DepthType
<1>2. T \in 0..max_tokens /\ C \in Nat /\ C <= t /\ t < C + K
  BY Refill
<1>3. PICK d \in Nat : T = Lesser(tokens + d, max_tokens) /\ C = c + d * K
  BY Refill
<1> HIDE DEF T, C, c
<1>4. c \in Nat /\ T \in Nat /\ tokens \in Nat
  BY <1>1, <1>2 DEF c
<1>5. K * T \in Nat /\ K * tokens \in Nat /\ K * max_tokens \in Nat /\ d * K \in Nat
  BY <1>1, <1>4
<1>6. K * T <= K * max_tokens /\ K * T <= K * tokens + d * K
  <2>1. T <= max_tokens /\ T <= tokens + d
    BY <1>1, <1>3, <1>4 DEF Lesser
  <2>2. T * K <= max_tokens * K /\ T * K <= (tokens + d) * K
    <3>1. tokens + d \in Int /\ T \in Int /\ max_tokens \in Int /\ K \in Nat
      BY <1>1, <1>4
    <3> QED
      BY <2>1, <3>1, MulMono
  <2>3. /\ T * K = K * T /\ max_tokens * K = K * max_tokens
        /\ (tokens + d) * K = K * tokens + d * K
    BY <1>1, <1>4, Z3
  <2> QED
    BY <2>2, <2>3
<1>7. Depth = K * max_tokens + K - 1
  BY DEF Depth
<1>8. ASSUME NEW a \in Nat, NEW m \in Nat, NEW x \in Nat, NEW y \in Nat,
             a = K * T, m = K * max_tokens, x = K * tokens, y = d * K
      PROVE  a + t - C <= m + K - 1 /\ a + t - C <= x + t - c
  <2>1. a <= m /\ a <= x + y /\ C = c + y
    BY <1>3, <1>6, <1>8
  <2> HIDE DEF K
  <2> QED
    BY <1>1, <1>2, <1>4, <2>1
<1>9. K * T + t - C <= Depth /\ K * T + t - C <= K * tokens + t - c
  BY <1>5, <1>7, <1>8
<1> QED
  BY <1>5, <1>9 DEF T, C, c

\* A step at time t that leaves the bucket alone.
LEMMA LevelWaits ==
  ASSUME TypeOK, TokensInBucket, NEW t \in Nat, now <= t,
         now' = t, tokens' = tokens, token_bucket_clock' = token_bucket_clock
  PROVE  Level' >= 0 /\ Level' <= Shaper!Refilled(t)
<1> DEFINE x == TokenPeriod * tokens
<1>1. /\ tokens \in 0..max_tokens /\ token_bucket_clock <= now
      /\ token_bucket_clock \in Int /\ now \in Nat
  BY DEF TypeOK, TokensInBucket
<1>2. x \in Nat /\ Depth \in Nat
  <2>1. TokenPeriod \in Nat /\ tokens \in Nat
    BY <1>1, DepthType
  <2> QED
    BY <2>1, DepthType
<1>3. Level = Lesser(Depth, x + now - token_bucket_clock)
  BY DEF Level
<1>4. Level' = Lesser(Depth, x + t - token_bucket_clock)
  BY DEF Level, Lesser, Depth
<1> HIDE DEF x
<1>5. Level' >= 0
  BY <1>1, <1>2, <1>4 DEF Lesser
<1>6. Level' <= Shaper!Refilled(t)
  BY <1>1, <1>2, <1>3, <1>4 DEF Lesser, Shaper!Refilled
<1> QED
  BY <1>5, <1>6

\* A step that refills the bucket at time t and takes b tokens out of it.
LEMMA LevelPays ==
  ASSUME HorizonFits, TypeOK, TokensInBucket, token_bucket_clock >= 0,
         NEW t \in Nat, now <= t, t <= SimEnd,
         NEW b \in Nat, b <= TokensAt(t),
         now' = t, tokens' = TokensAt(t) - b, token_bucket_clock' = ClockAt(t)
  PROVE  /\ Level' >= 0
         /\ TokenPeriod * b \in Nat
         /\ Level' <= Shaper!Refilled(t) - TokenPeriod * b
         /\ Level' <= Shaper!Refilled(t)
<1> DEFINE x == TokenPeriod * tokens
           a == TokenPeriod * TokensAt(t)
           y == TokenPeriod * b
           C == ClockAt(t)
<1>1. /\ tokens \in 0..max_tokens /\ token_bucket_clock <= now
      /\ token_bucket_clock \in Nat /\ now \in Nat
  <2>1. tokens \in 0..max_tokens /\ token_bucket_clock <= now
    BY Zenon DEF TokensInBucket
  <2>2. token_bucket_clock \in Int /\ now \in Nat
    BY Zenon DEF TypeOK
  <2> QED
    BY <2>1, <2>2
<1>2. token_bucket_clock <= t
  BY <1>1
<1>3. /\ a \in Nat /\ x \in Nat
      /\ a + t - C <= Depth /\ a + t - C <= x + t - token_bucket_clock
  BY <1>1, <1>2, RefillLevel
<1>4. TokensAt(t) \in 0..max_tokens /\ C \in Nat /\ C <= t
  BY <1>1, <1>2, Refill
<1>5. Depth \in Nat /\ TokenPeriod \in Nat /\ max_tokens \in Nat
  BY DepthType
<1>6. TokenPeriod * tokens' = a - y /\ y \in Nat /\ y <= a
  <2>1. TokensAt(t) \in Nat
    BY <1>4, <1>5
  <2>2. TokenPeriod * (TokensAt(t) - b) = a - y /\ y \in Nat
    BY <1>5, <2>1, Z3
  <2>3. b * TokenPeriod <= TokensAt(t) * TokenPeriod
    BY <1>5, <2>1, MulMono
  <2>4. b * TokenPeriod = y /\ TokensAt(t) * TokenPeriod = a
    BY <1>5, <2>1, Z3
  <2> QED
    BY <2>2, <2>3, <2>4
<1>7. Level = Lesser(Depth, x + now - token_bucket_clock)
  BY DEF Level
<1>8. Level' = Lesser(Depth, (a - y) + t - C)
  <2>1. Level' = Lesser(Depth, TokenPeriod * tokens' + t - C)
    BY DEF Level, Lesser, Depth
  <2> QED
    BY <1>6, <2>1
<1> HIDE DEF x, a, y, C
<1>9. Level' = (a - y) + t - C
  BY <1>3, <1>4, <1>5, <1>6, <1>8 DEF Lesser
<1>10. Level' >= 0
  BY <1>3, <1>4, <1>6, <1>9
<1>11. a + t - C <= Shaper!Refilled(t)
  BY <1>1, <1>3, <1>4, <1>5, <1>7 DEF Lesser, Shaper!Refilled
<1>12. Shaper!Refilled(t) \in Int
  BY <1>1, <1>3, <1>5, <1>7 DEF Lesser, Shaper!Refilled
<1> QED
  BY <1>3, <1>4, <1>6, <1>9, <1>10, <1>11, <1>12 DEF y

\* deque and its callers: a credit that goes to the link is paid for in full,
\* and without one the bucket is only refilled.
LEMMA DequeAndSendShapes ==
  ASSUME HorizonFits, TypeOK, TokensInBucket, token_bucket_clock >= 0,
         NEW t \in Nat, now <= t, t <= SimEnd, now' = t,
         NEW cq \in CreditQueues, NEW dq \in DataQueues, NEW busy \in BOOLEAN,
         DequeAndSend(cq, dq, t, busy)
  PROVE  Shaper!Next
<1>0. token_bucket_clock' = ClockAt(t)
  BY DEF DequeAndSend
<1>1. TokensAt(t) \in Nat
  <2>1. /\ tokens \in 0..max_tokens /\ token_bucket_clock <= now
        /\ token_bucket_clock \in Int /\ now \in Nat
    BY Zenon DEF TypeOK, TokensInBucket
  <2>2. token_bucket_clock \in Nat /\ token_bucket_clock <= t
    BY <2>1
  <2>3. TokensAt(t) \in 0..max_tokens
    BY <2>1, <2>2, Refill
  <2> QED
    BY <2>3, DepthType
<1>2. ASSUME log' = log, tokens' = TokensAt(t) PROVE Shaper!Next
  <2>1. tokens' = TokensAt(t) - 0 /\ 0 <= TokensAt(t)
    BY <1>1, <1>2
  <2>2. Level' >= 0 /\ Level' <= Shaper!Refilled(t)
    BY <1>0, <2>1, LevelPays
  <2>3. Shaper!Idle
    BY <1>2, <2>2, Zenon DEF Shaper!Idle
  <2> QED
    BY <2>3, Zenon DEF Shaper!Next
<1>3. CASE ForwardCredit(cq, dq, t, busy)
  <2> DEFINE h == Head(cq.pkts)
  <2>1. /\ cq.pkts # <<>> /\ TokensAt(t) >= h /\ tokens' = TokensAt(t) - h
        /\ log' = Append(log, [at |-> t, size |-> h])
    BY <1>3, Zenon DEF ForwardCredit
  <2>2. h \in CreditSizes
    BY <2>1, HeadTailProperties DEF CreditQueues
  <2>3. h \in Nat
    BY <2>2, SizesAreNaturals
  <2> HIDE DEF h
  <2>4. h <= TokensAt(t)
    BY <1>1, <2>1, <2>3
  <2>5. Level' >= 0 /\ Level' <= Shaper!Refilled(t) - TokenPeriod * h
    BY <1>0, <2>1, <2>3, <2>4, LevelPays
  <2>6. Shaper!SendCredit(h)
    BY <2>1, <2>5, Zenon DEF Shaper!SendCredit
  <2> QED
    BY <2>2, <2>6, Zenon DEF Shaper!Next
<1>4. CASE ForwardData(cq, dq, t, busy)
  <2>1. log' = log /\ tokens' = TokensAt(t)
    BY <1>4, Zenon DEF ForwardData
  <2> QED
    BY <1>2, <2>1
<1>5. CASE ForwardNothing(cq, dq, t, busy)
  <2>1. log' = log /\ tokens' = TokensAt(t)
    BY <1>5, Zenon DEF ForwardNothing
  <2> QED
    BY <1>2, <2>1
<1> QED
  BY <1>3, <1>4, <1>5, Zenon DEF DequeAndSend

LEMMA ShaperStep ==
  HorizonFits /\ IInv /\ [Next]_vars => [Shaper!Next]_(Shaper!shaperVars)
<1> SUFFICES ASSUME HorizonFits, IInv, [Next]_vars
             PROVE  Shaper!Next \/ UNCHANGED Shaper!shaperVars
  OBVIOUS
<1>0. TypeOK /\ TokensInBucket /\ token_bucket_clock >= 0
  BY DEF IInv
<1>1. /\ now \in Nat /\ intr \in Int /\ credit_timer \in Int
      /\ blocked \in BOOLEAN
      /\ credit_q \in CreditQueues /\ data_q \in DataQueues
  BY <1>0 DEF TypeOK, CreditQueues, DataQueues
<1>2. ASSUME NEW t \in Nat, now <= t, now' = t, log' = log,
             tokens' = tokens, token_bucket_clock' = token_bucket_clock
      PROVE  Shaper!Next
  <2>1. Level' >= 0 /\ Level' <= Shaper!Refilled(t)
    BY <1>0, <1>2, LevelWaits
  <2>2. Shaper!Idle
    BY <1>2, <2>1, Zenon DEF Shaper!Idle
  <2> QED
    BY <2>2, Zenon DEF Shaper!Next
<1>3. ASSUME NEW cq \in CreditQueues, NEW dq \in DataQueues, NEW t \in Nat,
             RecvWith(cq, dq, t)
      PROVE  Shaper!Next
  <2>1. now' = t /\ now <= t /\ t <= SimEnd
    BY <1>3, Zenon DEF RecvWith, MayDispatch
  <2>2. CASE blocked
    <3>1. UNCHANGED <<tokens, token_bucket_clock, log>>
      BY <1>3, <2>2 DEF RecvWith
    <3> QED
      BY <1>2, <2>1, <3>1
  <2>3. CASE ~blocked
    <3>1. DequeAndSend(cq, dq, t, intr # Never)
      BY <1>3, <2>3 DEF RecvWith
    <3> QED
      BY <1>0, <2>1, <3>1, DequeAndSendShapes
  <2> QED
    BY <2>2, <2>3
<1>t. ASSUME NEW t \in now..LastArrival PROVE t \in Nat
  BY <1>1, TimeAssumption
<1>4. ASSUME NEW t \in now..LastArrival, NEW size \in CreditSizes,
             RecvCredit(size, t)
      PROVE  Shaper!Next
  <2>1. t \in Nat
    BY <1>t
  <2>2. EnqueOrDrop(credit_q, size, credit_q_limit) \in CreditQueues
    BY <1>1, EnqueType, SizesAreNumbers, LimitsAreNumbers DEF CreditQueues
  <2>3. RecvWith(EnqueOrDrop(credit_q, size, credit_q_limit), data_q, t)
    BY <1>4 DEF RecvCredit
  <2> QED
    BY <1>1, <1>3, <2>1, <2>2, <2>3
<1>5. ASSUME NEW t \in now..LastArrival, NEW size \in DataSizes,
             RecvData(size, t)
      PROVE  Shaper!Next
  <2>1. t \in Nat
    BY <1>t
  <2>2. EnqueOrDrop(data_q, size, data_q_limit) \in DataQueues
    BY <1>1, EnqueType, SizesAreNumbers, LimitsAreNumbers DEF DataQueues
  <2>3. RecvWith(credit_q, EnqueOrDrop(data_q, size, data_q_limit), t)
    BY <1>5 DEF RecvData
  <2> QED
    BY <1>1, <1>3, <2>1, <2>2, <2>3
<1>6. ASSUME NEW t \in now..LastArrival, NEW n \in 0..Len(credit_q.pkts),
             NEW b \in 0..credit_q.bytes, Reset(t, n, b)
      PROVE  Shaper!Next
  <2>1. t \in Nat /\ b \in Nat
    <3>1. credit_q.bytes \in Int
      BY <1>1 DEF CreditQueues
    <3> QED
      BY <1>t, <3>1
  <2>2. now' = t /\ now <= t /\ t <= SimEnd
    BY <1>6, Zenon DEF Reset, MayDispatch
  <2>3. /\ tokens' = TokensAt(t) - b /\ token_bucket_clock' = ClockAt(t)
        /\ log' = log /\ (b = 0 \/ b <= TokensAt(t))
    BY <1>6 DEF Reset
  <2>4. b <= TokensAt(t)
    <3>1. token_bucket_clock \in Nat /\ token_bucket_clock <= t
          /\ tokens \in 0..max_tokens
      <4>1. tokens \in 0..max_tokens /\ token_bucket_clock <= now
        BY <1>0, Zenon DEF TokensInBucket
      <4>2. token_bucket_clock \in Int
        BY <1>0, Zenon DEF TypeOK
      <4> QED
        BY <1>0, <1>1, <2>1, <2>2, <4>1, <4>2
    <3>2. TokensAt(t) \in 0..max_tokens
      BY <2>1, <2>2, <3>1, Refill
    <3> QED
      BY <2>1, <2>3, <3>2, DepthType
  <2>5. Level' >= 0 /\ Level' <= Shaper!Refilled(t)
    BY <1>0, <2>1, <2>2, <2>3, <2>4, LevelPays
  <2>6. Shaper!Idle
    BY <2>2, <2>3, <2>5, Zenon DEF Shaper!Idle
  <2> QED
    BY <2>6, Zenon DEF Shaper!Next
<1>7. CASE Resume
  <2>1. /\ now' = intr /\ now <= intr /\ intr <= SimEnd
        /\ DequeAndSend(credit_q, data_q, intr, FALSE)
    BY <1>7, Zenon DEF Resume, MayDispatch
  <2>2. intr \in Nat
    BY <1>1, <2>1
  <2> QED
    BY <1>0, <1>1, <2>1, <2>2, DequeAndSendShapes
<1>8. CASE Expire
  <2>1. now' = credit_timer /\ now <= credit_timer /\ credit_timer <= SimEnd
    BY <1>8, Zenon DEF Expire, MayDispatch
  <2>2. credit_timer \in Nat
    BY <1>1, <2>1
  <2>3. CASE blocked
    <3>1. UNCHANGED <<tokens, token_bucket_clock, log>>
      BY <1>8, <2>3 DEF Expire
    <3> QED
      BY <1>2, <2>1, <2>2, <3>1
  <2>4. CASE ~blocked
    <3>1. DequeAndSend(credit_q, data_q, credit_timer, intr # Never)
      BY <1>8, <2>4 DEF Expire
    <3> QED
      BY <1>0, <1>1, <2>1, <2>2, <3>1, DequeAndSendShapes
  <2> QED
    BY <2>3, <2>4
<1>9. CASE UNCHANGED vars
  <2>1. UNCHANGED <<now, tokens, token_bucket_clock, log>>
    BY <1>9 DEF vars
  <2>2. Level' = Level
    BY <2>1 DEF Level, Lesser, Depth
  <2> QED
    BY <2>1, <2>2 DEF Shaper!shaperVars
<1> QED
  BY <1>4, <1>5, <1>6, <1>7, <1>8, <1>9 DEF Next

LEMMA ShaperInit == Init => Shaper!Init
<1> SUFFICES ASSUME Init PROVE Shaper!Init
  OBVIOUS
<1>1. now = 0 /\ tokens = 0 /\ token_bucket_clock = 0 /\ log = <<>>
  BY DEF Init
<1>2. Level = 0
  BY <1>1, DepthType DEF Level, Lesser
<1> QED
  BY <1>1, <1>2 DEF Shaper!Init

\* The port implements the credit shaper: whatever arrives, and whatever the
\* lazy refill, the timer and the resets do, no credit is sent that the token
\* rate has not paid for.
THEOREM ShaperRefinement == ASSUME HorizonFits PROVE Spec => ShaperSpec
<1>1. Init /\ [][Next]_vars => []IInv
  BY InvInit, InvStep, PTL
<1>2. Init /\ [][Next]_vars => Shaper!Init /\ [][Shaper!Next]_(Shaper!shaperVars)
  BY <1>1, ShaperInit, ShaperStep, PTL
<1> QED
  BY <1>2, PTL DEF Spec, ShaperSpec, Shaper!Spec

-----------------------------------------------------------------------------
(* Conformance over windows, from the steps of the shaper alone.           *)

\* The credits of the log from the i-th to the j-th, and their bytes.
Window(i, j) == [k \in 1..(j - i + 1) |-> log[i + k - 1].size]
Spent(i, j) == Bytes(Window(i, j))

LEMMA WindowType ==
  ASSUME log \in Logs, NEW i \in Nat \ {0}, NEW j \in i - 1..Len(log)
  PROVE  /\ Window(i, j) \in Seq(Int)
         /\ Len(Window(i, j)) = j - i + 1
         /\ Spent(i, j) \in Int
<1> DEFINE w == Window(i, j)
           n == j - i + 1
<1>1. Len(log) \in Nat /\ \A k \in 1..Len(log) : log[k] \in [at : Nat, size : CreditSizes]
  BY LenProperties, ElementOfSeq DEF Logs
<1>2. n \in Nat
  BY <1>1
<1>3. \A k \in 1..n : i + k - 1 \in 1..Len(log)
  BY <1>1
<1>4. \A k \in 1..n : log[i + k - 1].size \in Int
  BY <1>1, <1>3, SizesAreNumbers
<1>5. w = [k \in 1..n |-> log[i + k - 1].size]
  BY DEF Window
<1>6. w \in [1..n -> Int]
  <2> HIDE DEF w, n
  <2> QED
    BY <1>4, <1>5
<1>7. w \in Seq(Int) /\ Len(w) = n
  <2> HIDE DEF w, n
  <2>1. w \in Seq(Int)
    BY <1>2, <1>6, SeqDef
  <2>2. DOMAIN w = 1..n /\ DOMAIN w = 1..Len(w) /\ Len(w) \in Nat
    BY <1>6, <2>1, LenProperties
  <2>3. Len(w) = n
    BY <1>2, <2>2
  <2> QED
    BY <2>1, <2>3
<1>8. Len(w) \in Nat
  BY <1>7, LenProperties
<1>9. Bytes(w) \in Int
  BY <1>7, <1>8, BytesSplit
<1> QED
  BY <1>7, <1>9 DEF Spent

\* A credit that is added to the log extends the windows that reach its end
\* and leaves the others alone.
LEMMA AppendNumber ==
  ASSUME NEW w \in Seq(Int), NEW h \in Int, NEW m \in Int, Len(w) = m
  PROVE  /\ Append(w, h) \in Seq(Int)
         /\ Len(Append(w, h)) = m + 1
         /\ \A k \in 1..m : Append(w, h)[k] = w[k]
         /\ Append(w, h)[m + 1] = h
  BY AppendProperties

LEMMA WindowGrows ==
  ASSUME log \in Logs, log' \in Logs, NEW n \in Nat, n = Len(log),
         NEW t \in Nat, NEW h \in CreditSizes,
         log' = Append(log, [at |-> t, size |-> h])
  PROVE  /\ Len(log') = n + 1
         /\ \A i \in 1..n : log'[i] = log[i]
         /\ log'[n + 1] = [at |-> t, size |-> h]
         /\ \A i \in 1..n : \A j \in i..n : Spent(i, j)' = Spent(i, j)
         /\ \A i \in 1..n : Spent(i, n + 1)' = Spent(i, n) + h
         /\ Spent(n + 1, n + 1)' = h
<1> DEFINE e == [at |-> t, size |-> h]
<1>1. n \in Nat /\ h \in Int /\ e \in [at : Nat, size : CreditSizes]
  BY LenProperties, SizesAreNumbers DEF Logs
<1>2. Len(log') = n + 1 /\ log'[n + 1] = e /\ \A i \in 1..n : log'[i] = log[i]
  <2> HIDE DEF e
  <2> QED
    BY <1>1, AppendProperties DEF Logs, e
<1>3. e.size = h
  OBVIOUS
<1> HIDE DEF e
<1>4. ASSUME NEW i \in 1..n, NEW j \in i..n PROVE Spent(i, j)' = Spent(i, j)
  <2>1. \A k \in 1..(j - i + 1) : log'[i + k - 1].size = log[i + k - 1].size
    <3>1. \A k \in 1..(j - i + 1) : i + k - 1 \in 1..n
      BY <1>1
    <3> QED
      BY <1>2, <3>1
  <2>2. Window(i, j)' = Window(i, j)
    BY <2>1 DEF Window
  <2> QED
    BY <2>2 DEF Spent, Bytes
<1>5. ASSUME NEW i \in 1..(n + 1)
      PROVE  Spent(i, n + 1)' = Spent(i, n) + h
  <2> DEFINE v == [k \in 1..((n + 1) - i + 1) |-> log'[i + k - 1].size]
             w == Window(i, n)
  <2>1. i \in Nat \ {0} /\ n \in (i - 1)..Len(log) /\ n + 1 \in (i - 1)..Len(log')
    BY <1>1, <1>2
  <2>2. w \in Seq(Int) /\ Len(w) = n - i + 1
    BY <2>1, WindowType
  <2>3. v = Window(i, n + 1)'
    BY DEF Window
  <2>4. (n + 1) - i + 1 \in Nat /\ \A k \in 1..((n + 1) - i + 1) : i + k - 1 \in 1..(n + 1)
    BY <1>1
  <2>a. \A k \in 1..((n + 1) - i + 1) :
          k <= n - i + 1 \/ (k = (n - i + 1) + 1 /\ i + k - 1 = n + 1)
    BY <1>1
  <2>5. \A k \in 1..((n + 1) - i + 1) : log'[i + k - 1].size \in Int
    <3>1. \A k \in 1..(n + 1) : log'[k] \in [at : Nat, size : CreditSizes]
      BY <1>2, ElementOfSeq DEF Logs
    <3> QED
      BY <2>4, <3>1, SizesAreNumbers
  <2>6. v \in Seq(Int) /\ Len(v) = (n + 1) - i + 1
    <3>1. v \in [1..((n + 1) - i + 1) -> Int]
      BY <2>5
    <3> HIDE DEF v
    <3>2. v \in Seq(Int)
      BY <2>4, <3>1, SeqDef
    <3>3. DOMAIN v = 1..((n + 1) - i + 1) /\ DOMAIN v = 1..Len(v) /\ Len(v) \in Nat
      BY <3>1, <3>2, LenProperties
    <3>4. Len(v) = (n + 1) - i + 1
      BY <2>4, <3>3
    <3> QED
      BY <3>2, <3>4
  <2>7. v = Append(w, h)
    <3>1. /\ Append(w, h) \in Seq(Int) /\ Len(Append(w, h)) = (n - i + 1) + 1
          /\ (\A k \in 1..(n - i + 1) : Append(w, h)[k] = w[k])
          /\ Append(w, h)[(n - i + 1) + 1] = h
      <4>1. n - i + 1 \in Int
        BY <1>1
      <4>2. PICK m \in Int : m = n - i + 1
        BY <4>1
      <4> HIDE DEF w
      <4>3. w \in Seq(Int) /\ Len(w) = m /\ h \in Int
        BY <1>1, <2>2, <4>2, Zenon
      <4>4. /\ Append(w, h) \in Seq(Int) /\ Len(Append(w, h)) = m + 1
            /\ (\A k \in 1..m : Append(w, h)[k] = w[k])
            /\ Append(w, h)[m + 1] = h
        BY <4>3, AppendNumber, Zenon
      <4> QED
        BY <4>2, <4>4, Zenon
    <3>2. ASSUME NEW k \in 1..((n + 1) - i + 1) PROVE v[k] = Append(w, h)[k]
      <4>1. v[k] = log'[i + k - 1].size
        OBVIOUS
      <4>2. CASE k <= n - i + 1
        <5>1. k \in 1..(n - i + 1) /\ i + k - 1 \in 1..n
          BY <1>1, <4>2
        <5>2. w[k] = log[i + k - 1].size
          BY <5>1 DEF Window
        <5>3. log'[i + k - 1] = log[i + k - 1]
          BY <1>2, <5>1
        <5> HIDE DEF v, w
        <5> QED
          BY <3>1, <4>1, <5>1, <5>2, <5>3
      <4>3. CASE ~(k <= n - i + 1)
        <5>1. k = (n - i + 1) + 1 /\ i + k - 1 = n + 1
          BY <2>a, <4>3, Zenon
        <5>2. log'[i + k - 1].size = h
          BY <1>2, <1>3, <5>1
        <5> HIDE DEF v, w
        <5> QED
          BY <3>1, <4>1, <5>1, <5>2
      <4> QED
        BY <4>2, <4>3
    <3>3. Len(v) = Len(Append(w, h))
      <4>1. (n + 1) - i + 1 = (n - i + 1) + 1
        BY <1>1
      <4> HIDE DEF v, w
      <4> QED
        BY <2>6, <3>1, <4>1
    <3> HIDE DEF v, w
    <3> QED
      BY <2>6, <3>1, <3>2, <3>3, SeqEqual
  <2>8. Bytes(v) = Bytes(w) + h
    <3> HIDE DEF v, w
    <3> QED
      BY <1>1, <2>2, <2>7, BytesAppend
  <2>9. Spent(i, n + 1)' = Bytes(v)
    BY DEF Spent, Window, Bytes
  <2> QED
    BY <2>8, <2>9 DEF Spent
<1>6. Spent(n + 1, n + 1)' = h
  <2>1. Spent(n + 1, n) = 0
    <3>1. n + 1 \in Nat \ {0} /\ n \in ((n + 1) - 1)..Len(log)
      BY <1>1
    <3>2. Window(n + 1, n) \in Seq(Int) /\ Len(Window(n + 1, n)) = 0
      <4>1. /\ Window(n + 1, n) \in Seq(Int)
            /\ Len(Window(n + 1, n)) = n - (n + 1) + 1
        BY <3>1, WindowType, Zenon
      <4>2. n - (n + 1) + 1 = 0
        BY <1>1
      <4> QED
        BY <4>1, <4>2, Zenon
    <3>3. Window(n + 1, n) = <<>>
      BY <3>2, EmptySeq
    <3> QED
      BY <3>3, BytesEmpty DEF Spent
  <2>2. Spent(n + 1, n + 1)' = Spent(n + 1, n) + h
    BY <1>1, <1>5
  <2> QED
    BY <1>1, <2>1, <2>2
<1> QED
  BY <1>1, <1>2, <1>4, <1>5, <1>6 DEF e

\* What has been spent since the i-th credit and what is left in the bucket
\* were both paid for by one full bucket and the time since that credit.
Budget ==
  \A i \in 1..Len(log) :
    TokenPeriod * Spent(i, Len(log)) + Level <= Depth + now - log[i].at

Conforming ==
  /\ \A i \in 1..Len(log) : \A j \in i..Len(log) :
       TokenPeriod * Spent(i, j) <= Depth + log[j].at - log[i].at
  /\ Budget

LEMMA LevelType ==
  ASSUME TypeOK PROVE Level \in Int /\ now \in Nat /\ log \in Logs /\ Level <= Depth
<1>1. tokens \in Int /\ now \in Nat /\ token_bucket_clock \in Int /\ log \in Logs
  BY Zenon DEF TypeOK, Logs
<1>2. TokenPeriod * tokens \in Int /\ Depth \in Int
  <2>1. TokenPeriod \in Int /\ Depth \in Int
    BY DepthType
  <2> QED
    BY <1>1, <2>1
<1>3. TokenPeriod * tokens + now - token_bucket_clock \in Int
  BY <1>1, <1>2
<1> QED
  BY <1>1, <1>2, <1>3 DEF Level, Lesser

LEMMA RefilledBound ==
  ASSUME NEW l \in Int, NEW m \in Int, NEW u \in Nat, NEW t \in Nat,
         NEW D \in Nat, NEW y \in Nat, l <= D,
         m <= (IF l + (t - u) <= D THEN l + (t - u) ELSE D) - y
  PROVE  m <= l + (t - u) - y /\ m <= D - y /\ y + m <= D
  OBVIOUS

LEMMA SpendBound ==
  ASSUME NEW l \in Int, NEW m \in Int, NEW u \in Nat, NEW t \in Nat,
         NEW D \in Nat, NEW y \in Nat, NEW a \in Nat, NEW x \in Int,
         x + l <= D + u - a, m <= l + (t - u) - y
  PROVE  (x + y) + m <= D + t - a
  OBVIOUS

LEMMA DropBound ==
  ASSUME NEW x \in Int, NEW m \in Int, NEW D \in Nat, NEW t \in Nat, NEW a \in Nat,
         m >= 0, x + m <= D + t - a
  PROVE  x <= D + t - a
  OBVIOUS

\* No step of the shaper can spend what the windows do not allow.
LEMMA ConformingStep ==
  ASSUME TypeOK, TypeOK', Conforming,
         Shaper!Next \/ UNCHANGED Shaper!shaperVars
  PROVE  Conforming'
<1> DEFINE K == TokenPeriod
<1>0. K \in Nat /\ Depth \in Nat
  BY DepthType
<1>1. /\ Level \in Int /\ now \in Nat /\ log \in Logs /\ Level <= Depth
      /\ Level' \in Int /\ now' \in Nat /\ log' \in Logs
  <2>1. Level \in Int /\ now \in Nat /\ log \in Logs /\ Level <= Depth
    BY LevelType
  <2>2. Level' \in Int /\ now' \in Nat /\ log' \in Logs
    <3>1. tokens' \in Int /\ now' \in Nat /\ token_bucket_clock' \in Int /\ log' \in Logs
      BY Zenon DEF TypeOK, Logs
    <3>2. TokenPeriod * tokens' \in Int
      BY <1>0, <3>1
    <3>3. TokenPeriod * tokens' + now' - token_bucket_clock' \in Int
      BY <3>1, <3>2
    <3>4. Level' = Lesser(Depth, TokenPeriod * tokens' + now' - token_bucket_clock')
      BY DEF Level, Lesser, Depth
    <3>5. Level' \in Int
      <4>1. ASSUME NEW a \in Int, NEW b \in Int PROVE Lesser(a, b) \in Int
        BY DEF Lesser
      <4>2. Depth \in Int
        BY <1>0
      <4> QED
        BY <3>3, <3>4, <4>1, <4>2, Zenon
    <3> QED
      BY <3>1, <3>5
  <2> QED
    BY <2>1, <2>2
<1>2. PICK n \in Nat : n = Len(log)
  BY <1>1, LenProperties DEF Logs
<1>3. \A i \in 1..n : log[i] \in [at : Nat, size : CreditSizes]
  BY <1>1, <1>2, ElementOfSeq DEF Logs
<1>4. \A i \in 1..n : log[i].at \in Nat
  BY <1>3
<1>5. \A i \in 1..n : \A j \in i..n : Spent(i, j) \in Int
  <2> SUFFICES ASSUME NEW i \in 1..n, NEW j \in i..n PROVE Spent(i, j) \in Int
    OBVIOUS
  <2>1. i \in Nat \ {0} /\ j \in (i - 1)..Len(log)
    BY <1>2
  <2> QED
    BY <1>1, <2>1, WindowType
<1>6. \A i \in 1..n : \A j \in i..n : K * Spent(i, j) <= Depth + log[j].at - log[i].at
  BY <1>2 DEF Conforming
<1>7. \A i \in 1..n : K * Spent(i, n) + Level <= Depth + now - log[i].at
  BY <1>2 DEF Conforming, Budget
<1>8. ASSUME log' = log, now' >= now, Level' <= Level + (now' - now)
      PROVE  Conforming'
  <2>1. /\ \A i, j : Spent(i, j)' = Spent(i, j)
        /\ Len(log') = n
    BY <1>2, <1>8 DEF Spent, Window, Bytes
  <2>2. ASSUME NEW i \in 1..n
        PROVE  K * Spent(i, n) + Level' <= Depth + now' - log[i].at
    <3>1. K * Spent(i, n) + Level <= Depth + now - log[i].at
      BY <1>7
    <3>2. K * Spent(i, n) \in Int /\ log[i].at \in Nat
      <4>1. Spent(i, n) \in Int
        BY <1>5
      <4> QED
        BY <1>0, <1>4, <4>1
    <3> QED
      BY <1>0, <1>1, <1>8, <3>1, <3>2
  <2>3. Budget'
    <3>1. \A i \in 1..n : K * Spent(i, n)' + Level' <= Depth' + now' - log'[i].at
      BY <1>8, <2>1, <2>2 DEF Depth
    <3> QED
      BY <1>8, <2>1, <3>1, Zenon DEF Budget
  <2> QED
    BY <1>2, <1>6, <1>8, <2>1, <2>3 DEF Conforming, Depth
<1>9. ASSUME NEW h \in CreditSizes, Shaper!SendCredit(h) PROVE Conforming'
  <2>1. /\ now' >= now /\ Level' >= 0
        /\ Level' <= Shaper!Refilled(now') - K * h
        /\ log' = Append(log, [at |-> now', size |-> h])
    BY <1>9, Zenon DEF Shaper!SendCredit
  <2>2. h \in Nat /\ K * h \in Nat
    <3>1. h \in Nat
      BY SizesAreNaturals
    <3> QED
      BY <1>0, <3>1
  <2>3. /\ Level' <= Level + (now' - now) - K * h /\ Level' <= Depth - K * h
        /\ K * h + Level' <= Depth
    <3>1. Level' <= (IF Level + (now' - now) <= Depth
                     THEN Level + (now' - now) ELSE Depth) - K * h
      BY <2>1, Zenon DEF Shaper!Refilled
    <3> QED
      BY <1>0, <1>1, <2>2, <3>1, RefilledBound, Zenon
  <2>4. PICK t \in Nat : t = now'
    BY <1>1
  <2>5. /\ Len(log') = n + 1
        /\ \A i \in 1..n : log'[i] = log[i]
        /\ log'[n + 1] = [at |-> t, size |-> h]
        /\ \A i \in 1..n : \A j \in i..n : Spent(i, j)' = Spent(i, j)
        /\ \A i \in 1..n : Spent(i, n + 1)' = Spent(i, n) + h
        /\ Spent(n + 1, n + 1)' = h
    <3>1. log' = Append(log, [at |-> t, size |-> h])
      BY <2>1, <2>4, Zenon
    <3> QED
      BY <1>1, <1>2, <3>1, WindowGrows, Zenon
  <2>6. log'[n + 1].at = t
    BY <2>5
  <2>7. ASSUME NEW i \in 1..(n + 1)
        PROVE  K * Spent(i, n + 1)' + Level' <= Depth + now' - log'[i].at
    <3>1. CASE i = n + 1
      <4>1. log'[i].at = now' /\ Spent(i, n + 1)' = h
        BY <2>4, <2>5, <2>6, <3>1
      <4>2. Depth + now' - now' = Depth
        <5>1. \A D, x \in Nat : D + x - x = D
          OBVIOUS
        <5> QED
          BY <1>0, <1>1, <5>1, Zenon
      <4>3. K * h + Level' <= Depth
        BY <2>3, Zenon
      <4> QED
        BY <4>1, <4>2, <4>3, Zenon
    <3>2. CASE i # n + 1
      <4>1. i \in 1..n
        BY <3>2
      <4>2. log'[i] = log[i] /\ Spent(i, n + 1)' = Spent(i, n) + h
        BY <2>5, <4>1
      <4>3. Spent(i, n) \in Int /\ log[i].at \in Nat
        BY <1>4, <1>5, <4>1
      <4>4. K * (Spent(i, n) + h) = K * Spent(i, n) + K * h /\ K * Spent(i, n) \in Int
        BY <1>0, <2>2, <4>3, Z3
      <4>5. K * Spent(i, n) + Level <= Depth + now - log[i].at
        BY <1>7, <4>1
      <4>6. (K * Spent(i, n) + K * h) + Level' <= Depth + now' - log[i].at
        BY <1>0, <1>1, <2>2, <2>3, <4>3, <4>4, <4>5, SpendBound, Zenon
      <4> QED
        BY <4>2, <4>4, <4>6, Zenon
    <3> QED
      BY <3>1, <3>2
  <2>8. Budget'
    <3>1. \A i \in 1..(n + 1) : K * Spent(i, n + 1)' + Level' <= Depth' + now' - log'[i].at
      BY <2>7 DEF Depth
    <3> QED
      BY <2>5, <3>1, Zenon DEF Budget
  <2>9. ASSUME NEW i \in 1..(n + 1), NEW j \in i..(n + 1)
        PROVE  K * Spent(i, j)' <= Depth + log'[j].at - log'[i].at
    <3>1. CASE j = n + 1
      <4>1. K * Spent(i, n + 1)' + Level' <= Depth + now' - log'[i].at
        BY <2>7
      <4>2. Spent(i, n + 1)' \in Int /\ log'[i].at \in Nat
        <5>1. CASE i = n + 1
          BY <2>2, <2>5, <2>6, <5>1
        <5>2. CASE i # n + 1
          <6>1. i \in 1..n
            BY <5>2
          <6>2. Spent(i, n + 1)' = Spent(i, n) + h /\ log'[i] = log[i]
            BY <2>5, <6>1
          <6> QED
            BY <1>4, <1>5, <2>2, <6>1, <6>2
        <5> QED
          BY <5>1, <5>2
      <4>3. K * Spent(i, n + 1)' \in Int
        BY <1>0, <4>2
      <4>4. K * Spent(i, n + 1)' <= Depth + now' - log'[i].at
        BY <1>0, <1>1, <2>1, <4>1, <4>2, <4>3, DropBound, Zenon
      <4> QED
        BY <2>4, <2>6, <3>1, <4>4, Zenon
    <3>2. CASE j # n + 1
      <4>1. i \in 1..n /\ j \in i..n /\ j \in 1..n
        BY <3>2
      <4>2. log'[i] = log[i] /\ log'[j] = log[j] /\ Spent(i, j)' = Spent(i, j)
        BY <2>5, <4>1
      <4> QED
        BY <1>6, <4>1, <4>2, Zenon
    <3> QED
      BY <3>1, <3>2
  <2>10. \A i \in 1..Len(log') : \A j \in i..Len(log') :
           K * Spent(i, j)' <= Depth' + log'[j].at - log'[i].at
    <3>1. \A i \in 1..(n + 1) : \A j \in i..(n + 1) :
            K * Spent(i, j)' <= Depth' + log'[j].at - log'[i].at
      BY <2>9 DEF Depth
    <3> QED
      BY <2>5, <3>1, Zenon
  <2> QED
    BY <2>8, <2>10, Zenon DEF Conforming
<1>10. CASE Shaper!Idle
  <2>1. log' = log /\ now' >= now /\ Level' <= Shaper!Refilled(now')
    BY <1>10, Zenon DEF Shaper!Idle
  <2>2. Level' <= Level + (now' - now)
    <3>1. ASSUME NEW l \in Int, NEW m \in Int, NEW u \in Nat, NEW t \in Nat,
                 NEW D \in Nat, m <= IF l + (t - u) <= D THEN l + (t - u) ELSE D
          PROVE  m <= l + (t - u)
      BY <3>1
    <3>2. Level' <= IF Level + (now' - now) <= Depth
                    THEN Level + (now' - now) ELSE Depth
      BY <2>1, Zenon DEF Shaper!Refilled
    <3> QED
      BY <1>0, <1>1, <3>1, <3>2, Zenon
  <2> QED
    BY <1>8, <2>1, <2>2
<1>11. CASE UNCHANGED Shaper!shaperVars
  <2>1. log' = log /\ now' = now /\ Level' = Level
    BY <1>11, Zenon DEF Shaper!shaperVars
  <2>2. now' >= now /\ Level' <= Level + (now' - now)
    BY <1>1, <2>1
  <2> QED
    BY <1>8, <2>1, <2>2
<1> QED
  BY <1>9, <1>10, <1>11 DEF Shaper!Next

\* Over every window the credits that the port gives to the link keep to the
\* token rate and one bucket of burst.
THEOREM CreditsConformSafe == ASSUME HorizonFits PROVE Spec => []CreditsConform
<1>1. Init => Conforming
  <2> SUFFICES ASSUME Init PROVE Conforming
    OBVIOUS
  <2>1. Len(log) = 0
    BY EmptySeq DEF Init
  <2>2. 1..Len(log) = {}
    BY <2>1
  <2> QED
    BY <2>2, Zenon DEF Conforming, Budget
<1>2. IInv /\ IInv' /\ Conforming /\ [Next]_vars => Conforming'
  <2> SUFFICES ASSUME IInv, IInv', Conforming, [Next]_vars PROVE Conforming'
    OBVIOUS
  <2>1. Shaper!Next \/ UNCHANGED Shaper!shaperVars
    BY ShaperStep
  <2>2. TypeOK /\ TypeOK'
    BY DEF IInv
  <2> QED
    BY <2>1, <2>2, ConformingStep
<1>3. Conforming => CreditsConform
  BY DEF Conforming, CreditsConform, Spent, Window
<1> QED
  BY <1>1, <1>2, <1>3, Invariance, PTL DEF Spec

=============================================================================
