------------------------------- MODULE JsonProofs ------------------------------
(***************************************************************************)
(* Proofs about the text inside the messages, for texts and buffers of any *)
(* length.  The loops of the source are recursive functions of JsonText,   *)
(* forwards over the turns of json_escape and backwards from the end of    *)
(* the text in Decode and Extract: the first part shows by induction that  *)
(* such functions exist, which is what makes their equations usable.       *)
(***************************************************************************)
EXTENDS JsonText, Integers, TLAPS, NaturalsInduction, WellFoundedInduction,
        SequenceTheorems, FiniteSetTheorems

--------------------------------------------------------------------------------
(* Induction and recursion *)

\* Induction over the natural numbers, for a set.
LEMMA NumberInduction ==
    ASSUME NEW S, 0 \in S, \A n \in Nat : n \in S => n + 1 \in S
    PROVE  \A n \in Nat : n \in S
<1> DEFINE Less == {ss \in Nat \X Nat : ss[1] < ss[2]}
           I == {n \in Nat : n \notin S}
<1>1. IsWellFoundedOn(Less, Nat)
  BY NatLessThanWellFounded DEF OpToRel
<1>2. SUFFICES ASSUME I # {} PROVE FALSE
  OBVIOUS
<1>3. PICK m \in I : \A j \in I : ~(<<j, m>> \in Less)
  <2>1. I \in SUBSET Nat
    OBVIOUS
  <2> HIDE DEF Less, I
  <2> QED
    BY <1>1, <1>2, <2>1, WFMin
<1>4. \A j \in I : ~(j < m)
  BY <1>3
<1>5. m # 0 /\ m - 1 \in Nat
  BY <1>3
<1>6. m - 1 \in S
  BY <1>4, <1>5
<1>7. (m - 1) + 1 \in S
  BY <1>5, <1>6
<1> QED
  BY <1>3, <1>5, <1>7

\* A function can be defined turn by turn: each value from the one before.
LEMMA ForwardRecursion ==
    ASSUME NEW X, NEW x0 \in X, NEW N \in Nat, NEW F \in [1 .. N -> [X -> X]]
    PROVE  \E f \in [0 .. N -> X] : /\ f[0] = x0
                                    /\ \A j \in 1 .. N : f[j] = F[j][f[j - 1]]
<1> DEFINE Upto(k, f) == f[0] = x0 /\ \A j \in 1 .. N : j =< k => f[j] = F[j][f[j - 1]]
           S == {k \in Nat : k =< N => \E f \in [0 .. N -> X] : Upto(k, f)}
<1>1. 0 \in S
  <2> DEFINE f == [j \in 0 .. N |-> x0]
  <2>1. f \in [0 .. N -> X] /\ Upto(0, f)
    OBVIOUS
  <2> QED
    BY <2>1
<1>2. ASSUME NEW k \in Nat, k \in S PROVE k + 1 \in S
  <2> SUFFICES ASSUME k + 1 =< N PROVE \E f \in [0 .. N -> X] : Upto(k + 1, f)
    OBVIOUS
  <2>1. PICK f \in [0 .. N -> X] : Upto(k, f)
    BY <1>2
  <2> DEFINE g == [f EXCEPT ![k + 1] = F[k + 1][f[k]]]
  <2>2. g \in [0 .. N -> X] /\ g[k + 1] = F[k + 1][f[k]]
    OBVIOUS
  <2>3. \A j \in 0 .. N : j # k + 1 => g[j] = f[j]
    OBVIOUS
  <2> HIDE DEF g
  <2>4. Upto(k + 1, g)
    <3>1. g[0] = x0
      BY <2>1, <2>3
    <3>2. ASSUME NEW j \in 1 .. N, j =< k + 1 PROVE g[j] = F[j][g[j - 1]]
      <4>1. j - 1 \in 0 .. N /\ j - 1 # k + 1
        BY <3>2
      <4>2. g[j - 1] = f[j - 1]
        BY <2>3, <4>1
      <4>3. CASE j = k + 1
        BY <2>2, <4>2, <4>3
      <4>4. CASE j # k + 1
        BY <2>1, <2>3, <3>2, <4>2, <4>4
      <4> QED
        BY <4>3, <4>4
    <3> QED
      BY <3>1, <3>2
  <2> QED
    BY <2>2, <2>4
<1> HIDE DEF S
<1>3. N \in S
  BY <1>1, <1>2, NumberInduction
<1>4. PICK f \in [0 .. N -> X] : Upto(N, f)
  BY <1>3 DEF S
<1> QED
  BY <1>4

\* f is defined from the end: each value from a later one, or at once where the walk
\* stops.
Walks(f, N, Stop, base, piece, next) ==
    \A i \in 1 .. N : f[i] = IF i \in Stop THEN base[i] ELSE piece[i] \o f[next[i]]

\* The walk goes on behind the place where it is.
Ahead(N, Stop, next) == \A i \in (1 .. N) \ Stop : next[i] \in i + 1 .. N

\* Such a function exists.
LEMMA BackwardRecursion ==
    ASSUME NEW C, NEW N \in Nat, NEW Stop, NEW base \in [1 .. N -> Seq(C)],
           NEW piece \in [1 .. N -> Seq(C)], NEW next \in [1 .. N -> Nat],
           Ahead(N, Stop, next)
    PROVE  \E f \in [1 .. N -> Seq(C)] : Walks(f, N, Stop, base, piece, next)
<1> DEFINE Val(f, i) == IF i \in Stop THEN base[i] ELSE piece[i] \o f[next[i]]
           From(k, f) == \A i \in 1 .. N : i > N - k => f[i] = Val(f, i)
           S == {k \in Nat : k =< N => \E f \in [1 .. N -> Seq(C)] : From(k, f)}
<1>1. 0 \in S
  OBVIOUS
<1>2. ASSUME NEW k \in Nat, k \in S PROVE k + 1 \in S
  <2> HIDE DEF From
  <2> SUFFICES ASSUME k + 1 =< N PROVE \E f \in [1 .. N -> Seq(C)] : From(k + 1, f)
    OBVIOUS
  <2>1. PICK f \in [1 .. N -> Seq(C)] : From(k, f)
    BY <1>2
  <2> DEFINE g == [f EXCEPT ![N - k] = Val(f, N - k)]
  <2>2. N - k \in 1 .. N
    OBVIOUS
  <2>3. Val(f, N - k) \in Seq(C)
    <3> DEFINE i == N - k
    <3>1. base[i] \in Seq(C) /\ piece[i] \in Seq(C)
      BY <2>2
    <3>2. ASSUME i \notin Stop PROVE f[next[i]] \in Seq(C)
      <4>1. next[i] \in i + 1 .. N
        BY <2>2, <3>2 DEF Ahead
      <4>2. \A m \in i + 1 .. N : m \in 1 .. N
        BY <2>2
      <4> QED
        BY <4>1, <4>2
    <3> HIDE DEF i
    <3>3. i \notin Stop => piece[i] \o f[next[i]] \in Seq(C)
      BY <3>1, <3>2
    <3> QED
      BY <3>1, <3>3 DEF i
  <2>4. g \in [1 .. N -> Seq(C)] /\ g[N - k] = Val(f, N - k)
    BY <2>2, <2>3
  <2>5. \A i \in 1 .. N : i # N - k => g[i] = f[i]
    OBVIOUS
  <2> HIDE DEF g
  <2>6. ASSUME NEW i \in 1 .. N, i >= N - k PROVE Val(g, i) = Val(f, i)
    <3>1. CASE i \in Stop
      BY <3>1
    <3>2. CASE i \notin Stop
      <4> HIDE DEF Val
      <4>1. next[i] \in i + 1 .. N
        BY <3>2 DEF Ahead
      <4>2. ASSUME NEW m \in i + 1 .. N PROVE m \in 1 .. N /\ m # N - k
        BY <2>6
      <4> QED
        BY <2>5, <3>2, <4>1, <4>2 DEF Val
    <3> QED
      BY <3>1, <3>2
  <2> HIDE DEF Val
  <2>7. From(k + 1, g)
    <3> SUFFICES ASSUME NEW i \in 1 .. N, i > N - (k + 1) PROVE g[i] = Val(g, i)
      BY DEF From
    <3>1. CASE i = N - k
      BY <2>4, <2>6, <3>1
    <3>2. CASE i # N - k
      <4>0. i > N - k
        BY <3>2
      <4>1. f[i] = Val(f, i)
        BY <2>1, <4>0 DEF From
      <4>2. Val(g, i) = Val(f, i)
        BY <2>6, <4>0
      <4>3. g[i] = f[i]
        BY <2>5, <3>2
      <4> QED
        BY <4>1, <4>2, <4>3, Zenon
    <3> QED
      BY <3>1, <3>2
  <2> QED
    BY <2>4, <2>7
<1> HIDE DEF S
<1>3. N \in S
  BY <1>1, <1>2, NumberInduction
<1> HIDE DEF From, Val
<1>4. PICK f \in [1 .. N -> Seq(C)] : From(N, f)
  BY <1>3 DEF S
<1>5. \A i \in 1 .. N : f[i] = Val(f, i)
  BY <1>4 DEF From
<1>6. Walks(f, N, Stop, base, piece, next)
  BY <1>5 DEF Val, Walks
<1> QED
  BY <1>6

\* There is one such function.
LEMMA BackwardUnique ==
    ASSUME NEW N \in Nat, NEW Stop, NEW base, NEW piece, NEW next,
           Ahead(N, Stop, next), NEW f, NEW g,
           Walks(f, N, Stop, base, piece, next), Walks(g, N, Stop, base, piece, next)
    PROVE  \A i \in 1 .. N : f[i] = g[i]
<1> DEFINE Val(h, i) == IF i \in Stop THEN base[i] ELSE piece[i] \o h[next[i]]
           From(k) == \A i \in 1 .. N : i > N - k => f[i] = g[i]
           S == {k \in Nat : k =< N => From(k)}
<1>1. \A i \in 1 .. N : f[i] = Val(f, i) /\ g[i] = Val(g, i)
  BY DEF Walks
<1>2. 0 \in S
  OBVIOUS
<1>3. ASSUME NEW k \in Nat, k \in S PROVE k + 1 \in S
  <2> HIDE DEF Val
  <2> SUFFICES ASSUME k + 1 =< N, NEW i \in 1 .. N, i > N - (k + 1) PROVE f[i] = g[i]
    OBVIOUS
  <2>1. From(k)
    BY <1>3
  <2>2. CASE i \in Stop
    <3>1. Val(f, i) = Val(g, i)
      BY <2>2 DEF Val
    <3> QED
      BY <1>1, <3>1
  <2>3. CASE i \notin Stop
    <3>1. next[i] \in i + 1 .. N
      BY <2>3 DEF Ahead
    <3>2. ASSUME NEW m \in i + 1 .. N PROVE f[m] = g[m]
      BY <2>1
    <3>3. f[next[i]] = g[next[i]]
      BY <3>1, <3>2
    <3>4. Val(f, i) = Val(g, i)
      BY <2>3, <3>3 DEF Val
    <3> QED
      BY <1>1, <3>4
  <2> QED
    BY <2>2, <2>3
<1> HIDE DEF S
<1>4. N \in S
  BY <1>2, <1>3, NumberInduction
<1>5. From(N)
  BY <1>4 DEF S
<1> QED
  BY <1>5

--------------------------------------------------------------------------------
(* json_escape *)

\* What one character is written as, if there is room.
Enc(c) == IF c \in DOMAIN Escapes THEN <<"backslash", Escapes[c]>> ELSE <<c>>

\* out is the buffer after each turn of json_escape.
Loop(in, size, out) ==
    /\ out \in [0 .. Len(in) -> Seq(Char)]
    /\ out[0] = <<>>
    /\ \A j \in 1 .. Len(in) : out[j] = escape_char(out[j - 1], in[j], size)

\* The table of escapes: its letters are characters, and they differ.
LEMMA EscapesFacts ==
    /\ DOMAIN Escapes = {"quote", "backslash", "break"}
    /\ Escapes["quote"] = "quote" /\ Escapes["backslash"] = "backslash"
    /\ Escapes["break"] = "n"
    /\ Letter = {"quote", "backslash", "n"}
    /\ \A c \in DOMAIN Escapes : Escapes[c] \in Letter
    /\ \A c \in DOMAIN Escapes : (CHOOSE d \in DOMAIN Escapes : Escapes[d] = Escapes[c]) = c
<1>1. DOMAIN Escapes = {"quote", "backslash", "break"}
  BY DEF Escapes
<1>2. /\ Escapes["quote"] = "quote" /\ Escapes["backslash"] = "backslash"
      /\ Escapes["break"] = "n"
  BY DEF Escapes
<1>3. Letter = {"quote", "backslash", "n"}
  BY <1>1, <1>2 DEF Letter
<1>4. \A c \in DOMAIN Escapes : Escapes[c] \in Letter
  BY DEF Letter
<1>5. \A c, d \in DOMAIN Escapes : Escapes[d] = Escapes[c] => d = c
  BY <1>1, <1>2
<1>6. \A c \in DOMAIN Escapes : (CHOOSE d \in DOMAIN Escapes : Escapes[d] = Escapes[c]) = c
  BY <1>5
<1> QED
  BY <1>1, <1>2, <1>3, <1>4, <1>6

\* One character is written as one or two.
LEMMA EncFacts ==
    ASSUME NEW c \in Char
    PROVE  /\ Enc(c) \in Seq(Char)
           /\ c \in DOMAIN Escapes =>
                 /\ Len(Enc(c)) = 2 /\ Enc(c)[1] = "backslash"
                 /\ Enc(c)[2] = Escapes[c] /\ Escapes[c] \in Letter
           /\ c \notin DOMAIN Escapes => Len(Enc(c)) = 1 /\ Enc(c)[1] = c
<1>1. CASE c \in DOMAIN Escapes
  <2>1. "backslash" \in Char /\ Escapes[c] \in Char /\ Escapes[c] \in Letter
    BY <1>1, EscapesFacts DEF Char
  <2>2. Enc(c) = <<"backslash", Escapes[c]>>
    BY <1>1 DEF Enc
  <2> QED
    BY <1>1, <2>1, <2>2
<1>2. CASE c \notin DOMAIN Escapes
  <2>1. Enc(c) = <<c>>
    BY <1>2 DEF Enc
  <2> QED
    BY <1>2, <2>1
<1> QED
  BY <1>1, <1>2

\* One turn writes the whole of what a character needs or nothing, and nothing only
\* when less than a pair and the terminator fits.
LEMMA OneTurn ==
    ASSUME NEW o \in Seq(Char), NEW c \in Char, NEW size \in Nat, Len(o) =< size - 1
    PROVE  LET r == escape_char(o, c, size)
           IN  /\ r = o \/ r = o \o Enc(c)
               /\ Len(o) + 2 < size => r = o \o Enc(c)
               /\ Len(r) =< size - 1
               /\ Len(r) =< Len(o) + 2
<1> DEFINE r == escape_char(o, c, size)
<1>1. CASE Len(o) >= size - 1
  <2>1. r = o
    BY <1>1 DEF escape_char
  <2> QED
    BY <1>1, <2>1
<1>2. CASE Len(o) < size - 1 /\ c \notin DOMAIN Escapes
  <2>1. r = Append(o, c)
    BY <1>2 DEF escape_char
  <2>2. Append(o, c) = o \o Enc(c)
    BY <1>2, AppendIsConcat DEF Enc
  <2>3. Len(Append(o, c)) = Len(o) + 1
    OBVIOUS
  <2> QED
    BY <1>2, <2>1, <2>2, <2>3
<1>3. CASE Len(o) < size - 1 /\ c \in DOMAIN Escapes /\ Len(o) + 2 < size
  <2>1. r = o \o Enc(c)
    BY <1>3 DEF escape_char, Enc
  <2>2. Enc(c) \in Seq(Char)
    BY EncFacts
  <2>3. Len(o \o Enc(c)) = Len(o) + Len(Enc(c))
    BY <2>2
  <2>4. Len(o \o Enc(c)) = Len(o) + 2
    BY <1>3, <2>3, EncFacts
  <2> QED
    BY <1>3, <2>1, <2>4
<1>4. CASE Len(o) < size - 1 /\ c \in DOMAIN Escapes /\ ~(Len(o) + 2 < size)
  <2>1. r = o
    BY <1>4 DEF escape_char
  <2> QED
    BY <1>4, <2>1
<1>5. Len(o) >= size - 1 \/ Len(o) < size - 1
  OBVIOUS
<1> QED
  BY <1>1, <1>2, <1>3, <1>4, <1>5

\* json_escape returns the last value of such a loop.
LEMMA EscapeLoops ==
    ASSUME NEW in \in Seq(Char), NEW size \in Nat
    PROVE  \E out : Loop(in, size, out) /\ json_escape(in, size) = out[Len(in)]
<1> DEFINE N == Len(in)
           F == [j \in 1 .. N |-> [o \in Seq(Char) |-> escape_char(o, in[j], size)]]
           out[j \in 0 .. Len(in)] ==
               IF j = 0 THEN <<>> ELSE escape_char(out[j - 1], in[j], size)
<1>1. N \in Nat
  OBVIOUS
<1>2. ASSUME NEW o \in Seq(Char), NEW c \in Char
      PROVE  escape_char(o, c, size) \in Seq(Char)
  <2>1. c \in DOMAIN Escapes => o \o <<"backslash", Escapes[c]>> \in Seq(Char)
    BY EncFacts, ConcatProperties DEF Enc
  <2>2. Append(o, c) \in Seq(Char)
    OBVIOUS
  <2> QED
    BY <2>1, <2>2 DEF escape_char
<1>3. PICK f \in [0 .. N -> Seq(Char)] :
         f[0] = <<>> /\ \A j \in 1 .. N : f[j] = F[j][f[j - 1]]
  <2>1. \A j \in 1 .. N : \A o \in Seq(Char) : escape_char(o, in[j], size) \in Seq(Char)
    BY <1>2
  <2>2. F \in [1 .. N -> [Seq(Char) -> Seq(Char)]]
    BY <2>1
  <2> DEFINE X == Seq(Char)
             x0 == <<>>
  <2>3. x0 \in X
    OBVIOUS
  <2> HIDE DEF F, N, X, x0
  <2>4. F \in [1 .. N -> [X -> X]]
    BY <2>2 DEF X
  <2>5. \E f \in [0 .. N -> X] : f[0] = x0 /\ \A j \in 1 .. N : f[j] = F[j][f[j - 1]]
    BY <1>1, <2>3, <2>4, ForwardRecursion, SMTT(30)
  <2> QED
    BY <2>5 DEF X, x0
<1>4. ASSUME NEW j \in 1 .. N PROVE f[j] = escape_char(f[j - 1], in[j], size)
  <2>1. f[j - 1] \in Seq(Char)
    OBVIOUS
  <2>2. F[j] = [o \in Seq(Char) |-> escape_char(o, in[j], size)]
    OBVIOUS
  <2>3. F[j][f[j - 1]] = escape_char(f[j - 1], in[j], size)
    BY <2>1, <2>2
  <2> QED
    BY <1>3, <2>3
<1>5. f = [j \in 0 .. Len(in) |->
              IF j = 0 THEN <<>> ELSE escape_char(f[j - 1], in[j], size)]
  BY <1>1, <1>3, <1>4
<1>6. out = [j \in 0 .. Len(in) |->
              IF j = 0 THEN <<>> ELSE escape_char(out[j - 1], in[j], size)]
  BY <1>5
<1>7. json_escape(in, size) = out[Len(in)]
  BY DEF json_escape
<1> HIDE DEF out
<1>8. out[0] = <<>> /\ \A j \in 1 .. Len(in) : out[j] = escape_char(out[j - 1], in[j], size)
  BY <1>1, <1>6
<1>9. out \in [0 .. Len(in) -> Seq(Char)]
  <2> DEFINE S == {k \in Nat : k =< N => out[k] \in Seq(Char)}
  <2>1. 0 \in S
    BY <1>8, EmptySeq
  <2>2. ASSUME NEW k \in Nat, k \in S PROVE k + 1 \in S
    <3> SUFFICES ASSUME k + 1 =< N PROVE out[k + 1] \in Seq(Char)
      OBVIOUS
    <3>1. k + 1 \in 1 .. N /\ (k + 1) - 1 = k /\ in[k + 1] \in Char
      BY <1>1
    <3>2. out[k] \in Seq(Char)
      BY <2>2, <1>1
    <3> QED
      BY <1>2, <1>8, <3>1, <3>2
  <2>3. \A k \in Nat : k \in S
    <3> HIDE DEF S
    <3> QED
      BY <2>1, <2>2, NumberInduction
  <2>4. \A k \in 0 .. Len(in) : out[k] \in Seq(Char)
    BY <1>1, <2>3
  <2> QED
    BY <1>6, <2>4
<1> QED
  BY <1>7, <1>8, <1>9 DEF Loop

\* The buffer never holds more than its size less the terminator, nor more than two
\* characters per turn, and a turn is one of OneTurn.
LEMMA LoopFacts ==
    ASSUME NEW in \in Seq(Char), NEW size \in Nat \ {0}, NEW out, Loop(in, size, out)
    PROVE  /\ \A j \in 0 .. Len(in) : /\ out[j] \in Seq(Char)
                                       /\ Len(out[j]) =< size - 1
                                       /\ Len(out[j]) =< 2 * j
           /\ \A j \in 1 .. Len(in) :
                 /\ out[j] = out[j - 1] \/ out[j] = out[j - 1] \o Enc(in[j])
                 /\ Len(out[j - 1]) + 2 < size => out[j] = out[j - 1] \o Enc(in[j])
<1> DEFINE N == Len(in)
           Good(j) == Len(out[j]) =< size - 1 /\ Len(out[j]) =< 2 * j
           S == {k \in Nat : k =< N => Good(k)}
<1>1. N \in Nat /\ \A j \in 1 .. N : in[j] \in Char
  OBVIOUS
<1>2. \A j \in 0 .. N : out[j] \in Seq(Char)
  BY DEF Loop
<1>3. out[0] = <<>> /\ \A j \in 1 .. N : out[j] = escape_char(out[j - 1], in[j], size)
  BY DEF Loop
<1> HIDE DEF N
<1>4. ASSUME NEW j \in 1 .. N, Good(j - 1)
      PROVE  /\ Good(j)
             /\ out[j] = out[j - 1] \/ out[j] = out[j - 1] \o Enc(in[j])
             /\ Len(out[j - 1]) + 2 < size => out[j] = out[j - 1] \o Enc(in[j])
  <2> DEFINE o == out[j - 1]
             r == escape_char(o, in[j], size)
  <2>1. o \in Seq(Char) /\ in[j] \in Char /\ Len(o) =< size - 1
    BY <1>1, <1>2, <1>4
  <2>2. /\ r = o \/ r = o \o Enc(in[j])
        /\ Len(o) + 2 < size => r = o \o Enc(in[j])
        /\ Len(r) =< size - 1
        /\ Len(r) =< Len(o) + 2
    <3> HIDE DEF o
    <3> QED
      BY <2>1, OneTurn
  <2>3. out[j] = r
    BY <1>3
  <2>4. Len(o) \in Nat /\ Len(o) =< 2 * (j - 1)
    BY <1>4, <2>1
  <2>5. Len(r) \in Nat
    BY <1>2, <2>3
  <2> HIDE DEF o, r
  <2>6. Len(r) =< 2 * j
    BY <2>2, <2>4, <2>5
  <2> QED
    BY <2>2, <2>3, <2>6 DEF o
<1>5. 0 \in S
  BY <1>3
<1>6. ASSUME NEW k \in Nat, k \in S PROVE k + 1 \in S
  <2> HIDE DEF Good
  <2> SUFFICES ASSUME k + 1 =< N PROVE Good(k + 1)
    OBVIOUS
  <2>1. k + 1 \in 1 .. N /\ (k + 1) - 1 = k /\ k =< N
    BY <1>1
  <2>2. Good(k)
    BY <1>6, <2>1
  <2>3. Good((k + 1) - 1)
    BY <2>1, <2>2
  <2> QED
    BY <1>4, <2>1, <2>3
<1>7. \A k \in Nat : k \in S
  <2> HIDE DEF S
  <2> QED
    BY <1>5, <1>6, NumberInduction
<1> HIDE DEF Good
<1>8. \A j \in 0 .. N : Good(j)
  BY <1>1, <1>7
<1>9. \A j \in 1 .. N : Good(j - 1)
  BY <1>1, <1>8
<1>10. \A j \in 0 .. N : /\ out[j] \in Seq(Char)
                         /\ Len(out[j]) =< size - 1
                         /\ Len(out[j]) =< 2 * j
  BY <1>2, <1>8 DEF Good
<1> QED
  BY <1>4, <1>9, <1>10 DEF N

\* What is written stays: after each turn the buffer begins the final text.
LEMMA LoopPrefix ==
    ASSUME NEW in \in Seq(Char), NEW size \in Nat \ {0}, NEW out, Loop(in, size, out)
    PROVE  \A j \in 0 .. Len(in) :
              /\ Len(out[j]) =< Len(out[Len(in)])
              /\ \A p \in 1 .. Len(out[j]) : out[Len(in)][p] = out[j][p]
<1> DEFINE N == Len(in)
           L == out[N]
           Begins(j) == Len(out[j]) =< Len(L) /\ \A p \in 1 .. Len(out[j]) : L[p] = out[j][p]
           S == {k \in Nat : k =< N => Begins(N - k)}
<1>1. N \in Nat /\ \A j \in 1 .. N : in[j] \in Char
  OBVIOUS
<1>2. \A j \in 0 .. N : out[j] \in Seq(Char) /\ Len(out[j]) \in Nat
  <2>1. \A j \in 0 .. N : out[j] \in Seq(Char)
    BY LoopFacts
  <2> QED
    BY <2>1
<1>3. \A j \in 1 .. N : out[j] = out[j - 1] \/ out[j] = out[j - 1] \o Enc(in[j])
  BY LoopFacts
<1> HIDE DEF N
<1>4. 0 \in S
  BY <1>1, <1>2
<1>5. ASSUME NEW k \in Nat, k \in S PROVE k + 1 \in S
  <2> SUFFICES ASSUME k + 1 =< N PROVE Begins(N - (k + 1))
    BY DEF S
  <2> DEFINE j == N - k
  <2>1. j \in 1 .. N /\ N - (k + 1) = j - 1 /\ k =< N /\ j - 1 \in 0 .. N /\ j \in 0 .. N
    BY <1>1
  <2>2. Begins(j)
    BY <1>5, <2>1
  <2> HIDE DEF j, L
  <2>3. CASE out[j] = out[j - 1]
    BY <2>1, <2>2, <2>3
  <2>4. CASE out[j] = out[j - 1] \o Enc(in[j])
    <3> DEFINE o == out[j - 1]
               e == Enc(in[j])
               r == out[j]
    <3>1. o \in Seq(Char) /\ e \in Seq(Char) /\ r = o \o e
      BY <1>1, <1>2, <2>1, <2>4, EncFacts
    <3>2. Len(o) =< Len(r) /\ \A p \in 1 .. Len(o) : r[p] = o[p]
      <4> HIDE DEF o, e, r
      <4> QED
        BY <3>1
    <3>3. Len(out[j - 1]) =< Len(out[j]) /\ \A p \in 1 .. Len(out[j - 1]) : out[j][p] = out[j - 1][p]
      BY <3>2
    <3>4. Len(L) \in Nat /\ Len(out[j]) \in Nat /\ Len(out[j - 1]) \in Nat
      BY <1>1, <1>2, <2>1 DEF L
    <3>5. Begins(j - 1)
      BY <2>2, <3>3, <3>4
    <3> QED
      BY <2>1, <3>5
  <2> QED
    BY <1>3, <2>1, <2>3, <2>4
<1>6. \A k \in Nat : k \in S
  <2> HIDE DEF S
  <2> QED
    BY <1>4, <1>5, NumberInduction
<1>7. ASSUME NEW j \in 0 .. N PROVE Begins(j)
  <2> HIDE DEF Begins
  <2>1. N - j \in Nat /\ N - j =< N /\ N - (N - j) = j
    BY <1>1
  <2>2. N - j \in S
    BY <1>6, <2>1
  <2> QED
    BY <2>1, <2>2
<1> QED
  BY <1>7 DEF N

--------------------------------------------------------------------------------
(* Decode and Extract *)

\* An escape that JSON knows begins at i.
Pair(s, i) == s[i] = "backslash" /\ i < Len(s) /\ s[i + 1] \in Letter

\* What Decode gives, from each place of s on.
DecodeWalk(s, from) ==
    \A i \in 1 .. Len(s) + 2 :
        /\ from[i] \in Seq(Char \cup {"NotJson"})
        /\ i > Len(s) => from[i] = <<>>
        /\ i =< Len(s) /\ Pair(s, i) =>
              from[i] = <<CHOOSE c \in DOMAIN Escapes : Escapes[c] = s[i + 1]>> \o from[i + 2]
        /\ i =< Len(s) /\ s[i] \notin DOMAIN Escapes => from[i] = <<Mark(s[i])>> \o from[i + 1]

\* Decode takes such a walk.
LEMMA DecodeWalks ==
    ASSUME NEW s \in Seq(Char)
    PROVE  \E from : DecodeWalk(s, from) /\ Decode(s) = from[1]
<1> DEFINE N == Len(s) + 2
           C == Char \cup {"NotJson"}
           Unescaped(i) == CHOOSE c \in DOMAIN Escapes : Escapes[c] = s[i + 1]
           Illegal(i) == s[i] \in DOMAIN Escapes \cup {"control"}
           Stop == {i \in 1 .. N : i > Len(s)}
           base == [i \in 1 .. N |-> <<>>]
           piece == [i \in 1 .. N |-> IF i > Len(s) THEN <<>>
                                      ELSE IF Pair(s, i) THEN <<Unescaped(i)>>
                                      ELSE IF Illegal(i) THEN <<"NotJson">> ELSE <<s[i]>>]
           next == [i \in 1 .. N |-> IF Pair(s, i) THEN i + 2 ELSE i + 1]
           Body(f, i) ==
              IF i > Len(s) THEN <<>>
              ELSE IF s[i] = "backslash" /\ i < Len(s) /\ s[i + 1] \in Letter
                THEN <<CHOOSE c \in DOMAIN Escapes : Escapes[c] = s[i + 1]>> \o f[i + 2]
              ELSE IF s[i] \in DOMAIN Escapes \cup {"control"}
                THEN <<"NotJson">> \o f[i + 1]
              ELSE <<s[i]>> \o f[i + 1]
           from[i \in 1 .. Len(s) + 2] ==
              IF i > Len(s) THEN <<>>
              ELSE IF s[i] = "backslash" /\ i < Len(s) /\ s[i + 1] \in Letter
                THEN <<CHOOSE c \in DOMAIN Escapes : Escapes[c] = s[i + 1]>> \o from[i + 2]
              ELSE IF s[i] \in DOMAIN Escapes \cup {"control"}
                THEN <<"NotJson">> \o from[i + 1]
              ELSE <<s[i]>> \o from[i + 1]
<1>0. Len(s) \in Nat /\ N \in Nat /\ \A i \in 1 .. Len(s) : s[i] \in Char
  OBVIOUS
<1>1. base \in [1 .. N -> Seq(C)]
  <2>1. <<>> \in Seq(C)
    OBVIOUS
  <2> HIDE DEF C, N
  <2> QED
    BY <2>1
<1>2. piece \in [1 .. N -> Seq(C)]
  <2> SUFFICES ASSUME NEW i \in 1 .. N PROVE piece[i] \in Seq(C)
    OBVIOUS
  <2>1. CASE i > Len(s)
    BY <2>1
  <2>2. CASE i =< Len(s) /\ Pair(s, i)
    <3>1. PICK c \in DOMAIN Escapes : Escapes[c] = s[i + 1]
      BY <2>2 DEF Pair, Letter
    <3>2. Unescaped(i) \in DOMAIN Escapes
      BY <3>1
    <3>3. Unescaped(i) \in C
      BY <3>2, EscapesFacts DEF Char
    <3>4. piece[i] = <<Unescaped(i)>>
      BY <1>0, <2>2
    <3> HIDE DEF piece, C, Unescaped
    <3> QED
      BY <3>3, <3>4
  <2>3. CASE i =< Len(s) /\ ~Pair(s, i)
    <3>1. s[i] \in C /\ "NotJson" \in C
      BY <1>0, <2>3
    <3>2. piece[i] = <<s[i]>> \/ piece[i] = <<"NotJson">>
      BY <1>0, <2>3
    <3>3. \A x \in C : <<x>> \in Seq(C)
      OBVIOUS
    <3> HIDE DEF piece, C
    <3> QED
      BY <3>1, <3>2, <3>3
  <2> QED
    BY <1>0, <2>1, <2>2, <2>3
<1>3. next \in [1 .. N -> Nat]
  BY <1>0
<1>4. Ahead(N, Stop, next)
  BY <1>0 DEF Pair, Ahead
<1>5. PICK f \in [1 .. N -> Seq(C)] : Walks(f, N, Stop, base, piece, next)
  <2> HIDE DEF N, C, Stop, base, piece, next
  <2> QED
    BY <1>0, <1>1, <1>2, <1>3, <1>4, BackwardRecursion
<1>6. ASSUME NEW g, NEW i \in 1 .. N
      PROVE  Body(g, i) = IF i \in Stop THEN base[i] ELSE piece[i] \o g[next[i]]
  BY <1>0 DEF Pair
<1>7. f = [i \in 1 .. Len(s) + 2 |-> Body(f, i)]
  <2> HIDE DEF Stop, base, piece, next, Body
  <2> QED
    BY <1>5, <1>6 DEF Walks
<1>8. from = [i \in 1 .. Len(s) + 2 |-> Body(from, i)]
  BY <1>7
<1>9. Decode(s) = from[1]
  BY DEF Decode
<1> HIDE DEF from
<1>10. \A i \in 1 .. N : from[i] = Body(from, i)
  BY <1>8
<1>11. Walks(from, N, Stop, base, piece, next)
  <2> HIDE DEF Stop, base, piece, next, Body
  <2> QED
    BY <1>6, <1>10 DEF Walks
<1>12. \A i \in 1 .. N : from[i] = f[i]
  <2>1. N \in Nat
    BY <1>0
  <2>2. Walks(f, N, Stop, base, piece, next)
    BY <1>5
  <2> HIDE DEF N, Stop, base, piece, next
  <2> QED
    BY <1>4, <1>11, <2>1, <2>2, BackwardUnique
<1>13. \A i \in 1 .. N : from[i] \in Seq(C)
  BY <1>12
<1>14. DecodeWalk(s, from)
  <2> SUFFICES ASSUME NEW i \in 1 .. N
               PROVE  /\ from[i] \in Seq(C)
                      /\ i > Len(s) => from[i] = <<>>
                      /\ i =< Len(s) /\ Pair(s, i) => from[i] = <<Unescaped(i)>> \o from[i + 2]
                      /\ i =< Len(s) /\ s[i] \notin DOMAIN Escapes =>
                            from[i] = <<Mark(s[i])>> \o from[i + 1]
    BY DEF DecodeWalk
  <2>1. from[i] = Body(from, i)
    BY <1>10
  <2>2. i > Len(s) => Body(from, i) = <<>>
    OBVIOUS
  <2>3. i =< Len(s) /\ Pair(s, i) => Body(from, i) = <<Unescaped(i)>> \o from[i + 2]
    BY <1>0 DEF Pair
  <2>4. i =< Len(s) /\ s[i] \notin DOMAIN Escapes =>
           Body(from, i) = <<Mark(s[i])>> \o from[i + 1]
    BY <1>0, EscapesFacts DEF Mark
  <2> HIDE DEF Body, Unescaped
  <2> QED
    BY <1>13, <2>1, <2>2, <2>3, <2>4
<1> QED
  BY <1>9, <1>14

\* The characters of a message.
Wire == Char \cup {"head", "tail"}

\* What Extract gives, from each place of data on.
ExtractWalk(data, from) ==
    \A i \in 1 .. Len(data) + 2 :
        /\ from[i] \in Seq(Wire)
        /\ i > Len(data) => from[i] = <<>>
        /\ i =< Len(data) /\ data[i] = "quote" => from[i] = <<>>
        /\ i < Len(data) /\ data[i] = "backslash" /\ data[i + 1] = "quote" =>
              from[i] = <<"quote">> \o from[i + 2]
        /\ i =< Len(data) /\ data[i] \notin {"quote", "backslash"} =>
              from[i] = <<data[i]>> \o from[i + 1]
        /\ i = Len(data) /\ data[i] = "backslash" => from[i] = <<data[i]>> \o from[i + 1]

\* Extract takes such a walk, from behind the opening quote.
LEMMA ExtractWalks ==
    ASSUME NEW data \in Seq(Wire)
    PROVE  \E from : ExtractWalk(data, from) /\ Extract(data) = from[2]
<1> DEFINE N == Len(data) + 2
           Quoted(i) == data[i] = "backslash" /\ i < Len(data) /\ data[i + 1] = "quote"
           Stop == {i \in 1 .. N : i > Len(data) \/ data[i] = "quote"}
           base == [i \in 1 .. N |-> <<>>]
           piece == [i \in 1 .. N |-> IF i > Len(data) THEN <<>>
                                      ELSE IF Quoted(i) THEN <<"quote">> ELSE <<data[i]>>]
           next == [i \in 1 .. N |-> IF Quoted(i) THEN i + 2 ELSE i + 1]
           Body(f, i) ==
              IF i > Len(data) \/ data[i] = "quote" THEN <<>>
              ELSE IF data[i] = "backslash" /\ i < Len(data) /\ data[i + 1] = "quote"
                THEN <<"quote">> \o f[i + 2]
                ELSE <<data[i]>> \o f[i + 1]
           from[i \in 1 .. Len(data) + 2] ==
              IF i > Len(data) \/ data[i] = "quote" THEN <<>>
              ELSE IF data[i] = "backslash" /\ i < Len(data) /\ data[i + 1] = "quote"
                THEN <<"quote">> \o from[i + 2]
                ELSE <<data[i]>> \o from[i + 1]
<1>0. Len(data) \in Nat /\ N \in Nat /\ \A i \in 1 .. Len(data) : data[i] \in Wire
  OBVIOUS
<1>1. base \in [1 .. N -> Seq(Wire)]
  <2>1. <<>> \in Seq(Wire)
    OBVIOUS
  <2> HIDE DEF N
  <2> QED
    BY <2>1
<1>2. piece \in [1 .. N -> Seq(Wire)]
  <2> SUFFICES ASSUME NEW i \in 1 .. N PROVE piece[i] \in Seq(Wire)
    OBVIOUS
  <2>1. CASE i > Len(data)
    BY <2>1
  <2>2. CASE i =< Len(data)
    <3>1. "quote" \in Wire /\ data[i] \in Wire
      BY <1>0, <2>2 DEF Wire, Char
    <3>2. piece[i] = <<"quote">> \/ piece[i] = <<data[i]>>
      BY <1>0, <2>2
    <3>3. \A x \in Wire : <<x>> \in Seq(Wire)
      OBVIOUS
    <3> HIDE DEF piece
    <3> QED
      BY <3>1, <3>2, <3>3
  <2> QED
    BY <1>0, <2>1, <2>2
<1>3. next \in [1 .. N -> Nat]
  BY <1>0
<1>4. Ahead(N, Stop, next)
  BY <1>0 DEF Ahead
<1>5. PICK f \in [1 .. N -> Seq(Wire)] : Walks(f, N, Stop, base, piece, next)
  <2> HIDE DEF N, Stop, base, piece, next
  <2> QED
    BY <1>0, <1>1, <1>2, <1>3, <1>4, BackwardRecursion
<1>6. ASSUME NEW g, NEW i \in 1 .. N
      PROVE  Body(g, i) = IF i \in Stop THEN base[i] ELSE piece[i] \o g[next[i]]
  BY <1>0
<1>7. f = [i \in 1 .. Len(data) + 2 |-> Body(f, i)]
  <2> HIDE DEF Stop, base, piece, next, Body
  <2> QED
    BY <1>5, <1>6 DEF Walks
<1>8. from = [i \in 1 .. Len(data) + 2 |-> Body(from, i)]
  BY <1>7
<1>9. Extract(data) = from[2]
  BY DEF Extract
<1> HIDE DEF from
<1>10. \A i \in 1 .. N : from[i] = Body(from, i)
  BY <1>8
<1>11. Walks(from, N, Stop, base, piece, next)
  <2> HIDE DEF Stop, base, piece, next, Body
  <2> QED
    BY <1>6, <1>10 DEF Walks
<1>12. \A i \in 1 .. N : from[i] = f[i]
  <2>1. N \in Nat
    BY <1>0
  <2>2. Walks(f, N, Stop, base, piece, next)
    BY <1>5
  <2> HIDE DEF N, Stop, base, piece, next
  <2> QED
    BY <1>4, <1>11, <2>1, <2>2, BackwardUnique
<1>13. \A i \in 1 .. N : from[i] \in Seq(Wire)
  BY <1>12
<1>14. ExtractWalk(data, from)
  <2> SUFFICES ASSUME NEW i \in 1 .. N
               PROVE  /\ from[i] \in Seq(Wire)
                      /\ i > Len(data) => from[i] = <<>>
                      /\ i =< Len(data) /\ data[i] = "quote" => from[i] = <<>>
                      /\ i < Len(data) /\ data[i] = "backslash" /\ data[i + 1] = "quote" =>
                            from[i] = <<"quote">> \o from[i + 2]
                      /\ i =< Len(data) /\ data[i] \notin {"quote", "backslash"} =>
                            from[i] = <<data[i]>> \o from[i + 1]
                      /\ i = Len(data) /\ data[i] = "backslash" =>
                            from[i] = <<data[i]>> \o from[i + 1]
    BY DEF ExtractWalk
  <2>1. from[i] = Body(from, i)
    BY <1>10
  <2>2. /\ i > Len(data) => Body(from, i) = <<>>
        /\ i =< Len(data) /\ data[i] = "quote" => Body(from, i) = <<>>
    OBVIOUS
  <2>3. i < Len(data) /\ data[i] = "backslash" /\ data[i + 1] = "quote" =>
           Body(from, i) = <<"quote">> \o from[i + 2]
    BY <1>0
  <2>4. i =< Len(data) /\ data[i] \notin {"quote", "backslash"} =>
           Body(from, i) = <<data[i]>> \o from[i + 1]
    BY <1>0
  <2>5. i = Len(data) /\ data[i] = "backslash" => Body(from, i) = <<data[i]>> \o from[i + 1]
    BY <1>0
  <2> HIDE DEF Body
  <2> QED
    BY <1>13, <2>1, <2>2, <2>3, <2>4, <2>5
<1> QED
  BY <1>9, <1>14

--------------------------------------------------------------------------------
(* What was escaped is decoded *)

\* A character in front of a text.
LEMMA ConsFacts ==
    ASSUME NEW C, NEW x \in C, NEW r \in Seq(C), NEW q, q = <<x>> \o r
    PROVE  /\ Len(r) \in Nat /\ q \in Seq(C)
           /\ Len(q) = Len(r) + 1 /\ q[1] = x
           /\ \A k \in 1 .. Len(r) : q[k + 1] = r[k]
<1>1. q \in Seq(C) /\ Len(r) \in Nat
  OBVIOUS
<1>2. Len(q) = Len(r) + 1
  OBVIOUS
<1>3. q[1] = x
  OBVIOUS
<1>4. \A k \in 1 .. Len(r) : q[k + 1] = r[k]
  OBVIOUS
<1> QED
  BY <1>1, <1>2, <1>3, <1>4

\* The character a turn has written is read back, and the walk goes on where the
\* next turn wrote.
LEMMA DecodeTurn ==
    ASSUME NEW in \in Seq(Char), NEW size \in Nat \ {0}, NEW out, Loop(in, size, out),
           NEW from, DecodeWalk(out[Len(in)], from),
           NEW j \in 1 .. Len(in), out[j] = out[j - 1] \o Enc(in[j])
    PROVE  from[Len(out[j - 1]) + 1] = <<Mark(in[j])>> \o from[Len(out[j]) + 1]
<1> DEFINE s == out[Len(in)]
           c == in[j]
           o == out[j - 1]
           p == Len(o) + 1
           e == Enc(c)
<1>1. c \in Char /\ o \in Seq(Char) /\ s \in Seq(Char) /\ out[j] \in Seq(Char)
  <2>1. j - 1 \in 0 .. Len(in) /\ Len(in) \in 0 .. Len(in) /\ j \in 0 .. Len(in)
    OBVIOUS
  <2>2. \A k \in 0 .. Len(in) : out[k] \in Seq(Char)
    BY LoopFacts
  <2>3. in[j] \in Char
    OBVIOUS
  <2> QED
    BY <2>1, <2>2, <2>3
<1>2. e \in Seq(Char) /\ out[j] = o \o e
  BY <1>1, EncFacts
<1>3. Len(out[j]) =< Len(s) /\ \A k \in 1 .. Len(out[j]) : s[k] = out[j][k]
  <2>1. j \in 0 .. Len(in)
    OBVIOUS
  <2>2. \A i \in 0 .. Len(in) :
           Len(out[i]) =< Len(s) /\ \A k \in 1 .. Len(out[i]) : s[k] = out[i][k]
    BY LoopPrefix
  <2> HIDE DEF s
  <2> QED
    BY <2>1, <2>2, Zenon
<1> DEFINE q == out[j]
<1> HIDE DEF s, o, e, q
<1>4. /\ Len(q) = Len(o) + Len(e)
      /\ \A k \in 1 .. Len(e) : q[Len(o) + k] = e[k]
      /\ Len(o) \in Nat /\ Len(e) \in Nat /\ Len(s) \in Nat
  BY <1>1, <1>2 DEF q
<1>5. Len(q) =< Len(s) /\ \A k \in 1 .. Len(q) : s[k] = q[k]
  BY <1>3 DEF q
<1>6. \A k \in 1 .. Len(e) : s[Len(o) + k] = e[k]
  BY <1>4, <1>5
<1>7. CASE c \in DOMAIN Escapes
  <2>1. Len(e) = 2 /\ e[1] = "backslash" /\ e[2] = Escapes[c] /\ Escapes[c] \in Letter
    BY <1>1, <1>7, EncFacts DEF e
  <2>2. Len(q) = Len(o) + 2
    BY <1>4, <2>1
  <2>3. s[p] = "backslash" /\ s[p + 1] = Escapes[c]
    <3>1. 1 \in 1 .. Len(e) /\ 2 \in 1 .. Len(e)
      BY <2>1
    <3>2. s[Len(o) + 1] = e[1] /\ s[Len(o) + 2] = e[2] /\ p + 1 = Len(o) + 2
      BY <1>4, <1>6, <3>1
    <3> QED
      BY <2>1, <3>2
  <2>4. p \in 1 .. Len(s) + 2 /\ p =< Len(s) /\ p < Len(s)
    BY <1>4, <1>5, <2>2
  <2>5. Pair(s, p)
    BY <2>1, <2>3, <2>4 DEF Pair
  <2>6. (CHOOSE d \in DOMAIN Escapes : Escapes[d] = s[p + 1]) = c
    BY <1>7, <2>3, EscapesFacts
  <2>7. from[p] = <<CHOOSE d \in DOMAIN Escapes : Escapes[d] = s[p + 1]>> \o from[p + 2]
    BY <2>4, <2>5 DEF DecodeWalk, s
  <2>8. p + 2 = Len(q) + 1
    BY <1>4, <2>2
  <2>9. from[p] = <<Mark(c)>> \o from[Len(q) + 1]
    <3>1. Mark(c) = c
      BY <1>7, EscapesFacts DEF Mark
    <3> QED
      BY <2>6, <2>7, <2>8, <3>1
  <2> QED
    BY <2>9 DEF o, q
<1>8. CASE c \notin DOMAIN Escapes
  <2>1. Len(e) = 1 /\ e[1] = c
    BY <1>1, <1>8, EncFacts DEF e
  <2>2. Len(q) = Len(o) + 1
    BY <1>4, <2>1
  <2>3. s[p] = c
    <3>1. 1 \in 1 .. Len(e)
      BY <2>1
    <3> QED
      BY <1>4, <1>6, <2>1, <3>1
  <2>4. p \in 1 .. Len(s) + 2 /\ p =< Len(s)
    BY <1>4, <1>5, <2>2
  <2>5. from[p] = <<Mark(s[p])>> \o from[p + 1]
    BY <1>8, <2>3, <2>4 DEF DecodeWalk, s
  <2>6. p + 1 = Len(q) + 1
    BY <1>4, <2>2
  <2>7. from[p] = <<Mark(c)>> \o from[Len(q) + 1]
    BY <2>3, <2>5, <2>6
  <2> QED
    BY <2>7 DEF o, q
<1> QED
  BY <1>7, <1>8

\* A text as it can be read back.
LEMMA MarkedFacts ==
    ASSUME NEW in \in Seq(Char)
    PROVE  /\ Marked(in) \in Seq(Char \cup {"NotJson"})
           /\ Len(Marked(in)) = Len(in)
           /\ \A i \in 1 .. Len(in) : Marked(in)[i] = Mark(in[i])
<1> DEFINE C == Char \cup {"NotJson"}
           N == Len(in)
           f == [i \in 1 .. N |-> Mark(in[i])]
<1>1. N \in Nat /\ \A i \in 1 .. N : Mark(in[i]) \in C
  BY DEF Mark
<1>2. Marked(in) = f
  BY DEF Marked
<1>3. f \in [1 .. N -> C]
  BY <1>1
<1>4. \A i \in 1 .. N : f[i] = Mark(in[i])
  OBVIOUS
<1> HIDE DEF f, C, N
<1>5. f \in Seq(C) /\ Len(f) = N
  BY <1>1, <1>3, IsASeq, LenProperties
<1> QED
  BY <1>2, <1>4, <1>5 DEF C, N

\* The kept indices behind j, up to i.
Above(D, j, i) == {l \in D : j < l /\ l =< i}

\* r is what the indices D behind j keep of in.
KeptFrom(r, in, D, j) ==
    /\ Len(r) = Cardinality(Above(D, j, Len(in)))
    /\ \A i \in D : i > j => r[Cardinality(Above(D, j, i))] = in[i]

\* Counting the kept indices behind j and behind j - 1.
LEMMA AboveFacts ==
    ASSUME NEW N \in Nat, NEW D \in SUBSET (1 .. N), NEW j \in D, NEW i \in 1 .. N, i >= j
    PROVE  /\ IsFiniteSet(Above(D, j, i)) /\ Cardinality(Above(D, j, i)) \in Nat
           /\ Cardinality(Above(D, j - 1, i)) = Cardinality(Above(D, j, i)) + 1
           /\ Cardinality(Above(D, j, i)) =< Cardinality(Above(D, j, N))
           /\ Above(D, j, j) = {}
<1> DEFINE A(k) == {l \in D : j < l /\ l =< k}
<1>0. \A l \in D : l \in Int /\ l =< N /\ l >= 1
  OBVIOUS
<1>1. IsFiniteSet(1 .. N)
  BY FS_Interval
<1>2. \A k : A(k) \in SUBSET (1 .. N)
  OBVIOUS
<1>3. A(i) \in SUBSET A(N)
  BY <1>0
<1>4. IsFiniteSet(A(i)) /\ IsFiniteSet(A(N))
  <2> HIDE DEF A
  <2> QED
    BY <1>1, <1>2, FS_Subset
<1>5. {l \in D : j - 1 < l /\ l =< i} = A(i) \cup {j} /\ j \notin A(i) /\ A(j) = {}
  <2>1. \A l \in D : (j - 1 < l /\ l =< i) <=> (l = j \/ (j < l /\ l =< i))
    BY <1>0
  <2>2. {l \in D : j - 1 < l /\ l =< i} = A(i) \cup {j}
    BY <2>1
  <2>3. j \notin A(i)
    BY <1>0
  <2>4. A(j) = {}
    <3>1. \A l \in D : ~(j < l /\ l =< j)
      BY <1>0
    <3> QED
      BY <3>1
  <2> QED
    BY <2>2, <2>3, <2>4
<1> HIDE DEF A
<1>6. Cardinality(A(i)) \in Nat
  BY <1>4, FS_CardinalityType
<1>7. Cardinality(A(i)) =< Cardinality(A(N))
  BY <1>3, <1>4, FS_Subset
<1>8. Cardinality(A(i) \cup {j}) = Cardinality(A(i)) + 1
  BY <1>4, <1>5, FS_AddElement
<1>9. Above(D, j, i) = A(i) /\ Above(D, j, N) = A(N) /\ Above(D, j, j) = A(j)
  BY DEF Above, A
<1>10. Above(D, j - 1, i) = A(i) \cup {j}
  BY <1>5 DEF Above
<1> QED
  BY <1>4, <1>5, <1>6, <1>7, <1>8, <1>9, <1>10

\* One more kept character in front.
LEMMA KeepOneMore ==
    ASSUME NEW C, NEW in \in Seq(C), NEW D \in SUBSET (1 .. Len(in)), NEW j \in D,
           NEW r \in Seq(C), KeptFrom(r, in, D, j), NEW q, q = <<in[j]>> \o r
    PROVE  KeptFrom(q, in, D, j - 1)
<1> DEFINE N == Len(in)
           A(i) == Above(D, j, i)
<1>1. N \in Nat /\ j \in 1 .. N /\ in[j] \in C /\ D \subseteq 1 .. N
  OBVIOUS
<1>2. /\ Len(r) \in Nat /\ Len(q) = Len(r) + 1 /\ q[1] = in[j]
      /\ \A k \in 1 .. Len(r) : q[k + 1] = r[k]
  BY <1>1, ConsFacts
<1> HIDE DEF N
<1>3. ASSUME NEW i \in 1 .. N, i >= j
      PROVE  /\ IsFiniteSet(A(i)) /\ Cardinality(A(i)) \in Nat
             /\ Cardinality(Above(D, j - 1, i)) = Cardinality(A(i)) + 1
             /\ Cardinality(A(i)) =< Cardinality(A(N))
             /\ A(j) = {}
  BY <1>1, <1>3, AboveFacts
<1>4. Len(q) = Cardinality(Above(D, j - 1, N))
  <2>1. N \in 1 .. N /\ N >= j
    BY <1>1
  <2>2. Len(r) = Cardinality(A(N))
    BY DEF KeptFrom, N
  <2> QED
    BY <1>2, <1>3, <2>1, <2>2
<1>5. ASSUME NEW i \in D, i > j - 1 PROVE q[Cardinality(Above(D, j - 1, i))] = in[i]
  <2>1. i \in 1 .. N /\ i >= j
    BY <1>1, <1>5
  <2>2. CASE i = j
    <3>1. A(i) = {}
      BY <1>3, <2>1, <2>2
    <3> HIDE DEF A
    <3>2. Cardinality(A(i)) = 0
      BY <3>1, FS_EmptySet
    <3>3. Cardinality(Above(D, j - 1, i)) = 1
      BY <1>3, <2>1, <3>2
    <3> QED
      BY <1>2, <2>2, <3>3
  <2>3. CASE i # j
    <3>1. i > j /\ i \in A(i)
      BY <1>1, <2>1, <2>3 DEF Above
    <3>2. r[Cardinality(A(i))] = in[i] /\ Len(r) = Cardinality(A(N))
      BY <3>1 DEF KeptFrom, N
    <3> HIDE DEF A
    <3>3. Cardinality(A(i)) # 0
      BY <1>3, <2>1, <3>1, FS_EmptySet
    <3>4. Cardinality(A(i)) \in 1 .. Len(r)
      BY <1>2, <1>3, <2>1, <3>2, <3>3
    <3>5. Cardinality(Above(D, j - 1, i)) = Cardinality(A(i)) + 1
      BY <1>3, <2>1
    <3> QED
      BY <1>2, <3>2, <3>4, <3>5
  <2> QED
    BY <2>2, <2>3
<1> QED
  BY <1>4, <1>5 DEF KeptFrom, N

\* A turn that wrote something left a longer buffer.
LEMMA TurnGrows ==
    ASSUME NEW in \in Seq(Char), NEW size \in Nat \ {0}, NEW out, Loop(in, size, out),
           NEW j \in 1 .. Len(in), out[j] = out[j - 1] \o Enc(in[j])
    PROVE  /\ out[j] # out[j - 1]
           /\ Len(out[j]) = Len(out[j - 1]) + Len(Enc(in[j]))
           /\ Len(Enc(in[j])) \in {1, 2}
<1> DEFINE o == out[j - 1]
           e == Enc(in[j])
           q == out[j]
<1>1. in[j] \in Char
  OBVIOUS
<1>2. e \in Seq(Char) /\ Len(e) \in {1, 2}
  BY <1>1, EncFacts
<1>3. o \in Seq(Char)
  <2>1. j - 1 \in 0 .. Len(in)
    OBVIOUS
  <2>2. \A k \in 0 .. Len(in) : out[k] \in Seq(Char)
    BY LoopFacts
  <2> QED
    BY <2>1, <2>2
<1>4. q = o \o e
  OBVIOUS
<1> HIDE DEF o, e, q
<1>5. Len(q) = Len(o) + Len(e) /\ Len(o) \in Nat
  BY <1>2, <1>3, <1>4
<1>6. Len(q) # Len(o)
  <2> DEFINE n == Len(e)
             m == Len(o)
  <2>1. n \in {1, 2} /\ Len(q) = m + n /\ m \in Nat
    BY <1>2, <1>5
  <2> HIDE DEF m, n
  <2>2. Len(q) # m
    BY <2>1
  <2> QED
    BY <2>2 DEF m
<1>7. q # o
  BY <1>6
<1> QED
  BY <1>2, <1>5, <1>7 DEF o, e, q

\* Decode reads back what the turns that wrote something wrote.
LEMMA DecodeLoop ==
    ASSUME NEW in \in Seq(Char), NEW size \in Nat \ {0}, NEW out, Loop(in, size, out),
           NEW from, DecodeWalk(out[Len(in)], from)
    PROVE  KeptFrom(from[1], Marked(in), {i \in 1 .. Len(in) : out[i] # out[i - 1]}, 0)
<1> DEFINE N == Len(in)
           C == Char \cup {"NotJson"}
           mk == Marked(in)
           D == {i \in 1 .. N : out[i] # out[i - 1]}
           at(j) == from[Len(out[j]) + 1]
           P(j) == KeptFrom(at(j), mk, D, j)
           S == {k \in Nat : k =< N => P(N - k)}
<1>0. mk \in Seq(C) /\ Len(mk) = N /\ \A i \in 1 .. N : mk[i] = Mark(in[i])
  BY MarkedFacts
<1> HIDE DEF mk
<1>1. N \in Nat /\ D \in SUBSET (1 .. N) /\ \A i \in 1 .. N : in[i] \in Char
  OBVIOUS
<1>2. \A j \in 0 .. N : out[j] \in Seq(Char)
  BY LoopFacts
<1>3. \A j \in 0 .. N : at(j) \in Seq(C)
  <2> TAKE j \in 0 .. N
  <2>1. \A i \in 0 .. N : Len(out[i]) =< Len(out[N])
    BY LoopPrefix
  <2>2. Len(out[j]) \in Nat /\ Len(out[N]) \in Nat
    BY <1>1, <1>2
  <2>3. Len(out[j]) + 1 \in 1 .. Len(out[N]) + 2
    BY <1>1, <2>1, <2>2
  <2> QED
    BY <2>3 DEF DecodeWalk
<1>4. P(N)
  <2>1. Len(out[N]) \in Nat
    BY <1>1, <1>2
  <2>2. at(N) = <<>>
    <3> DEFINE n == Len(out[N])
    <3>1. n + 1 \in 1 .. n + 2 /\ n + 1 > n
      BY <2>1
    <3>2. \A i \in 1 .. n + 2 : i > n => from[i] = <<>>
      BY DEF DecodeWalk
    <3> HIDE DEF n
    <3>3. from[n + 1] = <<>>
      BY <3>1, <3>2
    <3> QED
      BY <3>3 DEF n
  <2>3. \A i \in D : ~(i > N)
    BY <1>1
  <2>4. Above(D, N, N) = {}
    BY <2>3 DEF Above
  <2>5. Cardinality(Above(D, N, N)) = 0
    BY <2>4, FS_EmptySet
  <2>6. Len(<<>>) = 0
    OBVIOUS
  <2> HIDE DEF D, at
  <2> QED
    BY <1>0, <2>2, <2>3, <2>5, <2>6 DEF KeptFrom
<1>5. ASSUME NEW j \in 1 .. N, P(j) PROVE P(j - 1)
  <2>1. CASE out[j] = out[j - 1]
    <3>1. at(j - 1) = at(j) /\ j \notin D
      BY <2>1
    <3>2. \A i \in D : i > j - 1 <=> i > j
      BY <1>1, <3>1
    <3>3. \A i : Above(D, j - 1, i) = Above(D, j, i)
      BY <1>1, <3>2 DEF Above
    <3> HIDE DEF D, at
    <3> QED
      BY <1>5, <3>1, <3>2, <3>3 DEF KeptFrom
  <2>2. CASE out[j] = out[j - 1] \o Enc(in[j])
    <3>1. out[j] # out[j - 1]
      BY <2>2, TurnGrows
    <3>6. j \in D
      BY <3>1
    <3>2. at(j - 1) = <<mk[j]>> \o at(j)
      <4>1. at(j - 1) = <<Mark(in[j])>> \o at(j)
        BY <2>2, DecodeTurn
      <4>2. mk[j] = Mark(in[j])
        BY <1>0
      <4> HIDE DEF at
      <4> QED
        BY <4>1, <4>2
    <3>3. mk \in Seq(C)
      BY <1>0
    <3>4. at(j) \in Seq(C)
      BY <1>1, <1>3
    <3>5. D \in SUBSET (1 .. Len(mk))
      BY <1>0
    <3> HIDE DEF D, at, C
    <3> QED
      BY <1>5, <3>2, <3>3, <3>4, <3>5, <3>6, KeepOneMore
  <2> QED
    BY <2>1, <2>2, LoopFacts
<1>6. 0 \in S
  <2> HIDE DEF P
  <2> QED
    BY <1>1, <1>4
<1>7. ASSUME NEW k \in Nat, k \in S PROVE k + 1 \in S
  <2> HIDE DEF P, N
  <2> SUFFICES ASSUME k + 1 =< N PROVE P(N - (k + 1))
    OBVIOUS
  <2>1. N - k \in 1 .. N /\ N - (k + 1) = (N - k) - 1 /\ k =< N
    BY <1>1
  <2> QED
    BY <1>5, <1>7, <2>1
<1>8. \A k \in Nat : k \in S
  <2> HIDE DEF S
  <2> QED
    BY <1>6, <1>7, NumberInduction
<1>9. P(0)
  <2> HIDE DEF P, N
  <2>1. N \in S /\ N - N = 0
    BY <1>1, <1>8
  <2> QED
    BY <1>1, <2>1
<1>10. at(0) = from[1]
  <2>1. out[0] = <<>> /\ Len(<<>>) = 0
    BY DEF Loop
  <2> QED
    BY <2>1
<1> HIDE DEF at
<1> QED
  BY <1>9, <1>10 DEF mk

\* If the buffer is large enough for the worst case every turn writes.
LEMMA RoomForAll ==
    ASSUME NEW in \in Seq(Char), NEW size \in Nat \ {0}, NEW out, Loop(in, size, out),
           size > 2 * Len(in), NEW j \in 1 .. Len(in)
    PROVE  out[j] = out[j - 1] \o Enc(in[j])
<1> DEFINE N == Len(in)
           n == Len(out[j - 1])
<1>1. N \in Nat /\ size > 2 * N /\ j \in 1 .. N
  OBVIOUS
<1>2. n =< 2 * (j - 1) /\ n \in Nat
  <2>1. j - 1 \in 0 .. Len(in)
    OBVIOUS
  <2>2. \A i \in 0 .. Len(in) : out[i] \in Seq(Char) /\ Len(out[i]) =< 2 * i
    BY LoopFacts
  <2>3. out[j - 1] \in Seq(Char) /\ n =< 2 * (j - 1)
    BY <2>1, <2>2
  <2> QED
    BY <2>3
<1>3. n + 2 < size => out[j] = out[j - 1] \o Enc(in[j])
  BY LoopFacts
<1> HIDE DEF N, n
<1>4. n + 2 < size
  BY <1>1, <1>2
<1> QED
  BY <1>3, <1>4

\* What json_escape promises for every text and every buffer.
LEMMA EscapeFacts ==
    ASSUME NEW in \in Seq(Char), NEW size \in Nat \ {0}
    PROVE  LET s == json_escape(in, size)
           IN  /\ s \in Seq(Char)
               /\ Len(s) =< size - 1
               /\ Len(s) =< 2 * Len(in)
               /\ \E D \in SUBSET (1 .. Len(in)) : Kept(Decode(s), Marked(in), D)
               /\ size > 2 * Len(in) => Decode(s) = Marked(in)
<1> DEFINE s == json_escape(in, size)
           mk == Marked(in)
           N == Len(in)
           C == Char \cup {"NotJson"}
           back == Decode(s)
<1>0. mk \in Seq(C) /\ Len(mk) = Len(in)
  BY MarkedFacts
<1> HIDE DEF mk
<1>1. PICK out : Loop(in, size, out) /\ s = out[Len(in)]
  BY EscapeLoops
<1>2. s \in Seq(Char) /\ Len(s) =< size - 1 /\ Len(s) =< 2 * Len(in)
  <2>1. Len(in) \in 0 .. Len(in)
    OBVIOUS
  <2>2. \A j \in 0 .. Len(in) : /\ out[j] \in Seq(Char)
                                /\ Len(out[j]) =< size - 1
                                /\ Len(out[j]) =< 2 * j
    BY <1>1, LoopFacts
  <2>3. /\ out[Len(in)] \in Seq(Char)
        /\ Len(out[Len(in)]) =< size - 1
        /\ Len(out[Len(in)]) =< 2 * Len(in)
    BY <2>1, <2>2
  <2> HIDE DEF s
  <2> QED
    BY <1>1, <2>3
<1>3. PICK from : DecodeWalk(s, from) /\ back = from[1]
  BY <1>2, DecodeWalks
<1> HIDE DEF s, back
<1>4. back \in Seq(C)
  <2>1. 1 \in 1 .. Len(s) + 2
    BY <1>2
  <2> QED
    BY <1>3, <2>1 DEF DecodeWalk
<1> DEFINE D == {i \in 1 .. Len(in) : out[i] # out[i - 1]}
<1>5. D \in SUBSET (1 .. Len(in))
  OBVIOUS
<1>6. KeptFrom(back, mk, D, 0)
  <2>1. DecodeWalk(out[Len(in)], from)
    BY <1>1, <1>3
  <2> QED
    BY <1>1, <1>3, <2>1, DecodeLoop DEF mk
<1>7. Kept(back, mk, D)
  <2> HIDE DEF D
  <2>1. \A i \in D : i \in Int /\ i > 0 /\ i =< Len(in)
    BY <1>5
  <2>2. Above(D, 0, Len(in)) = D
    BY <2>1 DEF Above
  <2>3. \A i \in D : Above(D, 0, i) = {l \in D : l =< i}
    BY <2>1 DEF Above
  <2> QED
    BY <1>0, <1>6, <2>1, <2>2, <2>3 DEF KeptFrom, Kept
<1>8. ASSUME size > 2 * Len(in) PROVE back = mk
  <2>1. ASSUME NEW i \in 1 .. Len(in) PROVE out[i] # out[i - 1]
    <3>1. out[i] = out[i - 1] \o Enc(in[i])
      BY <1>1, <1>8, RoomForAll
    <3> QED
      BY <1>1, <3>1, TurnGrows
  <2>2. D = 1 .. N
    BY <2>1
  <2>3. N \in Nat
    OBVIOUS
  <2> HIDE DEF N, D
  <2>4. Cardinality(D) = N
    BY <2>2, <2>3, FS_Interval
  <2>5. ASSUME NEW i \in 1 .. N PROVE Cardinality({l \in D : l =< i}) = i
    <3>1. {l \in 1 .. N : l =< i} = 1 .. i
      BY <2>3
    <3>2. Cardinality(1 .. i) = i
      BY <2>3, FS_Interval
    <3> QED
      BY <2>2, <3>1, <3>2
  <2>6. Len(back) = Len(mk) /\ \A i \in 1 .. N : back[i] = mk[i]
    <3>1. Len(back) = Cardinality(D)
      BY <1>7 DEF Kept
    <3>2. \A i \in D : back[Cardinality({l \in D : l =< i})] = mk[i]
      BY <1>7 DEF Kept
    <3> QED
      BY <1>0, <2>2, <2>4, <2>5, <3>1, <3>2 DEF N
  <2>8. \A i \in 1 .. Len(back) : back[i] = mk[i]
    BY <1>0, <2>6 DEF N
  <2> HIDE DEF C
  <2> QED
    BY <1>0, <1>4, <2>6, <2>8, SeqEqual
<1>9. \E E \in SUBSET (1 .. Len(in)) : Kept(back, mk, E)
  <2> HIDE DEF D
  <2> QED
    BY <1>5, <1>7
<1> HIDE DEF D
<1> QED
  BY <1>2, <1>8, <1>9 DEF s, back, mk

--------------------------------------------------------------------------------
(* Messages *)

\* snprintf copies the beginning of a text, all of it if it fits.
LEMMA CutFacts ==
    ASSUME NEW s \in Seq(Wire), NEW size \in Nat \ {0}
    PROVE  LET r == Cut(s, size)
           IN  /\ r \in Seq(Wire)
               /\ Len(r) < size
               /\ Len(r) = IF Len(s) < size THEN Len(s) ELSE size - 1
               /\ \A i \in 1 .. Len(r) : r[i] = s[i]
               /\ Len(s) < size => r = s
<1> DEFINE n == IF Len(s) < size THEN Len(s) ELSE size - 1
           r == SubSeq(s, 1, n)
<1>1. n \in Nat /\ n =< Len(s) /\ n < size
  OBVIOUS
<1>2. Cut(s, size) = r
  BY DEF Cut
<1> HIDE DEF n
<1>3. \A i \in 1 .. n : s[i] \in Wire
  BY <1>1
<1>4. r \in Seq(Wire) /\ Len(r) = n
  BY <1>1, <1>3, SubSeqProperties
<1>5. \A i \in 1 .. n : r[i] = s[i]
  BY <1>1
<1>6. Len(s) < size => r = s
  BY <1>4, <1>5, SeqEqual DEF n
<1> HIDE DEF r
<1> QED
  BY <1>1, <1>2, <1>4, <1>5, <1>6 DEF n

\* The places of a message.
LEMMA MessageFacts ==
    ASSUME NEW v \in Seq(Wire)
    PROVE  LET m == Message(v)
           IN  /\ m \in Seq(Wire)
               /\ Len(m) = Len(v) + 3
               /\ m[1] = "head"
               /\ \A i \in 1 .. Len(v) : m[i + 1] = v[i]
               /\ m[Len(v) + 2] = "quote" /\ m[Len(v) + 3] = "tail"
<1> DEFINE h == <<"head">>
           t == <<"quote", "tail">>
           hv == h \o v
           m == hv \o t
<1>1. h \in Seq(Wire) /\ t \in Seq(Wire) /\ Len(v) \in Nat
  BY DEF Wire, Char
<1>2. hv \in Seq(Wire) /\ Len(hv) = Len(v) + 1 /\ hv[1] = "head"
  BY <1>1
<1>3. \A i \in 1 .. Len(v) : hv[i + 1] = v[i]
  BY <1>1
<1>4. Message(v) = m
  BY DEF Message
<1> HIDE DEF hv
<1>5. m \in Seq(Wire)
  BY <1>1, <1>2
<1>6. Len(m) = Len(v) + 3
  BY <1>1, <1>2
<1>7. \A i \in 1 .. Len(hv) : m[i] = hv[i]
  BY <1>1, <1>2
<1>8. m[Len(hv) + 1] = "quote" /\ m[Len(hv) + 2] = "tail"
  BY <1>1, <1>2
<1>9. m[Len(v) + 2] = "quote" /\ m[Len(v) + 3] = "tail"
  <2>1. Len(hv) + 1 = Len(v) + 2 /\ Len(hv) + 2 = Len(v) + 3
    BY <1>1, <1>2
  <2> HIDE DEF m
  <2> QED
    BY <1>8, <2>1
<1> HIDE DEF m
<1>10. m[1] = "head"
  <2>1. 1 \in 1 .. Len(hv)
    BY <1>1, <1>2
  <2> QED
    BY <1>2, <1>7, <2>1
<1>11. ASSUME NEW i \in 1 .. Len(v) PROVE m[i + 1] = v[i]
  <2>1. i + 1 \in 1 .. Len(hv)
    BY <1>1, <1>2
  <2> QED
    BY <1>3, <1>7, <2>1
<1> QED
  BY <1>4, <1>5, <1>6, <1>9, <1>10, <1>11

\* The value in a message.
LEMMA MessageValue ==
    ASSUME NEW v \in Seq(Wire)
    PROVE  LET m == Message(v)
           IN  /\ SubSeq(m, 2, Len(m) - 2) = v
               /\ SubSeq(m, Len(m) - 1, Len(m)) = <<"quote", "tail">>
               /\ Len(m) >= 3 /\ Head(m) = "head"
<1> DEFINE m == Message(v)
<1>1. /\ m \in Seq(Wire)
      /\ Len(m) = Len(v) + 3
      /\ m[1] = "head"
      /\ \A i \in 1 .. Len(v) : m[i + 1] = v[i]
      /\ m[Len(v) + 2] = "quote" /\ m[Len(v) + 3] = "tail"
  BY MessageFacts
<1> HIDE DEF m
<1>2. Len(v) \in Nat
  OBVIOUS
<1>3. Len(m) >= 3 /\ Head(m) = "head"
  BY <1>1, <1>2
<1>4. SubSeq(m, 2, Len(m) - 2) = v
  <2> DEFINE r == SubSeq(m, 2, Len(v) + 1)
  <2>1. \A i \in 2 .. Len(v) + 1 : m[i] \in Wire
    BY <1>1, <1>2
  <2>2. r \in Seq(Wire) /\ Len(r) = Len(v)
    BY <1>2, <2>1, SubSeqProperties
  <2>3. \A i \in 1 .. Len(v) : r[i] = v[i]
    BY <1>1, <1>2
  <2>4. r = v
    <3> HIDE DEF r
    <3> QED
      BY <2>2, <2>3, SeqEqual
  <2>5. Len(m) - 2 = Len(v) + 1
    BY <1>1, <1>2
  <2> QED
    BY <2>4, <2>5
<1>5. SubSeq(m, Len(m) - 1, Len(m)) = <<"quote", "tail">>
  <2> DEFINE r == SubSeq(m, Len(v) + 2, Len(v) + 3)
             t == <<"quote", "tail">>
  <2>1. r = t
    <3>1. \A i \in Len(v) + 2 .. Len(v) + 3 : m[i] \in Wire
      BY <1>1, <1>2
    <3>2. r \in Seq(Wire) /\ Len(r) = 2
      BY <1>2, <3>1, SubSeqProperties
    <3>3. r[1] = m[Len(v) + 2] /\ r[2] = m[Len(v) + 3]
      BY <1>2
    <3>4. t \in Seq(Wire) /\ Len(t) = 2 /\ t[1] = "quote" /\ t[2] = "tail"
      BY DEF Wire, Char
    <3> HIDE DEF r, t
    <3>5. \A i \in 1 .. Len(r) : r[i] = t[i]
      BY <1>1, <3>2, <3>3, <3>4
    <3> QED
      BY <3>2, <3>4, <3>5, SeqEqual
  <2>2. Len(m) - 1 = Len(v) + 2 /\ Len(m) = Len(v) + 3
    BY <1>1, <1>2
  <2> QED
    BY <2>1, <2>2
<1> QED
  BY <1>3, <1>4, <1>5 DEF m

--------------------------------------------------------------------------------
(* A candidate on its way in *)

\* data begins as a message with the value s does, as far as it goes.
Begins(data, s) ==
    /\ data \in Seq(Wire)
    /\ \A k \in 1 .. Len(s) : k + 1 =< Len(data) => data[k + 1] = s[k]
    /\ Len(s) + 2 =< Len(data) => data[Len(s) + 2] = "quote"

\* The characters that webrtc_handle_signaling does not change on the way.
Plain(in) == \A i \in 1 .. Len(in) : in[i] \notin {"backslash", "break"}

\* The turn j wrote its character, and where.
Wrote(in, out, j) == out[j] = out[j - 1] \o Enc(in[j])
Places(in, out, j, data) ==
    /\ Len(out[j - 1]) \in Nat
    /\ Len(out[j]) = Len(out[j - 1]) + Len(Enc(in[j]))
    /\ \A k \in 1 .. Len(Enc(in[j])) :
          Len(out[j - 1]) + k + 1 =< Len(data) => data[Len(out[j - 1]) + k + 1] = Enc(in[j])[k]

\* The places a turn of json_escape filled, in a message.
LEMMA PlacesOfTurn ==
    ASSUME NEW in \in Seq(Char), NEW size \in Nat \ {0}, NEW out, Loop(in, size, out),
           NEW data, Begins(data, out[Len(in)]),
           NEW j \in 1 .. Len(in), Wrote(in, out, j)
    PROVE  Places(in, out, j, data)
<1> DEFINE s == out[Len(in)]
           o == out[j - 1]
           e == Enc(in[j])
           q == out[j]
<1>1. o \in Seq(Char) /\ e \in Seq(Char) /\ s \in Seq(Char) /\ q = o \o e
  <2>1. j - 1 \in 0 .. Len(in) /\ Len(in) \in 0 .. Len(in) /\ in[j] \in Char
    OBVIOUS
  <2>2. \A k \in 0 .. Len(in) : out[k] \in Seq(Char)
    BY LoopFacts
  <2>3. e \in Seq(Char)
    BY <2>1, EncFacts
  <2> QED
    BY <2>1, <2>2, <2>3 DEF Wrote
<1>2. Len(q) =< Len(s) /\ \A k \in 1 .. Len(q) : s[k] = q[k]
  <2>1. j \in 0 .. Len(in)
    OBVIOUS
  <2>2. \A i \in 0 .. Len(in) :
           Len(out[i]) =< Len(s) /\ \A k \in 1 .. Len(out[i]) : s[k] = out[i][k]
    BY LoopPrefix, SMTT(30)
  <2> HIDE DEF s
  <2> QED
    BY <2>1, <2>2, Zenon
<1>3. \A k \in 1 .. Len(s) : k + 1 =< Len(data) => data[k + 1] = s[k]
  BY DEF Begins
<1> HIDE DEF s, o, e, q
<1>4. /\ Len(q) = Len(o) + Len(e)
      /\ \A k \in 1 .. Len(e) : q[Len(o) + k] = e[k]
      /\ Len(o) \in Nat /\ Len(e) \in Nat /\ Len(s) \in Nat
  BY <1>1
<1>5. ASSUME NEW k \in 1 .. Len(e), Len(o) + k + 1 =< Len(data)
      PROVE  data[Len(o) + k + 1] = e[k]
  <2>1. Len(o) + k \in 1 .. Len(q) /\ Len(o) + k \in 1 .. Len(s)
    BY <1>2, <1>4
  <2>2. data[(Len(o) + k) + 1] = s[Len(o) + k]
    BY <1>3, <1>5, <2>1
  <2>3. s[Len(o) + k] = e[k]
    BY <1>2, <1>4, <2>1
  <2> QED
    BY <2>2, <2>3
<1> QED
  BY <1>4, <1>5 DEF o, e, q, Places

\* A character of a candidate is read back, and the walk goes on behind it.
ReadBack(in, out, j, from) == from[Len(out[j - 1]) + 2] = <<in[j]>> \o from[Len(out[j]) + 2]

\* It is if it is whole in the message.
LEMMA ExtractTurn ==
    ASSUME NEW in \in Seq(Char), NEW size \in Nat \ {0}, NEW out, Loop(in, size, out),
           NEW data, Begins(data, out[Len(in)]), NEW from, ExtractWalk(data, from),
           NEW j \in 1 .. Len(in), Wrote(in, out, j),
           Plain(in), Len(out[j]) + 1 =< Len(data)
    PROVE  ReadBack(in, out, j, from)
<1> DEFINE c == in[j]
           e == Enc(c)
           n == Len(out[j - 1])
           m == Len(out[j])
           L == Len(data)
<1>1. c \in Char /\ c \notin {"backslash", "break"}
  BY DEF Plain
<1>2. /\ n \in Nat /\ m = n + Len(e)
      /\ \A k \in 1 .. Len(e) : n + k + 1 =< L => data[n + k + 1] = e[k]
  <2>1. Places(in, out, j, data)
    BY PlacesOfTurn
  <2> QED
    BY <2>1, Zenon DEF Places
<1>3. L \in Nat /\ m + 1 =< L
  <2>1. data \in Seq(Wire)
    BY DEF Begins
  <2>2. L \in Nat
    BY <2>1
  <2> QED
    BY <2>2, Zenon
<1>4. \A i \in 1 .. L + 2 :
        /\ i < L /\ data[i] = "backslash" /\ data[i + 1] = "quote" =>
              from[i] = <<"quote">> \o from[i + 2]
        /\ i =< L /\ data[i] \notin {"quote", "backslash"} => from[i] = <<data[i]>> \o from[i + 1]
  BY DEF ExtractWalk
<1>5. CASE c \in DOMAIN Escapes
  <2>1. Len(e) = 2 /\ e[1] = "backslash" /\ e[2] = "quote" /\ c = "quote"
    BY <1>1, <1>5, EncFacts, EscapesFacts
  <2> HIDE DEF n, m, L, e, c
  <2>2. m = n + 2 /\ 1 \in 1 .. Len(e) /\ 2 \in 1 .. Len(e)
    BY <1>2, <2>1
  <2>3. data[n + 2] = "backslash" /\ data[n + 3] = "quote"
    <3>1. n + 1 + 1 = n + 2 /\ n + 2 + 1 = n + 3 /\ n + 2 =< L /\ n + 3 =< L
      BY <1>2, <1>3, <2>2
    <3>2. data[n + 1 + 1] = e[1] /\ data[n + 2 + 1] = e[2]
      BY <1>2, <2>2, <3>1
    <3> QED
      BY <2>1, <3>1, <3>2
  <2>4. n + 2 \in 1 .. L + 2 /\ n + 2 < L /\ (n + 2) + 1 = n + 3 /\ (n + 2) + 2 = m + 2
    BY <1>2, <1>3, <2>2
  <2>5. from[n + 2] = <<"quote">> \o from[(n + 2) + 2]
    BY <1>4, <2>3, <2>4
  <2>6. from[n + 2] = <<c>> \o from[m + 2]
    BY <2>1, <2>4, <2>5
  <2> QED
    BY <2>6, Zenon DEF n, m, c, ReadBack
<1>6. CASE c \notin DOMAIN Escapes
  <2>1. Len(e) = 1 /\ e[1] = c /\ c \notin {"quote", "backslash"}
    BY <1>1, <1>6, EncFacts, EscapesFacts
  <2> HIDE DEF n, m, L, e, c
  <2>2. m = n + 1 /\ 1 \in 1 .. Len(e)
    BY <1>2, <2>1
  <2>3. data[n + 2] = c
    <3>1. n + 1 + 1 = n + 2 /\ n + 2 =< L
      BY <1>2, <1>3, <2>2
    <3>2. data[n + 1 + 1] = e[1]
      BY <1>2, <2>2, <3>1
    <3> QED
      BY <2>1, <3>1, <3>2
  <2>4. n + 2 \in 1 .. L + 2 /\ n + 2 =< L /\ (n + 2) + 1 = m + 2
    BY <1>2, <1>3, <2>2
  <2>5. from[n + 2] = <<data[n + 2]>> \o from[(n + 2) + 1]
    BY <1>4, <2>1, <2>3, <2>4
  <2>6. from[n + 2] = <<c>> \o from[m + 2]
    BY <2>3, <2>4, <2>5
  <2> QED
    BY <2>6, Zenon DEF n, m, c, ReadBack
<1> QED
  BY <1>5, <1>6

\* A message that was cut has a last character that is whole in it.
LEMMA LastWhole ==
    ASSUME NEW N \in Nat, NEW len \in [0 .. N -> Nat], len[0] = 0, NEW M \in Nat, M >= 1
    PROVE  \E n \in 0 .. N : len[n] + 1 =< M /\ (n = N \/ len[n + 1] + 1 > M)
<1> DEFINE S == {n \in Nat : n =< N => len[n] + 1 =< M}
<1> SUFFICES ASSUME \A n \in 0 .. N : ~(len[n] + 1 =< M /\ (n = N \/ len[n + 1] + 1 > M))
             PROVE  FALSE
  OBVIOUS
<1>1. 0 \in S
  OBVIOUS
<1>2. ASSUME NEW n \in Nat, n \in S PROVE n + 1 \in S
  <2> SUFFICES ASSUME n + 1 =< N PROVE len[n + 1] + 1 =< M
    OBVIOUS
  <2>1. n \in 0 .. N /\ n + 1 \in 0 .. N /\ n # N /\ n =< N
    OBVIOUS
  <2>2. len[n] + 1 =< M
    BY <1>2, <2>1
  <2>3. ~(len[n + 1] + 1 > M)
    BY <2>1, <2>2
  <2>4. len[n + 1] \in Nat
    BY <2>1
  <2> QED
    BY <2>3, <2>4
<1>3. N \in S
  <2> HIDE DEF S
  <2> QED
    BY <1>1, <1>2, NumberInduction
<1>4. len[N] + 1 =< M /\ N \in 0 .. N
  BY <1>3
<1> QED
  BY <1>4

\* Behind that character the walk ends, or reads the backslash of an escape that was
\* cut in two.
ReadTail(in, out, n, from) ==
    /\ from[Len(out[n]) + 2] \in {<<>>, <<"backslash">>}
    /\ n = Len(in) => from[Len(out[n]) + 2] = <<>>

\* It does one of the two.
LEMMA ExtractTail ==
    ASSUME NEW in \in Seq(Char), NEW size \in Nat \ {0}, NEW out, Loop(in, size, out),
           NEW data, Begins(data, out[Len(in)]), NEW from, ExtractWalk(data, from),
           \A j \in 1 .. Len(in) : Wrote(in, out, j),
           NEW n \in 0 .. Len(in), Len(out[n]) + 1 =< Len(data),
           n = Len(in) \/ Len(out[n + 1]) + 1 > Len(data)
    PROVE  ReadTail(in, out, n, from)
<1> DEFINE N == Len(in)
           L == Len(data)
           b == Len(out[n])
           i == b + 2
<1>1. N \in Nat /\ n \in 0 .. N
  OBVIOUS
<1>2. b \in Nat
  <2>1. \A j \in 0 .. N : out[j] \in Seq(Char)
    BY LoopFacts
  <2>2. out[n] \in Seq(Char)
    BY <2>1
  <2> QED
    BY <2>2
<1>3. L \in Nat
  <2>1. data \in Seq(Wire)
    BY DEF Begins
  <2> QED
    BY <2>1
<1>4. \A k \in 1 .. L + 2 :
         /\ from[k] \in Seq(Wire)
         /\ k > L => from[k] = <<>>
         /\ k =< L /\ data[k] = "quote" => from[k] = <<>>
         /\ k = L /\ data[k] = "backslash" => from[k] = <<data[k]>> \o from[k + 1]
  BY DEF ExtractWalk
<1>5. b + 1 =< L
  BY Zenon
<1>6. n = N => (i =< L => data[i] = "quote")
  BY Zenon DEF Begins
<1>7. n # N => n + 1 \in 1 .. N /\ (n + 1) - 1 = n
  BY <1>1
<1>8. n # N => /\ Len(out[n + 1]) = b + Len(Enc(in[n + 1]))
               /\ \A k \in 1 .. Len(Enc(in[n + 1])) : b + k + 1 =< L => data[b + k + 1] = Enc(in[n + 1])[k]
  <2> SUFFICES ASSUME n # N
               PROVE  /\ Len(out[n + 1]) = b + Len(Enc(in[n + 1]))
                      /\ \A k \in 1 .. Len(Enc(in[n + 1])) : b + k + 1 =< L => data[b + k + 1] = Enc(in[n + 1])[k]
    OBVIOUS
  <2>1. n + 1 \in 1 .. Len(in) /\ Wrote(in, out, n + 1)
    BY <1>7
  <2>2. Places(in, out, n + 1, data)
    BY <2>1, PlacesOfTurn
  <2> QED
    BY <1>7, <2>2, Zenon DEF Places
<1>9. n # N => in[n + 1] \in Char /\ Len(out[n + 1]) + 1 > L
  BY <1>7
<1> HIDE DEF N, L, b
<1>10. i \in 1 .. L + 2
  BY <1>2, <1>3, <1>5
<1>11. CASE i > L
  <2>1. from[i] = <<>>
    BY <1>4, <1>10, <1>11
  <2> QED
    BY <2>1 DEF b, ReadTail
<1>12. CASE i =< L /\ n = N
  <2>1. from[i] = <<>>
    BY <1>4, <1>6, <1>10, <1>12
  <2> QED
    BY <2>1 DEF b, ReadTail
<1>13. CASE i =< L /\ n # N
  <2> DEFINE e == Enc(in[n + 1])
             m == Len(e)
  <2>1. /\ Len(out[n + 1]) = b + m /\ b + m + 1 > L
        /\ \A k \in 1 .. m : b + k + 1 =< L => data[b + k + 1] = e[k]
    BY <1>8, <1>9, <1>13
  <2>2. in[n + 1] \in Char
    BY <1>9, <1>13
  <2>3. m = 1 \/ (m = 2 /\ e[1] = "backslash")
    BY <2>2, EncFacts
  <2> HIDE DEF e, m
  <2>4. m = 2 /\ e[1] = "backslash" /\ i = L
    BY <1>2, <1>3, <1>13, <2>1, <2>3
  <2>5. 1 \in 1 .. m /\ b + 1 + 1 = i
    BY <1>2, <2>4
  <2>6. data[i] = "backslash"
    BY <2>1, <2>4, <2>5
  <2>7. from[i] = <<data[i]>> \o from[i + 1]
    BY <1>4, <1>10, <2>4, <2>6
  <2>8. i + 1 \in 1 .. L + 2 /\ i + 1 > L
    BY <1>3, <1>10, <2>4
  <2>9. from[i + 1] = <<>>
    BY <1>4, <2>8
  <2>10. from[i] = <<"backslash">> \o <<>>
    BY <2>6, <2>7, <2>9
  <2>11. <<"backslash">> \o <<>> = <<"backslash">>
    OBVIOUS
  <2>12. from[i] = <<"backslash">>
    BY <2>10, <2>11
  <2> QED
    BY <1>13, <2>12 DEF b, N, ReadTail
<1> QED
  BY <1>2, <1>3, <1>11, <1>12, <1>13

\* r is what is left of w behind its first j characters.
Rest(r, w, j) == Len(r) = Len(w) - j /\ \A k \in 1 .. Len(r) : r[k] = w[j + k]

\* In front of the tail the walk has read the first n characters.
ReadWhole(in, out, n, from) == from[2] = SubSeq(in, 1, n) \o from[Len(out[n]) + 2]

\* It does so for the characters that are whole in the message.
LEMMA ExtractWhole ==
    ASSUME NEW in \in Seq(Char), NEW size \in Nat \ {0}, NEW out, Loop(in, size, out),
           NEW data, Begins(data, out[Len(in)]), NEW from, ExtractWalk(data, from),
           \A j \in 1 .. Len(in) : Wrote(in, out, j), Plain(in),
           NEW n \in 0 .. Len(in), Len(out[n]) + 1 =< Len(data)
    PROVE  ReadWhole(in, out, n, from)
<1> DEFINE N == Len(in)
           at(j) == from[Len(out[j]) + 2]
           T == at(n)
           v == SubSeq(in, 1, n)
           w == v \o T
           P(j) == Len(out[j]) + 1 =< Len(data) /\ Rest(at(j), w, j)
           S == {k \in Nat : k =< n => P(n - k)}
<1>1. N \in Nat /\ n \in 0 .. N /\ n \in Nat
  OBVIOUS
<1>2. ASSUME NEW j \in 0 .. N, Len(out[j]) + 1 =< Len(data)
      PROVE  Len(out[j]) \in Nat /\ at(j) \in Seq(Wire)
  <2>1. \A k \in 0 .. N : out[k] \in Seq(Char)
    BY LoopFacts
  <2>2. out[j] \in Seq(Char)
    BY <2>1
  <2>3. Len(out[j]) \in Nat
    BY <2>2
  <2>4. Len(data) \in Nat
    <3>1. data \in Seq(Wire)
      BY DEF Begins
    <3> QED
      BY <3>1
  <2>5. Len(out[j]) + 2 \in 1 .. Len(data) + 2
    BY <1>2, <2>3, <2>4
  <2> QED
    BY <2>3, <2>5, Zenon DEF ExtractWalk
<1>3. T \in Seq(Wire)
  BY <1>1, <1>2
<1>4. v \in Seq(Wire) /\ Len(v) = n /\ \A k \in 1 .. n : v[k] = in[k]
  <2>1. \A k \in 1 .. n : in[k] \in Wire
    BY <1>1 DEF Wire
  <2>2. v \in Seq(Wire) /\ Len(v) = n
    BY <1>1, <2>1, SubSeqProperties
  <2>3. \A k \in 1 .. n : v[k] = in[k]
    BY <1>1
  <2> QED
    BY <2>2, <2>3
<1> HIDE DEF T, v
<1>5. /\ w \in Seq(Wire) /\ Len(w) = n + Len(T) /\ Len(T) \in Nat
      /\ \A k \in 1 .. n : w[k] = in[k]
      /\ \A k \in 1 .. Len(T) : w[n + k] = T[k]
  <2>1. w \in Seq(Wire) /\ Len(w) = Len(v) + Len(T) /\ Len(T) \in Nat
    BY <1>3, <1>4
  <2>2. \A k \in 1 .. n : w[k] = v[k]
    BY <1>1, <1>3, <1>4
  <2>3. \A k \in 1 .. Len(T) : w[Len(v) + k] = T[k]
    BY <1>3, <1>4
  <2> HIDE DEF w
  <2> QED
    BY <1>4, <2>1, <2>2, <2>3
<1> HIDE DEF w
<1>6. P(n)
  <2>1. Len(T) = Len(w) - n
    <3>1. \A x, y \in Nat : y = n + x => x = y - n
      BY <1>1
    <3>2. Len(w) \in Nat
      BY <1>5
    <3> QED
      BY <1>5, <3>1, <3>2, Zenon
  <2>2. Rest(T, w, n)
    BY <1>5, <2>1 DEF Rest
  <2> QED
    BY <2>2, Zenon DEF T
<1>7. ASSUME NEW j \in 1 .. n, P(j) PROVE P(j - 1)
  <2> DEFINE q == at(j - 1)
             r == at(j)
  <2>1. j \in 1 .. N /\ j \in 0 .. N /\ j - 1 \in 0 .. N /\ Wrote(in, out, j)
    BY <1>1
  <2>2. Places(in, out, j, data)
    BY <2>1, PlacesOfTurn
  <2>3. Enc(in[j]) \in Seq(Char) /\ in[j] \in Char /\ in[j] \in Wire
    BY <2>1, EncFacts DEF Wire
  <2>4. Len(out[j - 1]) + 1 =< Len(data)
    <3>1. Len(Enc(in[j])) \in Nat
      BY <2>3
    <3>2. Len(out[j - 1]) \in Nat /\ Len(out[j]) = Len(out[j - 1]) + Len(Enc(in[j]))
      BY <2>2 DEF Places
    <3>3. Len(data) \in Nat
      <4>1. data \in Seq(Wire)
        BY DEF Begins
      <4> QED
        BY <4>1
    <3>4. \A x, y, z, l \in Nat : z = x + y /\ z + 1 =< l => x + 1 =< l
      OBVIOUS
    <3>5. Len(out[j]) \in Nat /\ Len(out[j]) + 1 =< Len(data)
      BY <1>2, <1>7, <2>1, Zenon
    <3> QED
      BY <3>1, <3>2, <3>3, <3>4, <3>5, Zenon
  <2>5. r \in Seq(Wire) /\ Rest(r, w, j)
    BY <1>2, <1>7, <2>1, Zenon
  <2>6. q = <<in[j]>> \o r
    <3>1. ReadBack(in, out, j, from)
      BY <1>7, <2>1, ExtractTurn
    <3> QED
      BY <3>1, Zenon DEF ReadBack
  <2> HIDE DEF q, r
  <2>7. /\ Len(r) \in Nat /\ Len(q) = Len(r) + 1 /\ q[1] = in[j]
        /\ \A k \in 1 .. Len(r) : q[k + 1] = r[k]
    BY <2>3, <2>5, <2>6, ConsFacts
  <2>8. Len(r) = Len(w) - j /\ \A k \in 1 .. Len(r) : r[k] = w[j + k]
    BY <2>5 DEF Rest
  <2>9. Len(w) \in Nat
    BY <1>1, <1>5
  <2>10. ASSUME NEW k \in 1 .. Len(q) PROVE q[k] = w[(j - 1) + k]
    <3>1. CASE k = 1
      <4>1. (j - 1) + k = j /\ w[j] = in[j]
        BY <1>5, <3>1
      <4> QED
        BY <2>7, <3>1, <4>1
    <3>2. CASE k # 1
      <4>1. k - 1 \in 1 .. Len(r) /\ (k - 1) + 1 = k /\ j + (k - 1) = (j - 1) + k
        BY <2>7, <3>2
      <4>2. q[(k - 1) + 1] = r[k - 1] /\ r[k - 1] = w[j + (k - 1)]
        BY <2>7, <2>8, <4>1
      <4> QED
        BY <4>1, <4>2
    <3> QED
      BY <3>1, <3>2
  <2>11. Len(q) = Len(w) - (j - 1)
    BY <2>7, <2>8, <2>9
  <2>12. Rest(q, w, j - 1)
    BY <2>10, <2>11 DEF Rest
  <2> QED
    BY <2>4, <2>12, Zenon DEF q
<1>8. Rest(at(0), w, 0)
  <2> HIDE DEF P
  <2>1. 0 \in S
    BY <1>1, <1>6
  <2>2. ASSUME NEW k \in Nat, k \in S PROVE k + 1 \in S
    <3> SUFFICES ASSUME k + 1 =< n PROVE P(n - (k + 1))
      OBVIOUS
    <3>1. n - k \in 1 .. n /\ n - (k + 1) = (n - k) - 1 /\ k =< n
      BY <1>1
    <3> QED
      BY <1>7, <2>2, <3>1
  <2>3. \A k \in Nat : k \in S
    <3> HIDE DEF S
    <3> QED
      BY <2>1, <2>2, NumberInduction
  <2>4. n \in S
    BY <1>1, <2>3, Zenon
  <2>5. n =< n /\ n - n = 0
    BY <1>1
  <2>6. P(n - n)
    BY <2>4, <2>5
  <2>7. P(0)
    BY <2>5, <2>6, Zenon
  <2> QED
    BY <2>7, Zenon DEF P
<1>9. at(0) = from[2] /\ from[2] \in Seq(Wire)
  <2>1. out[0] = <<>> /\ Len(<<>>) = 0
    BY DEF Loop
  <2>2. at(0) = from[2]
    BY <2>1
  <2>3. 2 \in 1 .. Len(data) + 2
    <3>1. data \in Seq(Wire)
      BY DEF Begins
    <3> QED
      BY <3>1
  <2>4. from[2] \in Seq(Wire)
    BY <2>3 DEF ExtractWalk
  <2> QED
    BY <2>2, <2>4, Zenon
<1>10. Rest(from[2], w, 0)
  BY <1>8, <1>9, Zenon
<1>11. from[2] = w
  <2> DEFINE g == from[2]
  <2>1. g \in Seq(Wire) /\ Rest(g, w, 0)
    BY <1>9, <1>10, Zenon
  <2> HIDE DEF g
  <2>2. Len(g) = Len(w) /\ \A k \in 1 .. Len(g) : g[k] = w[k]
    <3>1. Len(w) \in Nat /\ Len(g) \in Nat
      BY <1>5, <2>1
    <3>2. Len(g) = Len(w) - 0 /\ \A k \in 1 .. Len(g) : g[k] = w[0 + k]
      BY <2>1 DEF Rest
    <3> QED
      BY <3>1, <3>2
  <2>3. g = w
    BY <1>5, <2>1, <2>2, SeqEqual
  <2> QED
    BY <2>3 DEF g
<1> QED
  BY <1>11, Zenon DEF w, v, T, ReadWhole

\* A message that was cut or not begins as the message does.
LEMMA CutMessageBegins ==
    ASSUME NEW s \in Seq(Char), NEW size \in Nat \ {0}
    PROVE  /\ Begins(Cut(Message(s), size), s)
           /\ Len(Message(s)) = Len(s) + 3
           /\ Len(Message(s)) < size => Len(Cut(Message(s), size)) = Len(s) + 3
<1> DEFINE m == Message(s)
           d == Cut(m, size)
<1>1. s \in Seq(Wire) /\ Len(s) \in Nat
  BY SeqMonotonic DEF Wire
<1>2. /\ m \in Seq(Wire) /\ Len(m) = Len(s) + 3
      /\ \A i \in 1 .. Len(s) : m[i + 1] = s[i]
      /\ m[Len(s) + 2] = "quote"
  BY <1>1, MessageFacts
<1> HIDE DEF m
<1>3. /\ d \in Seq(Wire) /\ \A i \in 1 .. Len(d) : d[i] = m[i]
      /\ Len(m) < size => d = m
  BY <1>2, CutFacts
<1> HIDE DEF d
<1>4. Len(d) \in Nat
  BY <1>3
<1>5. ASSUME NEW k \in 1 .. Len(s), k + 1 =< Len(d) PROVE d[k + 1] = s[k]
  <2>1. k + 1 \in 1 .. Len(d)
    BY <1>1, <1>4, <1>5
  <2> QED
    BY <1>2, <1>3, <2>1
<1>6. ASSUME Len(s) + 2 =< Len(d) PROVE d[Len(s) + 2] = "quote"
  <2>1. Len(s) + 2 \in 1 .. Len(d)
    BY <1>1, <1>4, <1>6
  <2> QED
    BY <1>2, <1>3, <2>1
<1>7. Begins(d, s)
  BY <1>3, <1>5, <1>6 DEF Begins
<1> QED
  BY <1>2, <1>3, <1>7 DEF d, m

\* What Extract reads of a candidate's message that may have been cut: the candidate
\* or its beginning, and perhaps one backslash.
LEMMA ExtractFacts ==
    ASSUME NEW in \in Seq(Char), Plain(in), NEW size \in Nat \ {0}, size > 2 * Len(in),
           NEW data, Begins(data, json_escape(in, size))
    PROVE  /\ \E n \in 0 .. Len(in) :
                 Extract(data) \in {SubSeq(in, 1, n), SubSeq(in, 1, n) \o <<"backslash">>}
           /\ Len(data) = Len(json_escape(in, size)) + 3 => Extract(data) = in
<1> DEFINE N == Len(in)
           s == json_escape(in, size)
           L == Len(data)
<1>1. PICK out : Loop(in, size, out) /\ s = out[Len(in)]
  BY EscapeLoops
<1>2. data \in Seq(Wire)
  BY DEF Begins
<1>3. PICK from : ExtractWalk(data, from) /\ Extract(data) = from[2]
  BY <1>2, ExtractWalks
<1>4. \A j \in 1 .. Len(in) : Wrote(in, out, j)
  BY <1>1, RoomForAll DEF Wrote
<1>5. Begins(data, out[Len(in)])
  BY <1>1, Zenon
<1>6. N \in Nat /\ L \in Nat
  BY <1>2
<1>7. \A j \in 0 .. N : Len(out[j]) \in Nat /\ Len(out[j]) =< Len(s)
  <2>1. \A j \in 0 .. N : out[j] \in Seq(Char)
    BY <1>1, LoopFacts
  <2>2. \A j \in 0 .. N : Len(out[j]) \in Nat
    BY <2>1
  <2>3. \A j \in 0 .. N : Len(out[j]) =< Len(out[Len(in)])
    BY <1>1, LoopPrefix
  <2> HIDE DEF s
  <2> QED
    BY <1>1, <2>2, <2>3, Zenon
<1>8. \A n \in 0 .. N : SubSeq(in, 1, n) \in Seq(Char)
  <2> TAKE n \in 0 .. N
  <2>1. \A k \in 1 .. n : in[k] \in Char
    OBVIOUS
  <2> QED
    BY <1>6, <2>1, SubSeqProperties
<1>9. SubSeq(in, 1, N) = in
  BY SubSeqFull
<1> HIDE DEF s, N, L
<1>10. CASE L = 0
  <2>1. 2 \in 1 .. L + 2 /\ 2 > L
    BY <1>10
  <2>2. from[2] = <<>>
    BY <1>3, <2>1 DEF ExtractWalk, L
  <2>3. SubSeq(in, 1, 0) = <<>>
    BY SubSeqEmpty
  <2>4. 0 \in 0 .. Len(in)
    BY <1>6 DEF N
  <2>5. Len(s) \in Nat
    <3>1. N \in 0 .. N /\ s = out[N]
      BY <1>1, <1>6 DEF N
    <3> QED
      BY <1>7, <3>1
  <2>6. ~(L = Len(s) + 3)
    BY <1>10, <2>5
  <2>7. Extract(data) = SubSeq(in, 1, 0)
    BY <1>3, <2>2, <2>3, Zenon
  <2> QED
    BY <2>4, <2>6, <2>7, Zenon DEF s, L
<1>11. CASE L >= 1
  <2> DEFINE len == [j \in 0 .. N |-> Len(out[j])]
  <2>1. len \in [0 .. N -> Nat] /\ len[0] = 0
    <3>1. out[0] = <<>> /\ Len(<<>>) = 0
      BY <1>1 DEF Loop
    <3>2. len \in [0 .. N -> Nat]
      BY <1>7
    <3>3. len[0] = Len(out[0])
      BY <1>6
    <3> QED
      BY <3>1, <3>2, <3>3
  <2>2. PICK n \in 0 .. N : len[n] + 1 =< L /\ (n = N \/ len[n + 1] + 1 > L)
    <3> HIDE DEF len
    <3> QED
      BY <1>6, <1>11, <2>1, LastWhole
  <2>3. n \in 0 .. Len(in) /\ len[n] = Len(out[n]) /\ (n # N => len[n + 1] = Len(out[n + 1]))
    BY <1>6 DEF N
  <2> HIDE DEF len
  <2>4. Len(out[n]) + 1 =< Len(data) /\ (n = Len(in) \/ Len(out[n + 1]) + 1 > Len(data))
    BY <2>2, <2>3, Zenon DEF N, L
  <2> DEFINE T == from[Len(out[n]) + 2]
  <2>5. T \in {<<>>, <<"backslash">>} /\ (n = N => T = <<>>)
    <3>1. ReadTail(in, out, n, from)
      BY <1>1, <1>3, <1>4, <1>5, <2>3, <2>4, ExtractTail
    <3> QED
      BY <3>1, Zenon DEF ReadTail, N
  <2>6. from[2] = SubSeq(in, 1, n) \o T
    <3>1. ReadWhole(in, out, n, from)
      BY <1>1, <1>3, <1>4, <1>5, <2>3, <2>4, ExtractWhole
    <3> QED
      BY <3>1, Zenon DEF ReadWhole
  <2> HIDE DEF T
  <2>7. SubSeq(in, 1, n) \o <<>> = SubSeq(in, 1, n)
    BY <1>8, ConcatEmptySeq
  <2>8. Extract(data) \in {SubSeq(in, 1, n), SubSeq(in, 1, n) \o <<"backslash">>}
    <3>1. CASE T = <<>>
      BY <1>3, <2>6, <2>7, <3>1, Zenon
    <3>2. CASE T = <<"backslash">>
      BY <1>3, <2>6, <3>2, Zenon
    <3> QED
      BY <2>5, <3>1, <3>2
  <2>9. ASSUME L = Len(s) + 3 PROVE Extract(data) = in
    <3>1. n = N
      <4>1. SUFFICES ASSUME n # N PROVE FALSE
        OBVIOUS
      <4>2. n + 1 \in 0 .. N
        BY <1>6, <4>1
      <4>3. Len(out[n + 1]) \in Nat /\ Len(out[n + 1]) =< Len(s) /\ Len(out[n + 1]) + 1 > L
        BY <1>7, <2>2, <2>3, <4>1, <4>2
      <4>4. Len(s) \in Nat
        <5>1. N \in 0 .. N /\ s = out[N]
          BY <1>1, <1>6 DEF N
        <5> QED
          BY <1>7, <5>1
      <4>5. \A x, y, l \in Nat : x =< y /\ l = y + 3 => ~(x + 1 > l)
        OBVIOUS
      <4> QED
        BY <1>6, <2>9, <4>3, <4>4, <4>5, Zenon
    <3> QED
      BY <1>3, <1>9, <2>5, <2>6, <2>7, <3>1, Zenon
  <2> QED
    BY <2>3, <2>8, <2>9, Zenon DEF s, L
<1> QED
  BY <1>6, <1>10, <1>11

--------------------------------------------------------------------------------
(* The state *)

\* The texts of the specification.
TextType == text \in Seq(Char) /\ Len(text) =< MAX_LEN

\* Only characters are appended, and MAX_LEN at most.
THEOREM TextIsTyped == Spec => []TextType
<1>1. Init => TextType
  <2> SUFFICES ASSUME Init PROVE TextType
    OBVIOUS
  <2>1. <<>> \in Seq(Char) /\ Len(<<>>) = 0
    OBVIOUS
  <2> QED
    BY <2>1, JsonAssumption DEF Init, TextType
<1>2. TextType /\ [Next]_text => TextType'
  <2> SUFFICES ASSUME TextType, [Next]_text PROVE TextType'
    OBVIOUS
  <2>1. CASE Next
    <3>1. PICK c \in Char : text' = Append(text, c)
      BY <2>1 DEF Next
    <3>2. Append(text, c) \in Seq(Char) /\ Len(Append(text, c)) = Len(text) + 1
      BY AppendProperties DEF TextType
    <3>3. Len(text) \in Nat /\ Len(text) < MAX_LEN
      BY <2>1 DEF Next, TextType
    <3> QED
      BY <3>1, <3>2, <3>3, JsonAssumption DEF TextType
  <2>2. CASE UNCHANGED text
    BY <2>2 DEF TextType
  <2> QED
    BY <2>1, <2>2
<1> QED
  BY <1>1, <1>2, PTL DEF Spec

\* json_escape keeps to its buffer, of whatever size, and what it writes is decoded
\* to the text, or to a part of it if the buffer was too small for the worst case,
\* with the control characters it has no case for marked: for texts of any length.
THEOREM EscapeIsReversible == Spec => []EscapeRoundTrips
<1>1. TextType => EscapeRoundTrips
  <2> SUFFICES ASSUME TextType, NEW size \in Sizes
               PROVE  LET out  == json_escape(text, size)
                          back == Decode(out)
                      IN  /\ Len(out) =< size - 1
                          /\ \E D \in SUBSET DOMAIN text : Kept(back, Marked(text), D)
                          /\ size > 2 * Len(text) => back = Marked(text)
    BY DEF EscapeRoundTrips
  <2>1. size \in Nat \ {0}
    BY JsonAssumption DEF Sizes
  <2>2. text \in Seq(Char) /\ DOMAIN text = 1 .. Len(text)
    BY DEF TextType
  <2> QED
    BY <2>1, <2>2, EscapeFacts
<1> QED
  BY <1>1, TextIsTyped, PTL

\* A text has a control character exactly if something of it cannot be read back.
LEMMA ControlIsMarked ==
    ASSUME NEW in \in Seq(Char)
    PROVE  "NotJson" \in Range(Marked(in)) <=> "control" \in Range(in)
<1> DEFINE mk == Marked(in)
<1>1. /\ mk \in Seq(Char \cup {"NotJson"}) /\ Len(mk) = Len(in)
      /\ \A i \in 1 .. Len(in) : mk[i] = Mark(in[i])
  BY MarkedFacts
<1> HIDE DEF mk
<1>2. Range(mk) = {mk[i] : i \in 1 .. Len(mk)} /\ Range(in) = {in[i] : i \in 1 .. Len(in)}
  BY <1>1, RangeEquality
<1>3. \A i \in 1 .. Len(in) : mk[i] = "NotJson" <=> in[i] = "control"
  <2> TAKE i \in 1 .. Len(in)
  <2>1. in[i] \in Char /\ mk[i] = Mark(in[i])
    BY <1>1
  <2> QED
    BY <2>1 DEF Mark, Char
<1> QED
  BY <1>1, <1>2, <1>3 DEF mk

\* A relay's buffer takes its message, and a message that was not cut carries the
\* text and is JSON exactly if the text has no control character but \n, \r and \t.
THEOREM RelayCarriesText == Spec => []RelayIsJson
<1>1. TextType => RelayIsJson
  <2> SUFFICES ASSUME TextType, NEW size \in Sizes
               PROVE  LET m == Relay(text, size)
                      IN  /\ Len(m) < size
                          /\ size > 2 * Len(text) + 3 =>
                                 /\ IsJson(m) <=> "control" \notin Range(text)
                                 /\ Decode(SubSeq(m, 2, Len(m) - 2)) = Marked(text)
    BY DEF RelayIsJson
  <2> DEFINE v == json_escape(text, size)
             w == Message(v)
  <2>1. size \in Nat \ {0}
    BY JsonAssumption DEF Sizes
  <2>2. text \in Seq(Char) /\ Len(text) \in Nat
    BY DEF TextType
  <2>3. /\ v \in Seq(Char) /\ Len(v) =< 2 * Len(text)
        /\ size > 2 * Len(text) => Decode(v) = Marked(text)
    BY <2>1, <2>2, EscapeFacts
  <2> HIDE DEF v
  <2>4. v \in Seq(Wire) /\ Len(v) \in Nat
    BY <2>3, SeqMonotonic DEF Wire
  <2>5. w \in Seq(Wire) /\ Len(w) = Len(v) + 3
    BY <2>4, MessageFacts
  <2>6. /\ SubSeq(w, 2, Len(w) - 2) = v
        /\ SubSeq(w, Len(w) - 1, Len(w)) = <<"quote", "tail">>
        /\ Len(w) >= 3 /\ Head(w) = "head"
    BY <2>4, MessageValue
  <2> HIDE DEF w
  <2>7. Len(Cut(w, size)) < size /\ (Len(w) < size => Cut(w, size) = w)
    BY <2>1, <2>5, CutFacts
  <2>8. Relay(text, size) = Cut(w, size)
    BY DEF Relay, w, v
  <2>9. ASSUME size > 2 * Len(text) + 3
        PROVE  /\ IsJson(w) <=> "control" \notin Range(text)
               /\ Decode(SubSeq(w, 2, Len(w) - 2)) = Marked(text)
    <3>1. size > 2 * Len(text)
      BY <2>1, <2>2, <2>9
    <3>2. Decode(v) = Marked(text)
      BY <2>3, <3>1
    <3>3. "NotJson" \in Range(Marked(text)) <=> "control" \in Range(text)
      BY <2>2, ControlIsMarked
    <3>4. IsString(v) <=> "control" \notin Range(text)
      BY <3>2, <3>3 DEF IsString
    <3>5. IsJson(w) <=> IsString(v)
      BY <2>6 DEF IsJson
    <3> QED
      BY <2>6, <3>2, <3>4, <3>5
  <2>10. size > 2 * Len(text) + 3 => Len(w) < size
    BY <2>1, <2>2, <2>3, <2>4, <2>5
  <2> QED
    BY <2>7, <2>8, <2>9, <2>10
<1> QED
  BY <1>1, TextIsTyped, PTL

\* A candidate arrives as it was sent if rx_buf takes its message, and otherwise its
\* beginning does, with at most half an escape behind it, wherever the cut went.
THEOREM CandidateArrives == Spec => []CandidateSurvives
<1>1. TextType => CandidateSurvives
  <2> SUFFICES ASSUME TextType, {"backslash", "break", "control"} \cap Range(text) = {}
               PROVE  LET got == Extract(Received(Sent(text)))
                      IN  /\ Len(Sent(text)) < RX_SIZE => got = text
                          /\ \E n \in 0 .. Len(text) :
                                got \in {SubSeq(text, 1, n), SubSeq(text, 1, n) \o <<"backslash">>}
    BY DEF CandidateSurvives
  <2> DEFINE size == 2 * MAX_LEN + 2
             s == json_escape(text, size)
             data == Cut(Message(s), RX_SIZE)
  <2>1. text \in Seq(Char) /\ Len(text) \in Nat /\ Len(text) =< MAX_LEN
    BY DEF TextType
  <2>2. size \in Nat \ {0} /\ size > 2 * Len(text) /\ RX_SIZE \in Nat \ {0}
    BY <2>1, JsonAssumption
  <2>3. Plain(text)
    BY <2>1, RangeEquality DEF Plain
  <2>4. Sent(text) = Message(s) /\ Received(Sent(text)) = data
    BY DEF Sent, Received
  <2> HIDE DEF size
  <2>5. s \in Seq(Char)
    BY <2>1, <2>2, EscapeFacts
  <2> HIDE DEF s
  <2>6. /\ Begins(data, s)
        /\ Len(Message(s)) < RX_SIZE => Len(data) = Len(s) + 3
    BY <2>2, <2>5, CutMessageBegins
  <2> HIDE DEF data
  <2>7. /\ \E n \in 0 .. Len(text) :
              Extract(data) \in {SubSeq(text, 1, n), SubSeq(text, 1, n) \o <<"backslash">>}
        /\ Len(data) = Len(s) + 3 => Extract(data) = text
    BY <2>1, <2>2, <2>3, <2>6, ExtractFacts DEF s
  <2> QED
    BY <2>4, <2>6, <2>7, Zenon
<1> QED
  BY <1>1, TextIsTyped, PTL

================================================================================
