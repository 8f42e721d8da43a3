----------------------------- MODULE TextProofs -----------------------------
(***************************************************************************)
(* Proofs about the texts of the platform, for every value of their        *)
(* constants: the text of an edit (any text), the search index (any corpus *)
(* and any builds), the parts a text is cut into (any lines) and the       *)
(* excerpts the interview shows its model (any ranking).  Texts is         *)
(* Catalogue, Index is CodeIndex, Chunks is TextChunks and Grounds is      *)
(* Grounding, as MCPlatform has them.                                      *)
(***************************************************************************)
EXTENDS PlatformProofs

-----------------------------------------------------------------------------
(* The text of an edit *)

\* An edit goes on, and is committed, for a requirement that names one field, on the
\* page for the owner's alone; what is committed is what was asked for.
TextInv ==
  /\ text_request = None => text_decision = None
  /\ text_decision \in {"auto", "committed"} =>
       /\ text_request \in Texts!Requests
       /\ Texts!Normalized /\ (text_surface = "page" => text_request.from = "owner")
       /\ text_before \in [Fields -> Texts!Stored]
  /\ text_request # None =>
       text_request \in Texts!Requests /\ text_before \in [Fields -> Texts!Stored]
  /\ text_decision = "committed" => text_after = Texts!Applied

\* How html.escape and html.unescape go on from the i-th character.
EscapedFrom(f, v, i) == IF i > Len(v) THEN <<>> ELSE Texts!Coded(v[i]) \o f[i + 1]
UnescapedFrom(f, t, i) ==
  IF i > Len(t) THEN <<>>
  ELSE IF Texts!Starts(t, i)
    THEN <<IF t[i + 1] = "amp;" THEN "&" ELSE "quote">> \o f[i + 2]
  ELSE <<t[i]>> \o f[i + 1]

\* html.escape has a result for every rest of a text.
LEMMA EscapeExists ==
  ASSUME NEW v, Len(v) \in Nat
  PROVE  \E g : g = [i \in 1..(Len(v) + 1) |-> EscapedFrom(g, v, i)]
<1> DEFINE n == Len(v) + 1
           T == {k \in 1..n : ~\E g : g = [i \in k..n |-> EscapedFrom(g, v, i)]}
<1>1. n \in Nat /\ 1 \in 1..n
  OBVIOUS
<1> SUFFICES ASSUME T # {} PROVE FALSE
  BY <1>1
<1>2. T \subseteq 1..n
  OBVIOUS
<1>3. \A k \in 1..n : k \notin T => \E g : g = [i \in k..n |-> EscapedFrom(g, v, i)]
  OBVIOUS
<1>4. \A k \in T : ~\E g : g = [i \in k..n |-> EscapedFrom(g, v, i)]
  OBVIOUS
<1> HIDE DEF T
<1>5. PICK m \in T : \A k \in T : k <= m
  BY <1>1, <1>2, Greatest
<1>6. m \in 1..n
  BY <1>2
<1>7. CASE m = n
  <2> DEFINE g == [i \in m..n |-> <<>>]
  <2>1. ASSUME NEW i \in m..n PROVE EscapedFrom(g, v, i) = <<>>
    <3>1. i > Len(v)
      BY <1>7, <2>1
    <3> QED BY <3>1 DEF EscapedFrom
  <2>2. g = [i \in m..n |-> EscapedFrom(g, v, i)]
    BY <2>1
  <2> QED BY <1>4, <2>2
<1>8. CASE m # n
  <2>1. m + 1 \in 1..n /\ m + 1 \notin T /\ m <= Len(v)
    BY <1>5, <1>6, <1>8
  <2>2. PICK f : f = [i \in (m + 1)..n |-> EscapedFrom(f, v, i)]
    BY <1>3, <2>1
  <2> DEFINE g == [i \in m..n |-> IF i = m THEN Texts!Coded(v[m]) \o f[m + 1] ELSE f[i]]
  <2>3. ASSUME NEW i \in m..n PROVE g[i] = EscapedFrom(g, v, i)
    <3>1. CASE i = m
      <4>1. m + 1 \in m..n /\ m + 1 # m
        BY <1>6, <2>1
      <4>2. g[m + 1] = f[m + 1] /\ g[i] = Texts!Coded(v[m]) \o f[m + 1]
        BY <3>1, <4>1
      <4>3. ~(i > Len(v))
        BY <1>6, <2>1, <3>1
      <4> HIDE DEF g
      <4> QED BY <3>1, <4>2, <4>3 DEF EscapedFrom
    <3>2. CASE i # m
      <4>1. i \in (m + 1)..n
        BY <1>6, <3>2
      <4>2. g[i] = EscapedFrom(f, v, i)
        BY <2>2, <3>2, <4>1
      <4>3. ~(i > Len(v)) => i + 1 \in m..n /\ i + 1 # m
        BY <1>6, <4>1
      <4>4. ~(i > Len(v)) => g[i + 1] = f[i + 1]
        BY <4>3
      <4> HIDE DEF g
      <4> QED BY <4>2, <4>4 DEF EscapedFrom
    <3> QED BY <3>1, <3>2
  <2>4. g = [i \in m..n |-> g[i]]
    OBVIOUS
  <2> HIDE DEF g
  <2>5. g = [i \in m..n |-> EscapedFrom(g, v, i)]
    BY <2>3, <2>4
  <2> QED BY <1>4, <2>5
<1> QED BY <1>7, <1>8

\* html.unescape has one too.
LEMMA UnescapeExists ==
  ASSUME NEW t, Len(t) \in Nat
  PROVE  \E g : g = [i \in 1..(Len(t) + 2) |-> UnescapedFrom(g, t, i)]
<1> DEFINE n == Len(t) + 2
           T == {k \in 1..n : ~\E g : g = [i \in k..n |-> UnescapedFrom(g, t, i)]}
<1>1. n \in Nat /\ 1 \in 1..n
  OBVIOUS
<1> SUFFICES ASSUME T # {} PROVE FALSE
  BY <1>1
<1>2. T \subseteq 1..n
  OBVIOUS
<1>3. \A k \in 1..n : k \notin T => \E g : g = [i \in k..n |-> UnescapedFrom(g, t, i)]
  OBVIOUS
<1>4. \A k \in T : ~\E g : g = [i \in k..n |-> UnescapedFrom(g, t, i)]
  OBVIOUS
<1> HIDE DEF T
<1>5. PICK m \in T : \A k \in T : k <= m
  BY <1>1, <1>2, Greatest
<1>6. m \in 1..n
  BY <1>2
<1>7. CASE m > Len(t)
  <2> DEFINE g == [i \in m..n |-> <<>>]
  <2>1. ASSUME NEW i \in m..n PROVE UnescapedFrom(g, t, i) = <<>>
    <3>1. i > Len(t)
      BY <1>6, <1>7, <2>1
    <3> QED BY <3>1 DEF UnescapedFrom
  <2>2. g = [i \in m..n |-> UnescapedFrom(g, t, i)]
    BY <2>1
  <2> QED BY <1>4, <2>2
<1>8. CASE ~(m > Len(t))
  <2>1. m + 1 \in 1..n /\ m + 1 \notin T /\ m <= Len(t)
    BY <1>5, <1>6, <1>8
  <2>2. PICK f : f = [i \in (m + 1)..n |-> UnescapedFrom(f, t, i)]
    BY <1>3, <2>1
  <2> DEFINE g == [i \in m..n |-> IF i = m THEN UnescapedFrom(f, t, m) ELSE f[i]]
  <2>3. \A j \in (m + 1)..n : j \in m..n /\ j # m
    BY <1>6
  <2>4. \A j \in (m + 1)..n : g[j] = f[j]
    BY <2>3
  <2>5. m \in m..n /\ g[m] = UnescapedFrom(f, t, m)
    BY <1>6
  <2>6. \A j \in (m + 1)..n : f[j] = UnescapedFrom(f, t, j)
    BY <2>2
  <2>7. g = [i \in m..n |-> g[i]]
    OBVIOUS
  <2> HIDE DEF g
  <2>8. ASSUME NEW i \in m..n PROVE UnescapedFrom(g, t, i) = UnescapedFrom(f, t, i)
    <3>1. CASE i > Len(t)
      BY <3>1 DEF UnescapedFrom
    <3>2. CASE ~(i > Len(t))
      <4>1. i + 1 \in (m + 1)..n /\ i + 2 \in (m + 1)..n
        BY <1>6, <3>2
      <4> QED BY <2>4, <4>1 DEF UnescapedFrom
    <3> QED BY <3>1, <3>2
  <2>9. ASSUME NEW i \in m..n PROVE g[i] = UnescapedFrom(g, t, i)
    <3>1. i = m \/ i \in (m + 1)..n
      BY <1>6
    <3> QED BY <2>4, <2>5, <2>6, <2>8, <3>1
  <2>10. g = [i \in m..n |-> UnescapedFrom(g, t, i)]
    BY <2>7, <2>9
  <2> QED BY <1>4, <2>10
<1> QED BY <1>7, <1>8

\* Escape is what such a function gives for the whole text.
LEMMA EscapeIs ==
  ASSUME NEW v, Len(v) \in Nat
  PROVE  \E g : /\ g = [i \in 1..(Len(v) + 1) |-> EscapedFrom(g, v, i)]
                /\ Texts!Escape(v) = g[1]
<1> DEFINE e[i \in 1..(Len(v) + 1)] == IF i > Len(v) THEN <<>> ELSE Texts!Coded(v[i]) \o e[i + 1]
<1>1. Texts!Escape(v) = e[1]
  BY DEF Texts!Escape
<1>2. \E g : g = [i \in 1..(Len(v) + 1) |-> IF i > Len(v) THEN <<>> ELSE Texts!Coded(v[i]) \o g[i + 1]]
  BY EscapeExists DEF EscapedFrom
<1>3. e = [i \in 1..(Len(v) + 1) |-> IF i > Len(v) THEN <<>> ELSE Texts!Coded(v[i]) \o e[i + 1]]
  BY <1>2
<1>4. e = [i \in 1..(Len(v) + 1) |-> EscapedFrom(e, v, i)]
  BY <1>3 DEF EscapedFrom
<1> HIDE DEF e
<1> QED BY <1>1, <1>4

\* And so does what reads it back.
LEMMA UnescapeIs ==
  ASSUME NEW t, Len(t) \in Nat
  PROVE  \E g : /\ g = [i \in 1..(Len(t) + 2) |-> UnescapedFrom(g, t, i)]
                /\ Texts!Unescape(t) = g[1]
<1> DEFINE u[i \in 1..(Len(t) + 2)] ==
             IF i > Len(t) THEN <<>>
             ELSE IF Texts!Starts(t, i)
               THEN <<IF t[i + 1] = "amp;" THEN "&" ELSE "quote">> \o u[i + 2]
             ELSE <<t[i]>> \o u[i + 1]
<1>1. Texts!Unescape(t) = u[1]
  BY DEF Texts!Unescape
<1>2. \E g : g = [i \in 1..(Len(t) + 2) |->
                    IF i > Len(t) THEN <<>>
                    ELSE IF Texts!Starts(t, i)
                      THEN <<IF t[i + 1] = "amp;" THEN "&" ELSE "quote">> \o g[i + 2]
                    ELSE <<t[i]>> \o g[i + 1]]
  BY UnescapeExists DEF UnescapedFrom
<1>3. u = [i \in 1..(Len(t) + 2) |->
             IF i > Len(t) THEN <<>>
             ELSE IF Texts!Starts(t, i)
               THEN <<IF t[i + 1] = "amp;" THEN "&" ELSE "quote">> \o u[i + 2]
             ELSE <<t[i]>> \o u[i + 1]]
  BY <1>2
<1>4. u = [i \in 1..(Len(t) + 2) |-> UnescapedFrom(u, t, i)]
  BY <1>3 DEF UnescapedFrom
<1> HIDE DEF u
<1> QED BY <1>1, <1>4

\* Each rest of a sequence is one or two elements longer than the next one.
Shrinks(C, n, e, W) ==
  /\ n \in Nat /\ e \in [1..(n + 1) -> Seq(C)] /\ W \in [1..n -> 1..2] /\ Len(e[n + 1]) = 0
  /\ \A k \in 1..n : /\ Len(e[k]) = W[k] + Len(e[k + 1])
                     /\ \A j \in 1..Len(e[k + 1]) : e[k][W[k] + j] = e[k + 1][j]

\* The rests stand in the whole at these places.
Placed(n, e, W, P) ==
  /\ P \in [1..(n + 1) -> Nat] /\ P[1] = 1 /\ P[n + 1] = Len(e[1]) + 1
  /\ \A k \in 1..n : P[k + 1] = P[k] + W[k] /\ P[k + 1] \in 1..(Len(e[1]) + 1)
  /\ \A k \in 1..(n + 1) : \A j \in 1..Len(e[k]) : e[1][P[k] - 1 + j] = e[k][j]

\* Such rests have places.
LEMMA Places ==
  ASSUME NEW C, NEW n, NEW e, NEW W, Shrinks(C, n, e, W)
  PROVE  \E P : Placed(n, e, W, P)
<1>0. /\ n \in Nat /\ e \in [1..(n + 1) -> Seq(C)] /\ W \in [1..n -> 1..2] /\ Len(e[n + 1]) = 0
      /\ \A k \in 1..n : /\ Len(e[k]) = W[k] + Len(e[k + 1])
                         /\ \A j \in 1..Len(e[k + 1]) : e[k][W[k] + j] = e[k + 1][j]
  BY DEF Shrinks
<1>1. /\ 1 \in 1..(n + 1) /\ n + 1 \in 1..(n + 1)
      /\ \A k \in 1..n : k \in 1..(n + 1) /\ k + 1 \in 1..(n + 1) /\ W[k] \in 1..2
      /\ \A k \in 1..(n + 1) : k \in Nat
  BY <1>0
<1>2. PICK L \in [1..(n + 1) -> Nat] : \A k \in 1..(n + 1) : L[k] = Len(e[k])
  <2> DEFINE f == [k \in 1..(n + 1) |-> Len(e[k])]
  <2>1. f \in [1..(n + 1) -> Nat] /\ \A k \in 1..(n + 1) : f[k] = Len(e[k])
    BY <1>0
  <2> HIDE DEF f
  <2> QED BY <2>1
<1>3. \A k \in 1..n : L[k] = W[k] + L[k + 1] /\ L[k + 1] \in Nat /\ L[k] \in Nat
  BY <1>0, <1>1, <1>2
<1>4. L[n + 1] = 0 /\ L[1] \in Nat
  BY <1>0, <1>1, <1>2
<1>5. PICK N \in Nat : N = L[1]
  BY <1>4
\* No rest is longer than the whole.
<1>6. \A k \in 1..(n + 1) : L[k] <= N
  <2> DEFINE T == {k \in 1..(n + 1) : ~(L[k] <= N)}
  <2> SUFFICES ASSUME T # {} PROVE FALSE
    OBVIOUS
  <2>1. T \subseteq 1..(n + 1) /\ T \subseteq Nat
    BY <1>1
  <2>2. \A k \in 1..(n + 1) : k \notin T => L[k] <= N
    OBVIOUS
  <2>3. \A k \in T : ~(L[k] <= N)
    OBVIOUS
  <2> HIDE DEF T
  <2>4. PICK m \in T : \A k \in T : m <= k
    BY <2>1, LeastOne
  <2>5. m # 1
    <3>1. L[1] <= N
      BY <1>5
    <3>2. ~(L[m] <= N)
      BY <2>3, <2>4
    <3> QED BY <3>1, <3>2
  <2>6. m - 1 \in 1..n /\ (m - 1) + 1 = m /\ m - 1 \in 1..(n + 1) /\ ~(m <= m - 1)
    BY <1>0, <2>1, <2>5
  <2>7. L[m - 1] <= N
    BY <2>2, <2>4, <2>6
  <2>8. L[m - 1] = W[m - 1] + L[m] /\ L[m] \in Nat /\ W[m - 1] \in 1..2
    BY <1>1, <1>3, <2>6
  <2>9. PICK l \in Nat, x \in 1..2 : l = L[m] /\ x = W[m - 1]
    BY <2>8
  <2>10. L[m] <= N
    <3>1. L[m - 1] = x + l
      BY <2>8, <2>9
    <3>2. x + l <= N
      BY <2>7, <3>1
    <3>3. l <= N
      BY <3>2
    <3> QED BY <2>9, <3>3
  <2> QED BY <2>3, <2>4, <2>10
<1>7. PICK P \in [1..(n + 1) -> Nat] : \A k \in 1..(n + 1) : P[k] = N - L[k] + 1
  <2> DEFINE f == [k \in 1..(n + 1) |-> N - L[k] + 1]
  <2>1. \A k \in 1..(n + 1) : N - L[k] + 1 \in Nat
    BY <1>6
  <2>2. f \in [1..(n + 1) -> Nat] /\ \A k \in 1..(n + 1) : f[k] = N - L[k] + 1
    BY <2>1
  <2> HIDE DEF f
  <2> QED BY <2>2
<1>8. P[1] = 1 /\ P[n + 1] = N + 1
  BY <1>1, <1>4, <1>5, <1>7
<1>9. ASSUME NEW k \in 1..n PROVE P[k + 1] = P[k] + W[k] /\ P[k + 1] \in 1..(N + 1)
  <2>1. P[k + 1] = N - L[k + 1] + 1 /\ P[k] = N - L[k] + 1 /\ L[k + 1] <= N
    BY <1>1, <1>6, <1>7
  <2>2. L[k] = W[k] + L[k + 1] /\ L[k + 1] \in Nat /\ W[k] \in 1..2
    BY <1>1, <1>3
  <2>3. PICK l \in Nat, x \in 1..2 : l = L[k + 1] /\ x = W[k]
    BY <2>2
  <2>4. P[k + 1] = N - l + 1 /\ P[k] = N - (x + l) + 1 /\ l <= N
    BY <2>1, <2>2, <2>3
  <2>5. P[k + 1] \in 1..(N + 1) /\ P[k + 1] = P[k] + x
    BY <2>4
  <2> QED BY <2>3, <2>5
<1>10. \A k \in 1..(n + 1) : \A j \in 1..L[k] : e[1][P[k] - 1 + j] = e[k][j]
  <2> DEFINE OK(k) == \A j \in 1..L[k] : e[1][P[k] - 1 + j] = e[k][j]
             T == {k \in 1..(n + 1) : ~OK(k)}
  <2> SUFFICES ASSUME T # {} PROVE FALSE
    OBVIOUS
  <2>1. T \subseteq 1..(n + 1) /\ T \subseteq Nat
    BY <1>1
  <2>2. \A k \in 1..(n + 1) : k \notin T => OK(k)
    OBVIOUS
  <2>3. \A k \in T : ~OK(k)
    OBVIOUS
  <2> HIDE DEF T
  <2>4. PICK m \in T : \A k \in T : m <= k
    BY <2>1, LeastOne
  <2>5. m # 1
    <3>1. \A j \in 1..L[1] : 1 - 1 + j = j
      OBVIOUS
    <3>2. OK(1)
      BY <1>8, <3>1
    <3> HIDE DEF OK
    <3> QED BY <2>3, <2>4, <3>2
  <2>6. PICK k \in 1..n : m = k + 1 /\ k \in 1..(n + 1) /\ ~(m <= k)
    <3>1. m - 1 \in 1..n /\ (m - 1) + 1 = m /\ m - 1 \in 1..(n + 1) /\ ~(m <= m - 1)
      BY <1>0, <2>1, <2>5
    <3> QED BY <3>1
  <2>7. \A j \in 1..L[k] : e[1][P[k] - 1 + j] = e[k][j]
    BY <2>2, <2>4, <2>6
  <2>8. PICK l \in Nat, q \in Nat, x \in 1..2 :
          l = L[k + 1] /\ q = P[k] /\ x = W[k] /\ L[k] = x + l /\ P[k + 1] = q + x
    <3>1. P[k] \in Nat /\ W[k] \in 1..2 /\ L[k + 1] \in Nat
      BY <1>1, <1>3
    <3>2. L[k] = W[k] + L[k + 1] /\ P[k + 1] = P[k] + W[k]
      BY <1>3, <1>9
    <3> QED BY <3>1, <3>2
  <2>9. ASSUME NEW j \in 1..l PROVE e[1][(q + x) - 1 + j] = e[k + 1][j]
    <3>1. x + j \in 1..(x + l) /\ q - 1 + (x + j) = (q + x) - 1 + j
      OBVIOUS
    <3>2. e[1][q - 1 + (x + j)] = e[k][x + j]
      BY <2>7, <2>8, <3>1
    <3>3. e[k][x + j] = e[k + 1][j]
      <4>1. l = Len(e[k + 1])
        BY <1>1, <1>2, <2>8
      <4> QED BY <1>0, <2>8, <4>1
    <3> QED BY <3>1, <3>2, <3>3
  <2>10. OK(k + 1)
    BY <2>8, <2>9
  <2> HIDE DEF OK
  <2> QED BY <2>3, <2>4, <2>6, <2>10
<1>11. N = Len(e[1])
  BY <1>1, <1>2, <1>5
<1>12. \A k \in 1..n : P[k + 1] = P[k] + W[k] /\ P[k + 1] \in 1..(Len(e[1]) + 1)
  BY <1>9, <1>11
<1>13. \A k \in 1..(n + 1) : \A j \in 1..Len(e[k]) : e[1][P[k] - 1 + j] = e[k][j]
  BY <1>2, <1>10
<1>14. P[n + 1] = Len(e[1]) + 1
  BY <1>8, <1>11
<1>15. Placed(n, e, W, P)
  BY <1>7, <1>8, <1>12, <1>13, <1>14, Zenon DEF Placed
<1> QED BY <1>15

\* Read back, an escaped text is the text; and it has no character that is neither of the
\* text nor of an entity.
LEMMA ReadBack ==
  ASSUME NEW S, NEW v \in Seq(S)
  PROVE  /\ Texts!Unescape(Texts!Escape(v)) = v
         /\ \A i \in DOMAIN Texts!Escape(v) :
              \/ \E k \in DOMAIN v : Texts!Escape(v)[i] = v[k]
              \/ Texts!Escape(v)[i] \in {"&", "amp;", "quot;"}
<1> DEFINE n == Len(v)
           C == {v[k] : k \in 1..n} \cup {"&", "amp;", "quot;"}
           double(k) == v[k] \in {"&", "quote"}
<1>1. n \in Nat /\ DOMAIN v = 1..n
  OBVIOUS
<1>2. PICK e : e = [i \in 1..(n + 1) |-> EscapedFrom(e, v, i)] /\ Texts!Escape(v) = e[1]
  BY <1>1, EscapeIs
<1>3. e[n + 1] = <<>> /\ \A k \in 1..n : e[k] = Texts!Coded(v[k]) \o e[k + 1]
  <2>1. \A k \in 1..(n + 1) : e[k] = EscapedFrom(e, v, k)
    BY <1>2
  <2>2. n + 1 \in 1..(n + 1) /\ n + 1 > n /\ \A k \in 1..n : k \in 1..(n + 1) /\ ~(k > n)
    BY <1>1
  <2> QED BY <2>1, <2>2 DEF EscapedFrom
<1>4. ASSUME NEW k \in 1..n
      PROVE  /\ Texts!Coded(v[k]) \in Seq(C)
             /\ double(k) => /\ Len(Texts!Coded(v[k])) = 2 /\ Texts!Coded(v[k])[1] = "&"
                             /\ Texts!Coded(v[k])[2] = IF v[k] = "&" THEN "amp;" ELSE "quot;"
             /\ ~double(k) => Len(Texts!Coded(v[k])) = 1 /\ Texts!Coded(v[k])[1] = v[k]
  <2>1. v[k] \in C /\ {"&", "amp;", "quot;"} \subseteq C
    OBVIOUS
  <2> HIDE DEF C
  <2>2. \A x, y \in C : \E c : /\ c = <<x, y>> /\ c \in Seq(C) /\ Len(c) = 2
                               /\ c[1] = x /\ c[2] = y
    <3> TAKE x, y \in C
    <3>1. /\ <<x, y>> \in Seq(C) /\ Len(<<x, y>>) = 2
          /\ <<x, y>>[1] = x /\ <<x, y>>[2] = y
      OBVIOUS
    <3> QED BY <3>1, Zenon
  <2>3. \A x \in C : <<x>> \in Seq(C) /\ Len(<<x>>) = 1 /\ <<x>>[1] = x
    OBVIOUS
  <2>4. CASE double(k)
    <3>1. Texts!Coded(v[k]) = <<"&", IF v[k] = "&" THEN "amp;" ELSE "quot;">>
      BY <2>4 DEF Texts!Coded, Texts!Entity
    <3>2. PICK x \in C, y \in C : x = "&" /\ y = IF v[k] = "&" THEN "amp;" ELSE "quot;"
      BY <2>1
    <3>3. Texts!Coded(v[k]) = <<x, y>>
      BY <3>1, <3>2
    <3>4. PICK c : c = <<x, y>> /\ c \in Seq(C) /\ Len(c) = 2 /\ c[1] = x /\ c[2] = y
      BY <2>2
    <3>5. Texts!Coded(v[k]) = c
      BY <3>3, <3>4
    <3>6. c[1] = "&" /\ c[2] = IF v[k] = "&" THEN "amp;" ELSE "quot;"
      BY <3>2, <3>4
    <3> QED BY <2>4, <3>4, <3>5, <3>6
  <2>5. CASE ~double(k)
    <3>1. Texts!Coded(v[k]) = <<v[k]>>
      BY <2>5 DEF Texts!Coded, Texts!Entity
    <3> QED BY <2>1, <2>3, <2>5, <3>1
  <2> QED BY <2>4, <2>5
<1> HIDE DEF C
<1>5. \A k \in 1..(n + 1) : e[k] \in Seq(C)
  <2> DEFINE T == {k \in 1..(n + 1) : e[k] \notin Seq(C)}
  <2> SUFFICES ASSUME T # {} PROVE FALSE
    OBVIOUS
  <2>1. T \subseteq 1..(n + 1) /\ n + 1 \in Nat
    BY <1>1
  <2>2. \A k \in 1..(n + 1) : k \notin T => e[k] \in Seq(C)
    OBVIOUS
  <2>3. \A k \in T : e[k] \notin Seq(C)
    OBVIOUS
  <2> HIDE DEF T
  <2>4. PICK m \in T : \A k \in T : k <= m
    BY <2>1, Greatest
  <2>5. CASE m = n + 1
    <3>1. <<>> \in Seq(C)
      OBVIOUS
    <3> QED BY <1>3, <2>3, <2>5, <3>1
  <2>6. CASE m # n + 1
    <3>1. m \in 1..n /\ m + 1 \in 1..(n + 1) /\ ~(m + 1 <= m)
      BY <1>1, <2>1, <2>6
    <3>2. e[m + 1] \in Seq(C) /\ Texts!Coded(v[m]) \in Seq(C)
      BY <1>4, <2>2, <2>4, <3>1
    <3>3. e[m] = Texts!Coded(v[m]) \o e[m + 1]
      BY <1>3, <3>1
    <3>4. e[m] \in Seq(C)
      BY <3>2, <3>3
    <3> QED BY <2>3, <3>4
  <2> QED BY <2>5, <2>6
<1> DEFINE w(k) == IF double(k) THEN 2 ELSE 1
\* What a character of the text adds in front.
<1>6. ASSUME NEW k \in 1..n
      PROVE  /\ Len(e[k]) = w(k) + Len(e[k + 1]) /\ Len(e[k + 1]) \in Nat
             /\ \A j \in 1..Len(e[k + 1]) : e[k][w(k) + j] = e[k + 1][j]
             /\ e[k][1] = IF double(k) THEN "&" ELSE v[k]
             /\ double(k) => e[k][2] = IF v[k] = "&" THEN "amp;" ELSE "quot;"
  <2>1. PICK a \in Seq(C), b \in Seq(C) : a = Texts!Coded(v[k]) /\ b = e[k + 1]
    <3>1. k + 1 \in 1..(n + 1)
      BY <1>1
    <3> QED BY <1>4, <1>5, <3>1
  <2>2. /\ Len(a) = w(k) /\ a[1] = IF double(k) THEN "&" ELSE v[k]
        /\ double(k) => a[2] = IF v[k] = "&" THEN "amp;" ELSE "quot;"
    BY <1>4, <2>1
  <2>3. e[k] = a \o b
    BY <1>3, <2>1
  <2>4. /\ Len(a \o b) = Len(a) + Len(b) /\ Len(b) \in Nat
        /\ \A j \in 1..Len(a) : (a \o b)[j] = a[j]
        /\ \A j \in 1..Len(b) : (a \o b)[Len(a) + j] = b[j]
    BY JoinedAre
  <2>5. 1 \in 1..w(k) /\ (double(k) => 2 \in 1..w(k))
    OBVIOUS
  <2> HIDE DEF w, double
  <2>6. (a \o b)[1] = a[1] /\ (double(k) => (a \o b)[2] = a[2])
    BY <2>2, <2>4, <2>5
  <2> QED BY <2>1, <2>2, <2>3, <2>4, <2>6
<1>7. PICK W \in [1..n -> 1..2] : \A k \in 1..n : W[k] = w(k) /\ (double(k) <=> W[k] = 2)
  <2> DEFINE f == [k \in 1..n |-> w(k)]
  <2>1. f \in [1..n -> 1..2] /\ \A k \in 1..n : f[k] = w(k) /\ (double(k) <=> f[k] = 2)
    OBVIOUS
  <2> HIDE DEF f
  <2> QED BY <2>1
<1> HIDE DEF w, double
<1>8. /\ e \in [1..(n + 1) -> Seq(C)] /\ Len(e[n + 1]) = 0
      /\ \A k \in 1..n : /\ Len(e[k]) = W[k] + Len(e[k + 1])
                         /\ \A j \in 1..Len(e[k + 1]) : e[k][W[k] + j] = e[k + 1][j]
  <2>1. e = [k \in 1..(n + 1) |-> e[k]]
    BY <1>2
  <2>2. e \in [1..(n + 1) -> Seq(C)]
    BY <1>5, <2>1
  <2>3. Len(e[n + 1]) = 0
    BY <1>3
  <2>4. ASSUME NEW k \in 1..n
        PROVE  /\ Len(e[k]) = W[k] + Len(e[k + 1])
               /\ \A j \in 1..Len(e[k + 1]) : e[k][W[k] + j] = e[k + 1][j]
    <3>1. W[k] = w(k)
      BY <1>7
    <3>2. /\ Len(e[k]) = w(k) + Len(e[k + 1])
          /\ \A j \in 1..Len(e[k + 1]) : e[k][w(k) + j] = e[k + 1][j]
      BY <1>6
    <3> QED BY <3>1, <3>2, Zenon
  <2> QED BY <2>2, <2>3, <2>4
<1>9. PICK P : /\ P \in [1..(n + 1) -> Nat] /\ P[1] = 1 /\ P[n + 1] = Len(e[1]) + 1
               /\ \A k \in 1..n : P[k + 1] = P[k] + W[k] /\ P[k + 1] \in 1..(Len(e[1]) + 1)
               /\ \A k \in 1..(n + 1) : \A j \in 1..Len(e[k]) : e[1][P[k] - 1 + j] = e[k][j]
  <2>1. Shrinks(C, n, e, W)
    BY <1>1, <1>7, <1>8 DEF Shrinks
  <2> QED BY <2>1, Places DEF Placed
<1>10. PICK t \in Seq(C), N \in Nat : t = e[1] /\ N = Len(t)
  <2>1. 1 \in 1..(n + 1) /\ e[1] \in Seq(C)
    BY <1>1, <1>5
  <2> QED BY <2>1
<1>11. PICK u : u = [i \in 1..(N + 2) |-> UnescapedFrom(u, t, i)] /\ Texts!Unescape(t) = u[1]
  BY <1>10, UnescapeIs
<1>12. \A i \in 1..(N + 2) : u[i] = UnescapedFrom(u, t, i)
  BY <1>11
\* What is read at the place of a character.
<1>a. ASSUME NEW m \in 1..n, NEW q \in Nat, NEW x \in Nat, q = P[m], x = W[m], q + x <= N + 1,
             q >= 1
      PROVE  u[q] = <<v[m]>> \o u[q + x]
  <2>1. PICK l \in Nat : l = Len(e[m + 1]) /\ Len(e[m]) = x + l
    <3>1. m + 1 \in 1..(n + 1) /\ e[m + 1] \in Seq(C)
      BY <1>1, <1>5
    <3> QED BY <1>8, <1>a, <3>1
  <2>2. \A j \in 1..(x + l) : t[q - 1 + j] = e[m][j]
    <3>1. m \in 1..(n + 1)
      BY <1>1
    <3> QED BY <1>9, <1>10, <1>a, <2>1, <3>1
  <2>3. x \in 1..2 /\ (double(m) <=> x = 2)
    BY <1>7, <1>a
  <2>4. /\ e[m][1] = IF double(m) THEN "&" ELSE v[m]
        /\ double(m) => e[m][2] = IF v[m] = "&" THEN "amp;" ELSE "quot;"
    BY <1>6
  <2>5. t[q] = e[m][1] /\ (x = 2 => t[q + 1] = e[m][2])
    <3>1. 1 \in 1..(x + l) /\ q - 1 + 1 = q
      BY <2>3
    <3>2. x = 2 => 2 \in 1..(x + l) /\ q - 1 + 2 = q + 1
      BY <2>3
    <3> QED BY <2>2, <3>1, <3>2
  <2>6. q \in 1..(N + 2) /\ ~(q > N) /\ (x = 2 => q < N)
    BY <1>a, <2>3
  <2>7. u[q] = UnescapedFrom(u, t, q) /\ Len(t) = N
    BY <1>10, <1>12, <2>6
  <2>8. CASE double(m)
    <3>1. x = 2
      BY <2>3, <2>8
    <3>2. t[q] = "&" /\ t[q + 1] = IF v[m] = "&" THEN "amp;" ELSE "quot;"
      BY <2>4, <2>5, <2>8, <3>1
    <3>3. Texts!Starts(t, q)
      BY <2>6, <2>7, <3>1, <3>2 DEF Texts!Starts
    <3>4. (IF t[q + 1] = "amp;" THEN "&" ELSE "quote") = v[m]
      BY <2>8, <3>2 DEF double
    <3>5. u[q] = <<IF t[q + 1] = "amp;" THEN "&" ELSE "quote">> \o u[q + 2]
      BY <2>6, <2>7, <3>3 DEF UnescapedFrom
    <3> QED BY <3>1, <3>4, <3>5
  <2>9. CASE ~double(m)
    <3>1. x = 1
      BY <2>3, <2>9
    <3>2. t[q] = v[m]
      BY <2>4, <2>5, <2>9
    <3>3. ~Texts!Starts(t, q)
      BY <2>9, <3>2 DEF Texts!Starts, double
    <3>4. u[q] = <<t[q]>> \o u[q + 1]
      BY <2>6, <2>7, <3>3 DEF UnescapedFrom
    <3> QED BY <3>1, <3>2, <3>4
  <2> QED BY <2>8, <2>9
\* Reading a rest back.
<1>13. \A k \in 1..(n + 1) : u[P[k]] = SubSeq(v, k, n)
  <2> DEFINE T == {k \in 1..(n + 1) : u[P[k]] # SubSeq(v, k, n)}
  <2> SUFFICES ASSUME T # {} PROVE FALSE
    OBVIOUS
  <2>1. T \subseteq 1..(n + 1) /\ n + 1 \in Nat
    BY <1>1
  <2>2. \A k \in 1..(n + 1) : k \notin T => u[P[k]] = SubSeq(v, k, n)
    OBVIOUS
  <2>3. \A k \in T : u[P[k]] # SubSeq(v, k, n)
    OBVIOUS
  <2> HIDE DEF T
  <2>4. PICK m \in T : \A k \in T : k <= m
    BY <2>1, Greatest
  <2>5. CASE m = n + 1
    <3>1. N + 1 \in 1..(N + 2) /\ N + 1 > Len(t)
      BY <1>10
    <3>2. u[N + 1] = <<>>
      BY <1>12, <3>1 DEF UnescapedFrom
    <3>3. P[m] = N + 1
      BY <1>9, <1>10, <2>5
    <3>4. SubSeq(v, m, n) = <<>>
      BY <2>5, RestsAre
    <3> QED BY <2>3, <3>2, <3>3, <3>4
  <2>6. CASE m # n + 1
    <3>1. m \in 1..n /\ m + 1 \in 1..(n + 1) /\ ~(m + 1 <= m)
      BY <1>1, <2>1, <2>6
    <3>2. u[P[m + 1]] = SubSeq(v, m + 1, n)
      BY <2>2, <2>4, <3>1
    <3>3. PICK q \in Nat, x \in 1..2 : q = P[m] /\ x = W[m]
      <4>1. P[m] \in Nat /\ W[m] \in 1..2
        BY <1>7, <1>9, <2>1, <3>1
      <4> QED BY <4>1
    <3>4. P[m + 1] = q + x /\ q + x \in 1..(N + 1)
      BY <1>9, <1>10, <3>1, <3>3
    <3>5. q >= 1
      <4>1. CASE m = 1
        BY <1>9, <3>3, <4>1
      <4>2. CASE m # 1
        <5>1. m - 1 \in 1..n /\ (m - 1) + 1 = m
          BY <1>1, <3>1, <4>2
        <5>2. P[m] \in 1..(N + 1)
          BY <1>9, <1>10, <5>1
        <5> QED BY <3>3, <5>2
      <4> QED BY <4>1, <4>2
    <3>6. u[q] = <<v[m]>> \o u[q + x]
      <4>1. q + x <= N + 1 /\ x \in Nat
        BY <3>4
      <4> QED BY <1>a, <3>1, <3>3, <3>5, <4>1
    <3>7. <<v[m]>> \o SubSeq(v, m + 1, n) = SubSeq(v, m, n)
      BY <3>1, RestsAre
    <3>8. u[P[m]] = SubSeq(v, m, n)
      BY <3>2, <3>3, <3>4, <3>6, <3>7
    <3> QED BY <2>3, <3>8
  <2> QED BY <2>5, <2>6
<1>14. u[1] = v
  <2>1. 1 \in 1..(n + 1)
    BY <1>1
  <2>2. u[P[1]] = SubSeq(v, 1, n) /\ SubSeq(v, 1, n) = v
    BY <1>13, <2>1, RestsAre
  <2> QED BY <1>9, <2>2
<1>15. ASSUME NEW i \in DOMAIN t
       PROVE  (\E k \in DOMAIN v : t[i] = v[k]) \/ t[i] \in {"&", "amp;", "quot;"}
  <2>1. t[i] \in C
    OBVIOUS
  <2> QED BY <1>1, <2>1 DEF C
<1>16. Texts!Escape(v) = t /\ Texts!Unescape(t) = v
  BY <1>2, <1>10, <1>11, <1>14
<1> QED BY <1>15, <1>16

\* What is assumed of the catalogue.
LEMMA TextConstants ==
  /\ Words \subseteq Seq(Texts!Characters) /\ IsFiniteSet(Fields)
  /\ None \notin {"auto", "committed"}
<1>1. Texts!CatalogueAssumption
  BY PlatformAssumption
<1> QED BY <1>1 DEF Texts!CatalogueAssumption, Texts!IsFiniteSet, IsFiniteSet

\* A text without the white space around it is a text.
LEMMA StripIsText ==
  ASSUME NEW S, NEW v \in Seq(S)
  PROVE  Texts!Strip(v) \in Seq(S)
<1> DEFINE I == Texts!Inner(v)
<1>1. Len(v) \in Nat /\ DOMAIN v = 1..Len(v) /\ <<>> \in Seq(S)
  OBVIOUS
<1>2. I \subseteq 1..Len(v)
  BY <1>1 DEF Texts!Inner
<1>3. CASE I = {}
  BY <1>1, <1>3 DEF Texts!Strip
<1>4. CASE I # {}
  <2> HIDE DEF I
  <2>0. I \subseteq Nat
    BY <1>2
  <2>1. PICK a \in I : \A i \in I : a <= i
    BY <1>4, <2>0, LeastOne
  <2>2. PICK b \in I : \A i \in I : i <= b
    BY <1>1, <1>2, <1>4, Greatest
  <2>3. Texts!Min(I) \in I /\ Texts!Max(I) \in I
    BY <2>1, <2>2 DEF Texts!Min, Texts!Max
  <2>4. Texts!Min(I) \in 1..(Len(v) + 1) /\ Texts!Max(I) \in (Texts!Min(I) - 1)..Len(v)
    <3>1. \A i \in I : i \in 1..Len(v)
      BY <1>2
    <3>2. Texts!Min(I) <= Texts!Max(I)
      <4>1. \A i \in I : Texts!Min(I) <= i
        BY <2>1 DEF Texts!Min
      <4> QED BY <2>3, <4>1
    <3>3. Texts!Min(I) \in 1..Len(v) /\ Texts!Max(I) \in 1..Len(v)
      BY <2>3, <3>1
    <3> QED BY <1>1, <3>2, <3>3
  <2>5. SubSeq(v, Texts!Min(I), Texts!Max(I)) \in Seq(S)
    BY <2>4, SubSeqProperties
  <2> QED BY <1>4, <2>5 DEF Texts!Strip, I
<1> QED BY <1>3, <1>4

\* A requirement that is carried out names one field, and its new text is a text.
LEMMA OneField ==
  ASSUME TextInv, text_decision = "committed"
  PROVE  /\ Texts!Field \in Fields /\ text_request.named = {Texts!Field}
         /\ Texts!NewValue \in Seq(Texts!Characters)
         /\ ToSet(Texts!NewValue) \cap Texts!Forbidden(text_surface) = {}
<1>1. text_request \in Texts!Requests /\ Texts!Normalized
  BY DEF TextInv
<1>2. text_request.named \subseteq Fields /\ text_request.text \in Words
  BY <1>1 DEF Texts!Requests
<1>3. PICK N : N = text_request.named
  OBVIOUS
<1>4. Cardinality(N) = 1
  <2>1. Texts!Cardinality(N) = 1
    BY <1>1, <1>3 DEF Texts!Normalized
  <2>2. Texts!Cardinality(N) = Cardinality(N)
    BY Zenon DEF Cardinality, Texts!Cardinality
  <2> QED BY <2>1, <2>2
<1>5. IsFiniteSet(N)
  BY <1>2, <1>3, TextConstants, FS_Subset
<1>6. PICK f : N = {f}
  BY <1>4, <1>5, FS_Singleton
<1>7. f \in Fields /\ Texts!Field = f
  BY <1>2, <1>3, <1>6 DEF Texts!Field
<1>8. Texts!NewValue = Texts!Strip(text_request.text)
  BY <1>1 DEF Texts!Normalized, Texts!NewValue
<1>9. Texts!Strip(text_request.text) \in Seq(Texts!Characters)
  BY <1>2, StripIsText, TextConstants
<1>10. Texts!ToSet(Texts!NewValue) \cap Texts!Forbidden(text_surface) = {}
  BY <1>1 DEF Texts!Normalized, Texts!Valid
<1>11. ToSet(Texts!NewValue) = Texts!ToSet(Texts!NewValue)
  BY DEF ToSet, Texts!ToSet
<1> QED BY <1>3, <1>6, <1>7, <1>8, <1>9, <1>10, <1>11

\* A committed edit is the one that was asked for.
LEMMA CommittedIsExact == TextInv => Texts!EditIsExact
<1> SUFFICES ASSUME TextInv, Texts!Committed PROVE Texts!EditIsExact
  BY DEF Texts!EditIsExact
<1>1. text_decision = "committed"
  BY DEF Texts!Committed
<1>2. /\ text_surface = "page" => text_request.from = "owner"
      /\ text_before \in [Fields -> Texts!Stored]
      /\ text_after = Texts!Applied
  BY <1>1 DEF TextInv
<1>3. PICK v, f : v = Texts!NewValue /\ f = Texts!Field
  OBVIOUS
<1>4. /\ f \in Fields /\ text_request.named = {f} /\ v \in Seq(Texts!Characters)
      /\ ToSet(v) \cap Texts!Forbidden(text_surface) = {}
  BY <1>1, <1>3, OneField
<1>5. text_after = [text_before EXCEPT ![f] = IF text_surface = "page" THEN Texts!Escape(v) ELSE v]
  BY <1>2, <1>3 DEF Texts!Applied
<1>6. /\ text_after[f] = IF text_surface = "page" THEN Texts!Escape(v) ELSE v
      /\ \A g \in Fields \ {f} : text_after[g] = text_before[g]
  BY <1>2, <1>4, <1>5
<1>7. Texts!Shows(text_after, f) = v
  BY <1>4, <1>6, ReadBack DEF Texts!Shows
<1>8. ASSUME text_surface = "page" PROVE "<" \notin Texts!ToSet(text_after[f])
  <2>1. PICK t : t = Texts!Escape(v)
    OBVIOUS
  <2>2. \A i \in DOMAIN t : (\E k \in DOMAIN v : t[i] = v[k]) \/ t[i] \in {"&", "amp;", "quot;"}
    BY <1>4, <2>1, ReadBack
  <2>3. \A k \in DOMAIN v : v[k] # "<"
    BY <1>4, <1>8 DEF Texts!Forbidden, ToSet
  <2>4. \A i \in DOMAIN t : t[i] # "<"
    BY <2>2, <2>3
  <2> QED BY <1>6, <1>8, <2>1, <2>4 DEF Texts!ToSet
<1>9. ASSUME text_surface = "java" PROVE "quote" \notin Texts!ToSet(text_after[f])
  <2>1. text_after[f] = v /\ "quote" \notin ToSet(v)
    BY <1>4, <1>6, <1>9 DEF Texts!Forbidden
  <2> QED BY <2>1 DEF Texts!ToSet, ToSet
<1> QED BY <1>2, <1>3, <1>4, <1>6, <1>7, <1>8, <1>9 DEF Texts!EditIsExact

\* What goes on with a requirement that is there does not change what it asks for.
LEMMA TextStep == ASSUME TextInv, [Texts!Next]_catalogue PROVE TextInv'
<1>1. CASE Texts!Ask
  <2>1. text_decision = None /\ text_decision' = None
    BY <1>1 DEF Texts!Ask, TextInv
  <2>2. PICK text \in Texts!Stored : text_before' = [f \in Fields |-> text]
    BY <1>1 DEF Texts!Ask
  <2>3. text_request' \in Texts!Requests /\ text_before' \in [Fields -> Texts!Stored]
    BY <1>1, <2>2 DEF Texts!Ask
  <2> QED BY <2>1, <2>3, TextConstants DEF TextInv
<1>2. CASE Texts!Assess
  <2>1. /\ text_request # None /\ text_request' = text_request /\ text_before' = text_before
        /\ text_surface' = text_surface
        /\ text_decision' =
             IF ~Texts!Normalized \/ (text_surface = "page" /\ text_request.from = "risky")
               THEN "blocked"
             ELSE IF text_surface = "page" /\ text_request.from # "owner"
               THEN "approval_required"
             ELSE "auto"
    BY <1>2 DEF Texts!Assess, Texts!Gated
  <2>2. Texts!Normalized' <=> Texts!Normalized
    BY <2>1 DEF Texts!Normalized, Texts!NewValue, Texts!IsQuoted, Texts!Valid
  <2>3. text_decision' # "committed"
    BY <2>1
  <2>4. text_decision' = "auto" =>
          Texts!Normalized /\ (text_surface = "page" => text_request.from = "owner")
    BY <2>1
  <2> QED BY <2>1, <2>2, <2>3, <2>4 DEF TextInv
<1>3. CASE Texts!Edit
  <2>1. /\ text_decision = "auto" /\ text_request' = text_request /\ text_before' = text_before
        /\ text_surface' = text_surface
        /\ text_decision' \in {"no change", "refused", "committed"}
        /\ text_decision' = "committed" => text_after' = Texts!Applied
    BY <1>3 DEF Texts!Edit
  <2>2. Texts!NewValue' = Texts!NewValue
    BY <2>1 DEF Texts!NewValue, Texts!IsQuoted
  <2>3. Texts!Normalized' <=> Texts!Normalized
    BY <2>1, <2>2 DEF Texts!Normalized, Texts!Valid
  <2>4. Texts!Applied' = Texts!Applied
    BY <2>1, <2>2 DEF Texts!Applied, Texts!Field
  <2>5. text_request # None
    BY <2>1, TextConstants DEF TextInv
  <2> QED BY <2>1, <2>3, <2>4, <2>5 DEF TextInv
<1>4. CASE UNCHANGED catalogue
  <2>1. /\ text_request' = text_request /\ text_before' = text_before
        /\ text_surface' = text_surface /\ text_decision' = text_decision /\ text_after' = text_after
    BY <1>4 DEF catalogue
  <2>2. Texts!NewValue' = Texts!NewValue
    BY <2>1 DEF Texts!NewValue, Texts!IsQuoted
  <2>3. Texts!Normalized' <=> Texts!Normalized
    BY <2>1, <2>2 DEF Texts!Normalized, Texts!Valid
  <2>4. Texts!Applied' = Texts!Applied
    BY <2>1, <2>2 DEF Texts!Applied, Texts!Field
  <2> QED BY <2>1, <2>3, <2>4 DEF TextInv
<1> QED BY <1>1, <1>2, <1>3, <1>4 DEF Texts!Next

\* Only a requirement that names one field is carried out, on the page the owner's alone,
\* and what is committed is what it asks for.
THEOREM EditsAreInOrder == Spec => []TextInv
<1>1. Init => TextInv
  BY TextConstants DEF Init, Texts!Init, TextInv
<1>2. TextInv /\ [Next]_vars => TextInv'
  <2> SUFFICES ASSUME TextInv, [Next]_vars PROVE TextInv'
    OBVIOUS
  <2>1. [Texts!Next]_catalogue
    BY DEF Next, vars, catalogue
  <2> QED BY <2>1, TextStep
<1> QED BY <1>1, <1>2, PTL DEF Spec

\* A committed edit, on the page the owner's, shows exactly the new text where production
\* reads it, leaves every other field, and brings no tag and no end of a string with it.
THEOREM EditStaysExact == Spec => []EditIsExact
BY EditsAreInOrder, CommittedIsExact, PTL DEF EditIsExact

-----------------------------------------------------------------------------
(* The index *)

\* An index says of every document what its run has read of it, and is full.
IsExact(x) ==
  /\ x = [setup |-> x.setup, docs |-> x.docs, chunks |-> x.chunks, of |-> x.of]
  /\ DOMAIN x.docs = DOMAIN x.of
  /\ \A d \in DOMAIN x.of : x.docs[d] = [hash |-> x.of[d], ids |-> Index!ChunkIds(d, x.of[d])]
  /\ Index!IsFull(x)

\* Every index there is is exact; the one the command builds, and the one it takes from,
\* belong to the setup in force; what is built holds nothing yet of what is left.
IndexInv ==
  /\ index_disk \notin {None, Index!Torn} => IsExact(index_disk)
  /\ index_loaded # None => IsExact(index_loaded)
  /\ index_step \in {"reading", "writing"} =>
       /\ index_old # None => IsExact(index_old) /\ index_old.setup = index_setup
       /\ IsExact(index_build) /\ index_build.setup = index_setup
       /\ index_left \cap DOMAIN index_build.of = {}

\* The chunks of a document are its own.
LEMMA ChunksOf ==
  ASSUME NEW d, NEW v, NEW c \in Index!ChunkIds(d, v)
  PROVE  c.doc = d
BY DEF Index!ChunkIds

\* An index with nothing in it is exact.
LEMMA EmptyIsExact == IsExact(Index!Empty) /\ DOMAIN Index!Empty.of = {}
<1>1. <<>> = [c \in {} |-> Index!Embedded(Index!Empty.of[c.doc], Index!Empty.setup)]
  OBVIOUS
<1>2. DOMAIN Index!Empty.of = {} /\ DOMAIN Index!Empty.docs = {} /\ Index!Empty.chunks = <<>>
  BY DEF Index!Empty
<1>3. Index!IsFull(Index!Empty)
  BY <1>1, <1>2 DEF Index!IsFull
<1> QED BY <1>2, <1>3 DEF IsExact, Index!Empty

\* A document that is read comes whole into the index, whether its entry is taken over
\* or made again.
LEMMA ReadStaysExact ==
  ASSUME IndexInv, NEW d, Index!Read(d)
  PROVE  IsExact(index_build') /\ index_build'.setup = index_setup /\ index_left' \cap DOMAIN index_build'.of = {}
<1> DEFINE v == index_repo[d]
           reused == index_old # None /\ Index!Unchanged(d)
           entry == IF reused THEN index_old.docs[d]
                    ELSE [hash |-> v, ids |-> Index!ChunkIds(d, v)]
           mine == [c \in (entry.ids \cap IF reused THEN DOMAIN index_old.chunks ELSE entry.ids) |->
                      IF reused THEN index_old.chunks[c] ELSE Index!Embedded(v, index_setup)]
           b == index_build
           whole == [c \in Index!ChunkIds(d, v) |-> Index!Embedded(v, index_setup)]
<1>1. /\ IsExact(b) /\ b.setup = index_setup /\ index_left \cap DOMAIN b.of = {}
      /\ reused => IsExact(index_old) /\ index_old.setup = index_setup
      /\ d \in index_left /\ index_left' = index_left \ {d}
  BY DEF IndexInv, Index!Read
<1>2. index_build' = [b EXCEPT !.docs = Index!Put(@, d, entry), !.of = Index!Put(@, d, v),
                       !.chunks = [c \in DOMAIN @ \cup DOMAIN mine |->
                                     IF c \in DOMAIN mine THEN mine[c] ELSE @[c]]]
  BY DEF Index!Read
<1>3. ASSUME reused
      PROVE  entry = [hash |-> v, ids |-> Index!ChunkIds(d, v)] /\ mine = whole
  <2>1. /\ d \in DOMAIN index_old.of /\ index_old.of[d] = v
        /\ entry = [hash |-> v, ids |-> Index!ChunkIds(d, v)]
    <3>1. d \in DOMAIN index_old.docs /\ index_old.docs[d].hash = v /\ IsExact(index_old)
      BY <1>1, <1>3 DEF Index!Unchanged
    <3>2. d \in DOMAIN index_old.of
          /\ index_old.docs[d] = [hash |-> index_old.of[d],
                                  ids |-> Index!ChunkIds(d, index_old.of[d])]
      BY <3>1 DEF IsExact
    <3>3. index_old.of[d] = v
      BY <3>1, <3>2
    <3> QED BY <1>3, <3>2, <3>3
  <2>2. index_old.chunks =
          [c \in UNION {Index!ChunkIds(e, index_old.of[e]) : e \in DOMAIN index_old.of} |->
             Index!Embedded(index_old.of[c.doc], index_old.setup)]
    BY <1>1, <1>3 DEF IsExact, Index!IsFull
  <2>3. Index!ChunkIds(d, v) \subseteq DOMAIN index_old.chunks
    BY <2>1, <2>2
  <2>4. ASSUME NEW c \in Index!ChunkIds(d, v)
        PROVE  index_old.chunks[c] = Index!Embedded(v, index_setup)
    BY <1>1, <1>3, <2>1, <2>2, <2>3, ChunksOf
  <2> QED BY <1>3, <2>1, <2>3, <2>4
<1>4. ASSUME ~reused
      PROVE  entry = [hash |-> v, ids |-> Index!ChunkIds(d, v)] /\ mine = whole
  BY <1>4
<1>5. entry = [hash |-> v, ids |-> Index!ChunkIds(d, v)] /\ mine = whole
  BY <1>3, <1>4
<1> HIDE DEF mine, entry, reused
<1>6. /\ index_build'.docs = Index!Put(b.docs, d, [hash |-> v, ids |-> Index!ChunkIds(d, v)])
      /\ index_build'.of = Index!Put(b.of, d, v)
      /\ index_build'.setup = index_setup
      /\ index_build'.chunks = [c \in DOMAIN b.chunks \cup Index!ChunkIds(d, v) |->
                                  IF c \in Index!ChunkIds(d, v) THEN Index!Embedded(v, index_setup)
                                  ELSE b.chunks[c]]
      /\ index_build' = [setup |-> index_build'.setup, docs |-> index_build'.docs,
                         chunks |-> index_build'.chunks, of |-> index_build'.of]
  <2>1. PICK docs, chunks_, of, setup : b = [setup |-> setup, docs |-> docs, chunks |-> chunks_, of |-> of]
    BY <1>1 DEF IsExact
  <2> QED BY <1>1, <1>2, <1>5, <2>1
<1> HIDE DEF whole, v, b
<1>7. /\ DOMAIN index_build'.of = DOMAIN b.of \cup {d} /\ index_build'.of[d] = v
      /\ \A e \in DOMAIN b.of : e # d /\ index_build'.of[e] = b.of[e]
      /\ DOMAIN index_build'.docs = DOMAIN b.of \cup {d}
      /\ index_build'.docs[d] = [hash |-> v, ids |-> Index!ChunkIds(d, v)]
      /\ \A e \in DOMAIN b.of : index_build'.docs[e] = b.docs[e]
  BY <1>1, <1>6 DEF Index!Put, IsExact
<1>8. b.chunks = [c \in UNION {Index!ChunkIds(e, b.of[e]) : e \in DOMAIN b.of} |->
                    Index!Embedded(b.of[c.doc], index_setup)]
  BY <1>1 DEF IsExact, Index!IsFull
<1>9. UNION {Index!ChunkIds(e, index_build'.of[e]) : e \in DOMAIN index_build'.of}
        = DOMAIN b.chunks \cup Index!ChunkIds(d, v)
  BY <1>7, <1>8
<1>10. ASSUME NEW c \in DOMAIN b.chunks, c \notin Index!ChunkIds(d, v)
       PROVE  b.chunks[c] = Index!Embedded(index_build'.of[c.doc], index_setup)
  <2>1. PICK e \in DOMAIN b.of : c \in Index!ChunkIds(e, b.of[e])
    BY <1>8, <1>10
  <2>2. c.doc = e
    BY <2>1, ChunksOf
  <2> QED BY <1>7, <1>8, <1>10, <2>1, <2>2
<1>11. ASSUME NEW c \in Index!ChunkIds(d, v)
       PROVE  Index!Embedded(v, index_setup) = Index!Embedded(index_build'.of[c.doc], index_setup)
  BY <1>7, ChunksOf
<1>12. Index!IsFull(index_build')
  BY <1>6, <1>9, <1>10, <1>11 DEF Index!IsFull
<1> QED BY <1>1, <1>6, <1>7, <1>12 DEF IsExact

\* Every step keeps every index exact.
LEMMA IndexStep ==
  ASSUME IndexInv, [Index!Next]_index
  PROVE  IndexInv'
<1>1. CASE Index!Begin
  <2>1. /\ index_build' = Index!Empty /\ index_step' = "reading"
        /\ UNCHANGED <<index_repo, index_setup, index_disk, index_loaded>>
        /\ index_old' # None => index_disk \notin {None, Index!Torn}
                                 /\ index_disk.setup = index_setup /\ index_old' = index_disk
    BY <1>1 DEF Index!Begin, Index!Compatible
  <2>2. index_build'.setup = index_setup'
    BY <2>1 DEF Index!Empty
  <2>3. IsExact(index_build') /\ DOMAIN index_build'.of = {}
    BY <2>1, EmptyIsExact
  <2>4. index_old' # None => IsExact(index_old') /\ index_old'.setup = index_setup'
    BY <2>1 DEF IndexInv
  <2> QED BY <2>1, <2>2, <2>3, <2>4 DEF IndexInv
<1>2. ASSUME NEW d \in Docs, Index!Read(d) PROVE IndexInv'
  <2>1. UNCHANGED <<index_setup, index_disk, index_step, index_old, index_loaded>> /\ index_step = "reading"
    BY <1>2 DEF Index!Read
  <2>2. IsExact(index_build') /\ index_build'.setup = index_setup /\ index_left' \cap DOMAIN index_build'.of = {}
    BY <1>2, ReadStaysExact
  <2> QED BY <2>1, <2>2 DEF IndexInv
<1>3. CASE Index!Fail \/ Index!Die \/ Index!Write
  BY <1>3 DEF IndexInv, Index!Fail, Index!Die, Index!Write
<1>4. CASE Index!Truncate
  BY <1>4 DEF IndexInv, Index!Truncate
<1>5. CASE Index!Search
  <2>1. index_loaded' = Index!Index /\ UNCHANGED <<index_repo, index_setup, index_disk, index_step, index_old, index_build, index_left>>
    BY <1>5 DEF Index!Search, Index!command
  <2>2. index_loaded' # None => IsExact(index_loaded')
    BY <2>1 DEF Index!Index, IndexInv
  <2> QED BY <2>1, <2>2 DEF IndexInv
<1>6. CASE Index!Restart \/ Index!Reconfigure \/ (\E d \in Docs : Index!Edit(d)) \/ UNCHANGED index
  BY <1>6 DEF IndexInv, Index!Restart, Index!Reconfigure, Index!Edit, Index!command, index
<1> QED BY <1>1, <1>2, <1>3, <1>4, <1>5, <1>6 DEF Index!Next

\* Every index, on the disk, in the server or half built, holds of each document it has
\* read the chunks of the version that was read, and nothing else (rag_index.build_index).
THEOREM IndexIsExact == Spec => []IndexInv
<1>1. Init => IndexInv
  BY DEF Init, Index!Init, IndexInv
<1>2. IndexInv /\ [Next]_vars => IndexInv'
  <2>1. [Next]_vars => [Index!Next]_index
    BY DEF Next, vars, index
  <2> QED BY <2>1, IndexStep
<1> QED BY <1>1, <1>2, PTL DEF Spec

\* A build that takes over the vectors of documents that did not change ends with the
\* index a build from nothing would make of the same corpus and setup
\* (rag_index.build_index).
THEOREM IncrementalBuildIsFull == Spec => []Index!IncrementalIsFull
<1>1. IndexInv => Index!IncrementalIsFull
  BY DEF IndexInv, IsExact, Index!IncrementalIsFull
<1> QED BY <1>1, IndexIsExact, PTL

-----------------------------------------------------------------------------
(* The parts of a document *)

LinesOK == chunks_lines \in Seq(Chunks!Kinds)

\* Where the scan of a class stands after the first i lines, when its body begins behind
\* line h: the members it has found lie apart, before the one that is open, and with it
\* they hold every line that has to be kept.
ScanInv(s, h, i) ==
  /\ s = [from |-> s.from, depth |-> s.depth, members |-> s.members, exceeded |-> s.exceeded]
  /\ s.from = 0 \/ s.from \in (h + 1)..i
  /\ \A r \in s.members : \E a, b \in (h + 1)..i : r = a..b /\ (s.from # 0 => b < s.from)
  /\ \A r, q \in s.members : r = q \/ r \cap q = {}
  /\ \A j \in (h + 1)..i : chunks_lines[j] \notin {"blank", "brace"} =>
       (\E r \in s.members : j \in r) \/ (s.from # 0 /\ s.from <= j)

\* What is assumed of the constants.
LEMMA ChunksConstants ==
  /\ Overlap \in Nat /\ Size \in Nat /\ Size > Overlap /\ Large \in Nat
  /\ Chunks!Step \in Nat /\ Chunks!Step > 0 /\ Chunks!Step <= Size
<1>1. Overlap \in Nat /\ Size \in Nat /\ Size > Overlap /\ Large \in Nat
  BY PlatformAssumption DEF Chunks!ChunksAssumption
<1> QED BY <1>1 DEF Chunks!Step

\* Taking the blank lines off keeps every other line.
LEMMA StripKeeps ==
  ASSUME NEW S, S \subseteq Int
  PROVE  /\ Chunks!Strip(S) \subseteq S /\ Chunks!Solid(S) \subseteq Chunks!Strip(S)
         /\ Chunks!Strip(S) # {} => Chunks!Solid(S) # {}
<1>1. \A i \in S : i <= i
  OBVIOUS
<1>2. Chunks!Solid(S) \subseteq S
  BY DEF Chunks!Solid
<1> QED BY <1>1, <1>2, Zenon DEF Chunks!Strip

\* What lies apart stays apart.
LEMMA StripApart ==
  ASSUME NEW R, \A r \in R : r \subseteq Int, \A r, s \in R : r = s \/ r \cap s = {}
  PROVE  Chunks!Partition(Chunks!Chunks(R))
<1>1. ASSUME NEW r \in R, NEW s \in R
      PROVE  Chunks!Strip(r) = Chunks!Strip(s) \/ Chunks!Strip(r) \cap Chunks!Strip(s) = {}
  <2>1. Chunks!Strip(r) \subseteq r /\ Chunks!Strip(s) \subseteq s
    BY StripKeeps
  <2> QED BY <2>1
<1> QED BY <1>1 DEF Chunks!Partition, Chunks!Chunks

\* Where one step fits, one more does.
LEMMA StepFits ==
  ASSUME NEW k \in Nat, NEW s \in Nat, s > 0, k % s = 0
  PROVE  (k + s) % s = 0
<1>1. PICK q \in Int : k = s * q
  <2>1. k \div s \in Int /\ k = s * (k \div s) + (k % s)
    OBVIOUS
  <2>2. k = s * (k \div s)
    BY <2>1
  <2> QED BY <2>1, <2>2
<1>2. k + s = s * (q + 1) + 0 /\ q + 1 \in Int
  BY <1>1
<1>3. PICK z \in Int : z = k + s
  OBVIOUS
<1>4. PICK p \in Int, r \in Int : z = s * p + r /\ r = 0
  BY <1>2, <1>3
<1>5. 0 <= r /\ r < s
  BY <1>4
<1>6. z % s = r
  BY <1>4, <1>5, Quotient
<1> QED BY <1>3, <1>4, <1>6

\* Every line is in a window, and a window holds no other numbers.
LEMMA WindowsCover ==
  ASSUME NEW n \in Nat, NEW i \in 1..n
  PROVE  \E w \in Chunks!Windows(n) : i \in w
<1> DEFINE s == Chunks!Step
           F == {j \in 1..n : (j - 1) % s = 0 /\ (j = 1 \/ j - 1 - s + Size < n)}
           T == {j \in F : j <= i}
<1>1. s \in Nat /\ s > 0 /\ s <= Size /\ Size \in Nat
  BY ChunksConstants
<1> HIDE DEF s
<1>2. 1 \in T
  <2>1. 0 % s = 0
    BY <1>1
  <2> QED BY <2>1
<1>3. T \subseteq 1..n /\ T \subseteq F /\ F \subseteq 1..n /\ \A j \in F : j <= i => j \in T
  OBVIOUS
<1>4. \A j \in F : (j - 1) % s = 0
  OBVIOUS
<1>5. \A j \in 1..n : (j - 1) % s = 0 /\ j - 1 - s + Size < n => j \in F
  OBVIOUS
<1>6. Chunks!Windows(n) = {j..(IF j + Size - 1 < n THEN j + Size - 1 ELSE n) : j \in F}
  BY DEF Chunks!Windows, s
<1> HIDE DEF T, F
<1>7. PICK m \in T : \A k \in T : k <= m
  BY <1>2, <1>3, Greatest
<1>8. m \in 1..n /\ m <= i
  <2>1. 1 <= m /\ m \in 1..n
    BY <1>2, <1>3, <1>7
  <2>2. m <= i
    BY <1>7 DEF T
  <2> QED BY <2>1, <2>2
<1>9. i <= m + Size - 1
  <2> SUFFICES ASSUME i >= m + Size PROVE FALSE
    BY <1>1, <1>8
  <2>1. m + s \in 1..n /\ m + s <= i /\ m + s > m /\ (m + s) - 1 - s + Size < n
    BY <1>1, <1>8
  <2>2. ((m + s) - 1) % s = 0
    <3>1. m - 1 \in Nat /\ (m - 1) % s = 0 /\ (m + s) - 1 = (m - 1) + s
      BY <1>1, <1>3, <1>4, <1>7, <1>8
    <3> QED BY <1>1, <3>1, StepFits
  <2>3. m + s \in T
    BY <1>3, <1>5, <2>1, <2>2
  <2> QED BY <1>7, <1>8, <1>1, <2>1, <2>3
<1>10. i \in m..(IF m + Size - 1 < n THEN m + Size - 1 ELSE n)
  BY <1>1, <1>8, <1>9
<1> QED BY <1>3, <1>6, <1>7, <1>10

\* A run of lines, less the blank ones at its ends, is a run of lines.
LEMMA StripIsRange ==
  ASSUME LinesOK, NEW a \in 1..Len(chunks_lines), NEW b \in 1..Len(chunks_lines),
         Chunks!Strip(a..b) # {}
  PROVE  \E c, d \in 1..Len(chunks_lines) : c <= d /\ Chunks!Strip(a..b) = c..d
<1> DEFINE n == Len(chunks_lines)
           F == Chunks!Solid(a..b)
<1>1. n \in Nat
  BY DEF LinesOK
<1>2. F # {} /\ F \subseteq a..b
  BY StripKeeps DEF Chunks!Solid
<1>3. F \subseteq 1..n /\ F \subseteq Nat
  BY <1>1, <1>2
<1>4. Chunks!Strip(a..b) = {i \in a..b : \E x, y \in F : x <= i /\ i <= y}
  BY DEF Chunks!Strip
<1> HIDE DEF F
<1>5. PICK c \in F : \A k \in F : c <= k
  BY <1>2, <1>3, LeastOne
<1>6. PICK d \in F : \A k \in F : k <= d
  BY <1>1, <1>2, <1>3, Greatest
<1>7. c \in 1..n /\ d \in 1..n /\ c <= d /\ a <= c /\ d <= b
  BY <1>1, <1>2, <1>3, <1>5, <1>6
<1>8. ASSUME NEW i \in c..d PROVE i \in Chunks!Strip(a..b)
  BY <1>4, <1>5, <1>6, <1>7
<1>9. ASSUME NEW i \in Chunks!Strip(a..b) PROVE i \in c..d
  <2>1. PICK x \in F, y \in F : i \in a..b /\ x <= i /\ i <= y
    BY <1>4
  <2>2. c <= x /\ y <= d /\ x \in Int /\ y \in Int /\ i \in Int
    BY <1>3, <1>5, <1>6, <2>1
  <2> QED BY <1>7, <2>1, <2>2
<1> QED BY <1>7, <1>8, <1>9

\* Cut again, a chunk that is a run of lines loses none of them.
LEMMA SplitCovers ==
  ASSUME LinesOK, NEW c \in 1..Len(chunks_lines), NEW d \in 1..Len(chunks_lines), c <= d,
         NEW i \in Chunks!Solid(c..d)
  PROVE  \E part_ \in Chunks!SubSplit(c..d) : i \in part_
<1> DEFINE m == d - c + 1
           at == CHOOSE k \in c..d : \A j \in c..d : k <= j
           Moved(w) == {at + k - 1 : k \in w}
<1>1. Len(chunks_lines) \in Nat /\ i \in c..d
  BY DEF LinesOK, Chunks!Solid
<1>2. Chunks!Cardinality(c..d) = m /\ m \in Nat
  <2>1. Chunks!Cardinality(c..d) = Cardinality(c..d)
    BY Zenon DEF Cardinality, Chunks!Cardinality
  <2>2. Cardinality(c..d) = IF c > d THEN 0 ELSE d - c + 1
    BY <1>1, FS_Interval
  <2> QED BY <1>1, <2>1, <2>2
<1>3. at = c
  <2>1. c \in c..d /\ \A j \in c..d : c <= j
    BY <1>1
  <2>2. \A k \in c..d : (\A j \in c..d : k <= j) => k = c
    BY <1>1
  <2> QED BY <2>1, <2>2
<1>4. CASE m <= Large
  <2>1. Chunks!SubSplit(c..d) = {c..d}
    BY <1>2, <1>4 DEF Chunks!SubSplit
  <2> QED BY <1>1, <2>1
<1>5. CASE ~(m <= Large)
  <2>1. Chunks!SubSplit(c..d) = Chunks!Chunks({Moved(w) : w \in Chunks!Windows(m)})
    BY <1>2, <1>5 DEF Chunks!SubSplit
  <2> HIDE DEF at
  <2>2. i - c + 1 \in 1..m
    BY <1>1
  <2> HIDE DEF m
  <2>3. PICK w \in Chunks!Windows(m) : i - c + 1 \in w
    BY <1>2, <2>2, WindowsCover
  <2>4. w \subseteq Int
    <3>1. PICK j \in 1..m : w = j..(IF j + Size - 1 < m THEN j + Size - 1 ELSE m)
      BY <2>3 DEF Chunks!Windows
    <3> QED BY <1>2, <3>1, ChunksConstants
  <2>5. i = at + (i - c + 1) - 1 /\ i \in Int /\ at \in Int
    BY <1>1, <1>3
  <2>6. i \in Moved(w) /\ Moved(w) \subseteq Int
    BY <2>3, <2>4, <2>5
  <2>7. i \in Chunks!Solid(Moved(w))
    BY <2>6 DEF Chunks!Solid
  <2>8. i \in Chunks!Strip(Moved(w))
    BY <2>6, <2>7, StripKeeps
  <2>9. Chunks!Strip(Moved(w)) \in Chunks!Chunks({Moved(v) : v \in Chunks!Windows(m)})
    BY <2>3, <2>8 DEF Chunks!Chunks
  <2> QED BY <2>1, <2>8, <2>9
<1> QED BY <1>4, <1>5

IsRange(r) == r = {} \/ \E a, b \in 1..Len(chunks_lines) : r = a..b

\* Cut into runs of lines, and cut again, a text loses no line that is not blank.
LEMMA CutCovers ==
  ASSUME LinesOK, NEW R, \A r \in R : IsRange(r), NEW r \in R, NEW i \in Chunks!Solid(r)
  PROVE  i \in Chunks!Covered(UNION {Chunks!SubSplit(c) : c \in Chunks!Chunks(R)})
<1>1. i \in r
  BY DEF Chunks!Solid
<1>2. PICK a \in 1..Len(chunks_lines), b \in 1..Len(chunks_lines) : r = a..b
  BY <1>1 DEF IsRange
<1>3. Len(chunks_lines) \in Nat
  BY DEF LinesOK
<1>4. r \subseteq Int
  BY <1>2, <1>3
<1>5. i \in Chunks!Strip(r)
  BY <1>4, StripKeeps
<1>6. PICK c \in 1..Len(chunks_lines), d \in 1..Len(chunks_lines) :
        c <= d /\ Chunks!Strip(r) = c..d
  BY <1>2, <1>5, StripIsRange
<1>7. i \in Chunks!Solid(c..d)
  BY <1>5, <1>6 DEF Chunks!Solid
<1>8. PICK p \in Chunks!SubSplit(c..d) : i \in p
  BY <1>6, <1>7, SplitCovers
<1>9. c..d \in Chunks!Chunks(R)
  BY <1>5, <1>6 DEF Chunks!Chunks
<1> QED BY <1>8, <1>9 DEF Chunks!Covered

\* The sections of a text are runs of lines, lie apart and hold every line.
LEMMA SectionsAre ==
  ASSUME LinesOK
  PROVE  /\ \A k \in Chunks!Starts : IsRange(Chunks!Section(k)) /\ Chunks!Section(k) \subseteq Int
         /\ \A k, l \in Chunks!Starts : k = l \/ Chunks!Section(k) \cap Chunks!Section(l) = {}
         /\ \A i \in DOMAIN chunks_lines : \E k \in Chunks!Starts : i \in Chunks!Section(k)
<1> DEFINE n == Len(chunks_lines)
           S == Chunks!Starts
<1>1. n \in Nat /\ DOMAIN chunks_lines = 1..n
  BY DEF LinesOK
<1>2. 1 \in S /\ S \subseteq Nat /\ \A k \in S : k = 1 \/ k \in 1..n
  BY <1>1 DEF Chunks!Starts
<1>3. \A k : Chunks!Section(k) = {j \in 1..n : k <= j /\ \A l \in S : l > k => j < l}
  BY <1>1 DEF Chunks!Section
<1> HIDE DEF n, S
<1>4. ASSUME NEW k \in S PROVE IsRange(Chunks!Section(k)) /\ Chunks!Section(k) \subseteq Int
  <2> DEFINE T == Chunks!Section(k)
  <2>1. T \subseteq 1..n
    BY <1>3
  <2>2. ASSUME T # {} PROVE \E a, b \in 1..n : T = a..b
    <3>1. PICK b \in T : \A j \in T : j <= b
      BY <1>1, <2>1, <2>2, Greatest
    <3>2. b \in 1..n /\ k <= b /\ k \in 1..n /\ \A l \in S : l > k => b < l
      <4>1. b \in 1..n /\ k <= b /\ \A l \in S : l > k => b < l
        BY <1>3, <3>1
      <4> QED BY <1>1, <1>2, <4>1
    <3>3. ASSUME NEW j \in k..b PROVE j \in T
      <4>1. j \in 1..n /\ k <= j /\ j <= b
        BY <1>1, <3>2
      <4>2. ASSUME NEW l \in S, l > k PROVE j < l
        <5>1. b < l /\ l \in Nat
          BY <1>2, <3>2, <4>2
        <5> QED BY <3>2, <4>1, <5>1
      <4> QED BY <1>3, <4>1, <4>2
    <3>4. ASSUME NEW j \in T PROVE j \in k..b
      BY <1>1, <1>3, <2>1, <3>1, <3>2
    <3> QED BY <3>2, <3>3, <3>4
  <2> QED BY <1>1, <2>1, <2>2 DEF IsRange, n
<1>5. ASSUME NEW k \in S, NEW l \in S, k < l
      PROVE  Chunks!Section(k) \cap Chunks!Section(l) = {}
  <2> SUFFICES ASSUME NEW j \in Chunks!Section(k), j \in Chunks!Section(l) PROVE FALSE
    OBVIOUS
  <2>1. j \in 1..n /\ j < l /\ l <= j /\ l \in Nat
    BY <1>2, <1>3, <1>5
  <2> QED BY <1>1, <2>1
<1>6. ASSUME NEW i \in 1..n PROVE \E k \in S : i \in Chunks!Section(k)
  <2> DEFINE T == {k \in S : k <= i}
  <2>1. T \subseteq 1..n /\ 1 \in T
    <3>1. 1 \in 1..n /\ 1 <= i
      BY <1>1
    <3> QED BY <1>2, <3>1
  <2>2. PICK m \in T : \A k \in T : k <= m
    BY <1>1, <2>1, Greatest
  <2>3. ASSUME NEW l \in S, l > m PROVE i < l
    <3>1. l \in Nat /\ m \in 1..n /\ (l <= i => l <= m)
      BY <1>2, <2>1, <2>2
    <3> QED BY <1>1, <2>3, <3>1
  <2>4. m \in S /\ m <= i
    OBVIOUS
  <2> QED BY <1>3, <2>3, <2>4
<1>7. \A k, l \in S : k = l \/ k < l \/ l < k
  BY <1>2
<1>8. \A k, l \in S : k = l \/ Chunks!Section(k) \cap Chunks!Section(l) = {}
  BY <1>5, <1>7
<1> QED BY <1>1, <1>4, <1>6, <1>8 DEF S

\* One line of the body of a class is scanned.
LEMMA ScanStep ==
  ASSUME LinesOK, NEW h \in Nat, NEW i \in Nat, i > h, NEW s, ScanInv(s, h, i - 1)
  PROVE  ScanInv(Chunks!Scan(s, i), h, i)
<1> DEFINE lost(j) == chunks_lines[j] \notin {"blank", "brace"}
<1>1. /\ s = [from |-> s.from, depth |-> s.depth, members |-> s.members, exceeded |-> s.exceeded]
      /\ s.from = 0 \/ s.from \in (h + 1)..(i - 1)
      /\ \A r \in s.members : \E a, b \in (h + 1)..(i - 1) : r = a..b /\ (s.from # 0 => b < s.from)
      /\ \A r, q \in s.members : r = q \/ r \cap q = {}
      /\ \A j \in (h + 1)..(i - 1) : lost(j) =>
           (\E r \in s.members : j \in r) \/ (s.from # 0 /\ s.from <= j)
  BY DEF ScanInv
<1>2. \A j \in (h + 1)..i : j \in (h + 1)..(i - 1) \/ j = i
  OBVIOUS
<1>3. \A j \in (h + 1)..(i - 1) : j \in (h + 1)..i /\ j < i
  OBVIOUS
<1>4. CASE s.from = 0 /\ ~lost(i)
  <2>1. Chunks!Scan(s, i) = s
    BY <1>4 DEF Chunks!Scan
  <2>2. \A r \in s.members : \E a, b \in (h + 1)..i : r = a..b /\ (s.from # 0 => b < s.from)
    BY <1>1, <1>3
  <2>3. \A j \in (h + 1)..i : lost(j) => (\E r \in s.members : j \in r) \/ (s.from # 0 /\ s.from <= j)
    BY <1>1, <1>2, <1>4
  <2> QED BY <1>1, <1>4, <2>1, <2>2, <2>3 DEF ScanInv
<1>5. CASE ~(s.from = 0 /\ ~lost(i))
  <2> DEFINE f == IF s.from = 0 THEN i ELSE s.from
  <2>1. PICK now : /\ now = [from |-> f, depth |-> now.depth, members |-> s.members, exceeded |-> now.exceeded]
                   /\ Chunks!Scan(s, i) = IF Chunks!Ended(now, chunks_lines[i])
                        THEN [now EXCEPT !.from = 0, !.members = @ \cup {f..i}] ELSE now
    <3> DEFINE depth == s.depth + Chunks!Delta[chunks_lines[i]]
               now == [from |-> f, depth |-> depth, members |-> s.members,
                       exceeded |-> (s.from # 0 /\ s.exceeded) \/ depth > 0]
    <3>1. Chunks!Scan(s, i) = IF Chunks!Ended(now, chunks_lines[i])
                        THEN [now EXCEPT !.from = 0, !.members = @ \cup {f..i}] ELSE now
      BY <1>5, Zenon DEF Chunks!Scan
    <3>2. now = [from |-> f, depth |-> now.depth, members |-> s.members, exceeded |-> now.exceeded]
      OBVIOUS
    <3> HIDE DEF now
    <3> QED BY <3>1, <3>2
  <2>2. f \in (h + 1)..i /\ f # 0
    BY <1>1
  <2>3. ASSUME NEW r \in s.members
        PROVE  \E a, b \in (h + 1)..i : r = a..b /\ b < f
    <3>1. PICK a \in (h + 1)..(i - 1), b \in (h + 1)..(i - 1) : r = a..b /\ (s.from # 0 => b < s.from)
      BY <1>1
    <3>2. b < f
      BY <3>1
    <3> QED BY <1>3, <3>1, <3>2
  <2>4. ASSUME NEW j \in (h + 1)..i, lost(j)
        PROVE  (\E r \in s.members : j \in r) \/ f <= j
    BY <1>1, <1>2, <2>2, <2>4
  <2> HIDE DEF f
  <2>5. CASE Chunks!Ended(now, chunks_lines[i])
    <3> DEFINE t == Chunks!Scan(s, i)
    <3>1. t = [now EXCEPT !.from = 0, !.members = @ \cup {f..i}]
      BY <2>1, <2>5
    <3>2. /\ t = [from |-> 0, depth |-> t.depth, members |-> s.members \cup {f..i}, exceeded |-> t.exceeded]
          /\ t.from = 0 /\ t.members = s.members \cup {f..i}
      <4>1. PICK d, e : now = [from |-> f, depth |-> d, members |-> s.members, exceeded |-> e]
        BY <2>1
      <4> QED BY <3>1, <4>1
    <3> HIDE DEF t
    <3>3. ASSUME NEW r \in s.members PROVE r \cap (f..i) = {}
      <4>1. PICK a \in (h + 1)..i, b \in (h + 1)..i : r = a..b /\ b < f
        BY <2>3
      <4>2. f \in Int /\ b \in Int
        BY <2>2
      <4>3. ASSUME NEW x, x \in a..b, x \in f..i PROVE FALSE
        BY <4>1, <4>2, <4>3
      <4>4. r = a..b
        BY <4>1
      <4> QED BY <4>3, <4>4, Zenon
    <3>4. \A r, q \in t.members : r = q \/ r \cap q = {}
      <4>1. t.members = s.members \cup {f..i} /\ \A r, q \in s.members : r = q \/ r \cap q = {}
        BY <1>1, <3>2
      <4>2. PICK g : g = f..i
        OBVIOUS
      <4>3. \A r \in s.members : r \cap g = {}
        BY <3>3, <4>2
      <4> HIDE DEF lost
      <4>4. ASSUME NEW r \in s.members \cup {g}, NEW q \in s.members \cup {g}
            PROVE  r = q \/ r \cap q = {}
        BY <4>1, <4>3
      <4> QED BY <4>1, <4>2, <4>4
    <3>5. \A r \in t.members : \E a, b \in (h + 1)..i : r = a..b /\ (t.from # 0 => b < t.from)
      <4>1. i \in (h + 1)..i
        OBVIOUS
      <4> QED BY <2>2, <2>3, <3>2, <4>1
    <3>6. \A j \in (h + 1)..i : lost(j) => \E r \in t.members : j \in r
      <4>1. ASSUME NEW j \in (h + 1)..i, f <= j PROVE j \in f..i
        BY <2>2, <4>1
      <4> QED BY <2>4, <3>2, <4>1
    <3>7. ScanInv(t, h, i)
      BY <3>2, <3>4, <3>5, <3>6 DEF ScanInv
    <3> QED BY <3>7 DEF t
  <2>6. CASE ~Chunks!Ended(now, chunks_lines[i])
    <3>1. Chunks!Scan(s, i) = now
      BY <2>1, <2>6
    <3>2. now.from = f /\ now.members = s.members
      BY <2>1
    <3>3. now = [from |-> now.from, depth |-> now.depth, members |-> now.members, exceeded |-> now.exceeded]
      BY <2>1, <3>2
    <3>4. ScanInv(now, h, i)
      BY <1>1, <2>2, <2>3, <2>4, <3>2, <3>3 DEF ScanInv
    <3> QED BY <3>1, <3>4
  <2> QED BY <2>5, <2>6
<1> QED BY <1>4, <1>5

\* What the scan of a line adds to what it has found in the lines before.
After(g, h, i) == IF i = h THEN Chunks!Scanned ELSE Chunks!Scan(g[i - 1], i)

\* The scan has a result for every line.
LEMMA ScanExists ==
  ASSUME NEW h \in Nat, NEW n \in Nat, h <= n
  PROVE  \E g : g = [i \in h..n |-> After(g, h, i)]
<1> DEFINE T == {k \in h..n : ~\E g : g = [i \in h..k |-> After(g, h, i)]}
<1>1. n \in h..n
  OBVIOUS
<1> SUFFICES ASSUME T # {} PROVE FALSE
  BY <1>1
<1>2. T \subseteq Nat /\ T \subseteq h..n
  OBVIOUS
<1>3. \A k \in h..n : k \notin T => \E g : g = [i \in h..k |-> After(g, h, i)]
  OBVIOUS
<1>4. \A k \in T : ~\E g : g = [i \in h..k |-> After(g, h, i)]
  OBVIOUS
<1> HIDE DEF T
<1>5. PICK m \in T : \A k \in T : m <= k
  BY <1>2, LeastOne
<1>6. m \in h..n
  BY <1>2
<1>7. CASE m = h
  <2> DEFINE g == [i \in h..m |-> Chunks!Scanned]
  <2>1. ASSUME NEW i \in h..m PROVE After(g, h, i) = Chunks!Scanned
    BY <1>7, <2>1 DEF After
  <2>2. g = [i \in h..m |-> After(g, h, i)]
    BY <2>1
  <2> QED BY <1>4, <2>2
<1>8. CASE m # h
  <2>1. m - 1 \in h..n /\ m - 1 \notin T
    BY <1>5, <1>6, <1>8
  <2>2. PICK f : f = [i \in h..(m - 1) |-> After(f, h, i)]
    BY <1>3, <2>1
  <2> DEFINE g == [i \in h..m |-> IF i = m THEN Chunks!Scan(f[m - 1], m) ELSE f[i]]
  <2>3. ASSUME NEW i \in h..m PROVE g[i] = After(g, h, i)
    <3>1. CASE i = m
      <4>1. m - 1 \in h..m /\ m - 1 # m
        BY <1>6, <2>1
      <4>2. g[m - 1] = f[m - 1] /\ g[i] = Chunks!Scan(f[m - 1], m)
        BY <3>1, <4>1
      <4> HIDE DEF g
      <4> QED BY <1>8, <3>1, <4>2 DEF After
    <3>2. CASE i # m
      <4>1. i \in h..(m - 1)
        BY <1>6, <3>2
      <4>2. g[i] = After(f, h, i)
        BY <2>2, <3>2, <4>1
      <4>3. i # h => i - 1 \in h..m /\ i - 1 # m
        BY <1>6, <4>1
      <4>4. i # h => g[i - 1] = f[i - 1]
        BY <4>3
      <4> HIDE DEF g
      <4> QED BY <4>2, <4>4 DEF After
    <3> QED BY <3>1, <3>2
  <2>4. g = [i \in h..m |-> g[i]]
    OBVIOUS
  <2> HIDE DEF g
  <2>5. g = [i \in h..m |-> After(g, h, i)]
    BY <2>3, <2>4
  <2> QED BY <1>4, <2>5
<1> QED BY <1>7, <1>8

\* The scan of a body ends with every line of it found.
LEMMA BodyFound ==
  ASSUME LinesOK, Chunks!Header # {}
  PROVE  /\ Chunks!HeaderEnd \in 1..Len(chunks_lines)
         /\ ScanInv(Chunks!Body, Chunks!HeaderEnd, Len(chunks_lines))
<1> DEFINE n == Len(chunks_lines)
           h == Chunks!HeaderEnd
           g[i \in h..n] == IF i = h THEN Chunks!Scanned ELSE Chunks!Scan(g[i - 1], i)
<1>1. n \in Nat /\ DOMAIN chunks_lines = 1..n
  BY DEF LinesOK
<1>2. h \in 1..n
  <2>1. Chunks!Header \subseteq 1..n
    BY <1>1 DEF Chunks!Header
  <2>2. Chunks!Header \subseteq Nat
    BY <1>1, <2>1
  <2>3. \E m \in Chunks!Header : \A k \in Chunks!Header : m <= k
    BY <2>2, LeastOne
  <2>4. h \in Chunks!Header
    BY <2>3 DEF Chunks!HeaderEnd
  <2> QED BY <2>1, <2>4
<1>3. Chunks!Body = g[n]
  BY DEF Chunks!Body
<1>4. \E f : f = [i \in h..n |-> IF i = h THEN Chunks!Scanned ELSE Chunks!Scan(f[i - 1], i)]
  <2>1. h \in Nat /\ n \in Nat /\ h <= n
    BY <1>1, <1>2
  <2> HIDE DEF h, n
  <2> QED BY <2>1, ScanExists DEF After
<1>5. g = [i \in h..n |-> IF i = h THEN Chunks!Scanned ELSE Chunks!Scan(g[i - 1], i)]
  BY <1>4
<1> HIDE DEF g, n, h
<1>6. g[h] = Chunks!Scanned /\ \A i \in h..n : i # h => g[i] = Chunks!Scan(g[i - 1], i)
  BY <1>1, <1>2, <1>5
<1>7. \A i \in h..n : ScanInv(g[i], h, i)
  <2> DEFINE T == {i \in h..n : ~ScanInv(g[i], h, i)}
  <2> SUFFICES ASSUME T # {} PROVE FALSE
    OBVIOUS
  <2>1. T \subseteq Nat /\ T \subseteq h..n
    BY <1>1, <1>2
  <2>2. \A i \in h..n : i \notin T => ScanInv(g[i], h, i)
    OBVIOUS
  <2>3. \A i \in T : ~ScanInv(g[i], h, i)
    OBVIOUS
  <2> HIDE DEF T
  <2>4. PICK m \in T : \A k \in T : m <= k
    BY <2>1, LeastOne
  <2>5. CASE m = h
    <3>1. \A j \in (h + 1)..h : FALSE
      BY <1>1, <1>2
    <3>2. ScanInv(Chunks!Scanned, h, h)
      BY <3>1 DEF ScanInv, Chunks!Scanned
    <3> QED BY <1>6, <2>3, <2>5, <3>2
  <2>6. CASE m # h
    <3>1. m \in h..n /\ m - 1 \in h..n /\ m - 1 < m /\ m \in Nat /\ m > h /\ h \in Nat
      BY <1>1, <1>2, <2>1, <2>4, <2>6
    <3>2. m - 1 \notin T
      BY <2>4, <3>1
    <3>3. ScanInv(g[m - 1], h, m - 1)
      BY <2>2, <3>1, <3>2
    <3>4. ScanInv(Chunks!Scan(g[m - 1], m), h, m)
      BY <3>1, <3>3, ScanStep
    <3> QED BY <1>6, <2>3, <2>4, <2>6, <3>1, <3>4
  <2> QED BY <2>5, <2>6
<1>8. n \in h..n
  BY <1>1, <1>2
<1>9. ScanInv(g[n], h, n)
  BY <1>7, <1>8
<1> QED BY <1>2, <1>3, <1>9 DEF h, n

\* The header and the members of a class are runs of lines and lie apart; every line but
\* blank ones and lone braces is in one of them.
LEMMA MembersAre ==
  ASSUME LinesOK, Chunks!Header # {}
  PROVE  LET R == {1..Chunks!HeaderEnd} \cup Chunks!Flushed(Chunks!Body)
         IN  /\ \A r \in R : IsRange(r) /\ r \subseteq Int
             /\ \A r, q \in R : r = q \/ r \cap q = {}
             /\ \A i \in DOMAIN chunks_lines : chunks_lines[i] \notin {"blank", "brace"} =>
                  \E r \in R : i \in r
<1> DEFINE n == Len(chunks_lines)
           h == Chunks!HeaderEnd
           s == Chunks!Body
           M == Chunks!Flushed(s)
<1>1. n \in Nat /\ DOMAIN chunks_lines = 1..n
  BY DEF LinesOK
<1>2. h \in 1..n /\ ScanInv(s, h, n)
  BY BodyFound
<1>3. M = IF s.from = 0 THEN s.members ELSE s.members \cup {s.from..n}
  BY DEF Chunks!Flushed
<1> HIDE DEF n, h, s, M
<1>4. /\ s.from = 0 \/ s.from \in (h + 1)..n
      /\ \A r \in s.members : \E a, b \in (h + 1)..n : r = a..b /\ (s.from # 0 => b < s.from)
      /\ \A r, q \in s.members : r = q \/ r \cap q = {}
      /\ \A j \in (h + 1)..n : chunks_lines[j] \notin {"blank", "brace"} =>
           (\E r \in s.members : j \in r) \/ (s.from # 0 /\ s.from <= j)
  BY <1>2 DEF ScanInv
<1>5. ASSUME NEW r \in M PROVE \E a, b \in (h + 1)..n : r = a..b
  <2>1. CASE r \in s.members
    BY <1>4, <2>1
  <2>2. CASE r \notin s.members
    <3>1. s.from # 0 /\ r = s.from..n
      BY <1>3, <2>2
    <3>2. s.from \in (h + 1)..n
      BY <1>4, <3>1
    <3>3. n \in (h + 1)..n
      BY <1>1, <1>2, <3>2
    <3> QED BY <3>1, <3>2, <3>3
  <2> QED BY <2>1, <2>2
<1>6. \A r, q \in M : r = q \/ r \cap q = {}
  <2>1. ASSUME NEW r \in s.members, s.from # 0 PROVE r \cap (s.from..n) = {}
    <3>1. PICK a \in (h + 1)..n, b \in (h + 1)..n : r = a..b /\ b < s.from
      BY <1>4, <2>1
    <3>2. b \in Int /\ s.from \in Int
      BY <1>1, <1>2, <1>4, <2>1
    <3>3. ASSUME NEW x, x \in a..b, x \in s.from..n PROVE FALSE
      BY <3>1, <3>2, <3>3
    <3>4. r = a..b
      BY <3>1
    <3> QED BY <3>3, <3>4, Zenon
  <2>2. CASE s.from = 0
    BY <1>3, <1>4, <2>2
  <2>3. CASE s.from # 0
    <3>1. M = s.members \cup {s.from..n}
      BY <1>3, <2>3
    <3> QED BY <1>4, <2>1, <2>3, <3>1
  <2> QED BY <2>2, <2>3
<1>7. ASSUME NEW r \in M PROVE r \cap (1..h) = {} /\ IsRange(r) /\ r \subseteq Int
  <2>1. PICK a \in (h + 1)..n, b \in (h + 1)..n : r = a..b
    BY <1>5
  <2>2. a \in 1..n /\ b \in 1..n /\ h < a
    BY <1>1, <1>2
  <2>3. \A x : ~(x \in a..b /\ x \in 1..h)
    BY <1>1, <1>2, <2>2
  <2> QED BY <1>1, <2>1, <2>2, <2>3 DEF IsRange, n
<1>8. IsRange(1..h) /\ 1..h \subseteq Int
  <2>1. 1 \in 1..n
    BY <1>1, <1>2
  <2> QED BY <1>1, <1>2, <2>1 DEF IsRange, n
<1>9. ASSUME NEW i \in 1..n, chunks_lines[i] \notin {"blank", "brace"}
      PROVE  \E r \in {1..h} \cup M : i \in r
  <2>1. CASE i <= h
    <3>1. i \in 1..h
      BY <1>1, <1>2, <2>1
    <3> QED BY <3>1
  <2>2. CASE i > h
    <3>1. i \in (h + 1)..n
      BY <1>1, <1>2, <2>2
    <3>2. CASE \E r \in s.members : i \in r
      BY <1>3, <3>2
    <3>3. CASE s.from # 0 /\ s.from <= i
      <4>1. i \in s.from..n
        BY <1>1, <1>4, <3>1, <3>3
      <4> QED BY <1>3, <3>3, <4>1
    <3> QED BY <1>4, <1>9, <3>1, <3>2, <3>3
  <2> QED BY <1>1, <1>2, <2>1, <2>2
<1>10. \A r, q \in {1..h} \cup M : r = q \/ r \cap q = {}
  BY <1>6, <1>7
<1>11. \A r \in {1..h} \cup M : IsRange(r) /\ r \subseteq Int
  BY <1>7, <1>8
<1> QED BY <1>1, <1>9, <1>10, <1>11 DEF h, M, s

\* However a text is cut, none of it is lost.
LEMMA NothingLost == LinesOK => Chunks!NoLineIsLost
<1> SUFFICES ASSUME LinesOK PROVE Chunks!NoLineIsLost
  OBVIOUS
<1> DEFINE n == Len(chunks_lines)
           D == DOMAIN chunks_lines
           Sections == {Chunks!Section(i) : i \in Chunks!Starts}
           Members == IF Chunks!Header = {} THEN {D}
                      ELSE {1..Chunks!HeaderEnd} \cup Chunks!Flushed(Chunks!Body)
<1>1. n \in Nat /\ D = 1..n
  BY DEF LinesOK
<1>2. Chunks!Markdown = Chunks!Chunks(Sections) /\ Chunks!Java = Chunks!Chunks(Members)
  BY DEF Chunks!Markdown, Chunks!Java
<1>3. /\ \A r \in Members : IsRange(r) /\ r \subseteq Int
      /\ \A r, q \in Members : r = q \/ r \cap q = {}
      /\ \A i \in D : chunks_lines[i] \notin {"blank", "brace"} => \E r \in Members : i \in r
  <2>1. CASE Chunks!Header = {}
    <3>1. D = {} \/ (D = 1..n /\ 1 \in 1..n /\ n \in 1..n)
      BY <1>1
    <3>2. IsRange(D) /\ D \subseteq Int
      BY <1>1, <3>1 DEF IsRange
    <3>3. Members = {D}
      BY <2>1
    <3> HIDE DEF D, Members
    <3> QED BY <3>2, <3>3
  <2>2. CASE Chunks!Header # {}
    BY <2>2, MembersAre
  <2> QED BY <2>1, <2>2
<1>4. /\ \A r \in Sections : IsRange(r) /\ r \subseteq Int
      /\ \A r, q \in Sections : r = q \/ r \cap q = {}
      /\ \A i \in D : \E r \in Sections : i \in r
  BY SectionsAre
<1> HIDE DEF D, Sections, Members, n
<1>5. Chunks!Partition(Chunks!Markdown) /\ Chunks!Partition(Chunks!Java)
  <2>1. Chunks!Partition(Chunks!Chunks(Sections))
    BY <1>4, StripApart
  <2>2. Chunks!Partition(Chunks!Chunks(Members))
    BY <1>3, StripApart
  <2> QED BY <1>2, <2>1, <2>2
<1>6. ASSUME NEW i \in Chunks!Solid(D)
      PROVE  /\ i \in Chunks!Covered(Chunks!Chunks(Chunks!Windows(n)))
             /\ i \in Chunks!Covered(UNION {Chunks!SubSplit(c) : c \in Chunks!Markdown})
  <2>1. i \in 1..n /\ \A r : i \in r => i \in Chunks!Solid(r)
    BY <1>1, <1>6 DEF Chunks!Solid
  <2>2. PICK w \in Chunks!Windows(n) : i \in w
    BY <1>1, <2>1, WindowsCover
  <2>3. w \subseteq Int
    <3>1. PICK j \in 1..n : w = j..(IF j + Size - 1 < n THEN j + Size - 1 ELSE n)
      BY <2>2 DEF Chunks!Windows
    <3> QED BY <1>1, <3>1, ChunksConstants
  <2>4. i \in Chunks!Strip(w)
    BY <2>1, <2>2, <2>3, StripKeeps
  <2>5. i \in Chunks!Covered(Chunks!Chunks(Chunks!Windows(n)))
    BY <2>2, <2>4 DEF Chunks!Covered, Chunks!Chunks
  <2>6. PICK r \in Sections : i \in r
    BY <1>1, <1>4, <2>1
  <2>7. i \in Chunks!Covered(UNION {Chunks!SubSplit(c) : c \in Chunks!Chunks(Sections)})
    <3>1. i \in Chunks!Solid(r) /\ \A q \in Sections : IsRange(q)
      BY <1>4, <2>1, <2>6
    <3> QED BY <2>6, <3>1, CutCovers
  <2> QED BY <1>2, <2>5, <2>7
<1>7. ASSUME NEW i \in D, chunks_lines[i] \notin {"blank", "brace"}
      PROVE  i \in Chunks!Covered(UNION {Chunks!SubSplit(c) : c \in Chunks!Java})
  <2>1. PICK r \in Members : i \in r
    BY <1>3, <1>7
  <2>2. i \in Chunks!Solid(r) /\ \A q \in Members : IsRange(q)
    BY <1>3, <1>7, <2>1 DEF Chunks!Solid
  <2>3. i \in Chunks!Covered(UNION {Chunks!SubSplit(c) : c \in Chunks!Chunks(Members)})
    BY <2>1, <2>2, CutCovers
  <2> QED BY <1>2, <2>3
<1> QED BY <1>5, <1>6, <1>7 DEF Chunks!NoLineIsLost, D, n

\* The lines that are cut are lines of the kinds the cutters tell apart.
THEOREM LinesStayTold == Spec => []LinesOK
<1>1. Init => LinesOK
  BY DEF Init, Chunks!Init, LinesOK
<1>2. LinesOK /\ [Next]_vars => LinesOK'
  <2> SUFFICES ASSUME LinesOK, [Next]_vars PROVE LinesOK'
    OBVIOUS
  <2>1. [Chunks!Next]_chunks
    BY DEF Next, vars, chunks
  <2> QED BY <2>1 DEF Chunks!Next, chunks, LinesOK
<1> QED BY <1>1, <1>2, PTL DEF Spec

\* However a text is cut, no line of it is lost: every line that is not blank is in a window
\* and in a section, and but for lone braces in the header or a member of a Java class,
\* also when the large ones are cut again (rag_index.chunk_document).
THEOREM TextIsCutWhole == Spec => []Chunks!NoLineIsLost
BY LinesStayTold, NothingLost, PTL

\* The index that is answered from is the whole corpus, and nothing of a text is lost when
\* it is cut: a search misses no line of the repository.
THEOREM CorpusStaysFull == Spec => []CorpusIsFull
BY IncrementalBuildIsFull, TextIsCutWhole, PTL DEF CorpusIsFull

-----------------------------------------------------------------------------
(* What the interview puts before its model *)

\* From a, N steps within D.
Steps(N, D, a, next) == N \in Nat /\ a \in D /\ next \in [(1..N) \X D -> D]
Taken(N, D, a, next, f) ==
  f \in [0..N -> D] /\ f[0] = a /\ \A n \in 1..N : f[n] = next[<<n, f[n - 1]>>]

\* What is made one step after the other is there.
LEMMA Unrolled ==
  ASSUME NEW N, NEW D, NEW a, NEW next, Steps(N, D, a, next)
  PROVE  \E f : Taken(N, D, a, next, f)
<1>0. N \in Nat /\ a \in D /\ next \in [(1..N) \X D -> D]
  BY DEF Steps
<1> DEFINE Made(k, f) == /\ f \in [0..k -> D] /\ f[0] = a
                         /\ \A n \in 1..k : f[n] = next[<<n, f[n - 1]>>]
           T == {k \in 0..N : ~\E f : Made(k, f)}
<1> SUFFICES ASSUME T # {} PROVE FALSE
  <2>1. N \in 0..N
    BY <1>0
  <2>2. \E f : Made(N, f)
    BY <2>1
  <2> QED BY <2>2 DEF Taken
<1>1. T \subseteq 0..N /\ T \subseteq Nat
  OBVIOUS
<1>2. \A k \in 0..N : k \notin T => \E f : Made(k, f)
  OBVIOUS
<1>3. \A k \in T : ~\E f : Made(k, f)
  OBVIOUS
<1> HIDE DEF T
<1>4. PICK m \in T : \A k \in T : m <= k
  BY <1>1, LeastOne
<1>5. m # 0
  <2> DEFINE g == [n \in 0..0 |-> a]
  <2>1. Made(0, g)
    BY <1>0
  <2> QED BY <1>3, <2>1
<1>6. m - 1 \in 0..N /\ m - 1 \notin T /\ m \in 1..N /\ m \in 0..m
  BY <1>0, <1>1, <1>4, <1>5
<1>7. PICK f : Made(m - 1, f)
  BY <1>2, <1>6
<1> DEFINE g == [n \in 0..m |-> IF n = m THEN next[<<m, f[m - 1]>>] ELSE f[n]]
<1>8. f[m - 1] \in D /\ next[<<m, f[m - 1]>>] \in D
  <2>1. m - 1 \in 0..(m - 1)
    BY <1>6
  <2> QED BY <1>0, <1>6, <1>7, <2>1
<1>9. \A n \in 0..m : n = m \/ n \in 0..(m - 1)
  BY <1>6
<1>10. g \in [0..m -> D]
  BY <1>7, <1>8, <1>9
<1>11. g[0] = a
  BY <1>6, <1>7
<1>12. ASSUME NEW n \in 1..m PROVE g[n] = next[<<n, g[n - 1]>>]
  <2>1. n - 1 \in 0..m /\ n - 1 # m /\ n \in 0..m
    BY <1>6
  <2>2. g[n - 1] = f[n - 1]
    BY <2>1
  <2>3. CASE n = m
    BY <2>1, <2>2, <2>3
  <2>4. CASE n # m
    <3>1. n \in 1..(m - 1)
      BY <1>6, <2>4
    <3>2. g[n] = f[n] /\ f[n] = next[<<n, f[n - 1]>>]
      BY <1>7, <2>1, <2>4, <3>1
    <3> QED BY <2>2, <3>2
  <2> QED BY <2>3, <2>4
<1>13. Made(m, g)
  BY <1>10, <1>11, <1>12
<1> QED BY <1>3, <1>13

\* A list of those that are in a set, one after the other.
LEMMA FilterIs ==
  ASSUME NEW C, NEW s \in Seq(C), NEW K
  PROVE  \E kept \in [0..Len(s) -> Seq(C)] :
           /\ kept[0] = <<>> /\ Grounds!Filter(s, K) = kept[Len(s)]
           /\ \A n \in 1..Len(s) :
                kept[n] = IF s[n] \in K THEN Append(kept[n - 1], s[n]) ELSE kept[n - 1]
<1> DEFINE N == Len(s)
           more == [p \in (1..N) \X Seq(C) |->
                      IF s[p[1]] \in K THEN Append(p[2], s[p[1]]) ELSE p[2]]
           e[n \in 0..N] == IF n = 0 THEN <<>>
                            ELSE IF s[n] \in K THEN Append(e[n - 1], s[n]) ELSE e[n - 1]
<1>1. N \in Nat /\ <<>> \in Seq(C) /\ \A n \in 1..N : s[n] \in C
  OBVIOUS
<1>2. more \in [(1..N) \X Seq(C) -> Seq(C)]
  <2>1. ASSUME NEW p \in (1..N) \X Seq(C)
        PROVE  (IF s[p[1]] \in K THEN Append(p[2], s[p[1]]) ELSE p[2]) \in Seq(C)
    <3>1. s[p[1]] \in C /\ p[2] \in Seq(C)
      BY <1>1
    <3> QED BY <3>1
  <2> QED BY <2>1
<1>3. ASSUME NEW n \in 1..N, NEW t \in Seq(C)
      PROVE  more[<<n, t>>] = IF s[n] \in K THEN Append(t, s[n]) ELSE t
  <2>1. PICK p : p = <<n, t>>
    OBVIOUS
  <2>2. p \in (1..N) \X Seq(C) /\ p[1] = n /\ p[2] = t
    BY <2>1
  <2>3. more[p] = IF s[p[1]] \in K THEN Append(p[2], s[p[1]]) ELSE p[2]
    BY <2>2
  <2>4. more[p] = IF s[n] \in K THEN Append(t, s[n]) ELSE t
    BY <2>2, <2>3, Zenon
  <2> HIDE DEF more
  <2> QED BY <2>1, <2>4, Zenon
<1>4. Grounds!Filter(s, K) = e[N]
  BY DEF Grounds!Filter
<1> HIDE DEF more
<1>5. PICK f \in [0..N -> Seq(C)] : f[0] = <<>> /\ \A n \in 1..N : f[n] = more[<<n, f[n - 1]>>]
  <2>1. Steps(N, Seq(C), <<>>, more)
    BY <1>1, <1>2 DEF Steps
  <2>2. PICK f : Taken(N, Seq(C), <<>>, more, f)
    BY <2>1, Unrolled
  <2> QED BY <2>2 DEF Taken
<1>6. ASSUME NEW n \in 1..N
      PROVE  f[n] = IF s[n] \in K THEN Append(f[n - 1], s[n]) ELSE f[n - 1]
  <2>1. n - 1 \in 0..N
    BY <1>1
  <2>2. PICK t \in Seq(C) : t = f[n - 1]
    BY <1>5, <2>1
  <2>3. f[n] = more[<<n, t>>]
    BY <1>5, <2>2
  <2>4. more[<<n, t>>] = IF s[n] \in K THEN Append(t, s[n]) ELSE t
    BY <1>3
  <2> QED BY <2>2, <2>3, <2>4, Zenon
<1>7. ASSUME NEW n \in 0..N
      PROVE  f[n] = IF n = 0 THEN <<>>
                    ELSE IF s[n] \in K THEN Append(f[n - 1], s[n]) ELSE f[n - 1]
  <2>1. n = 0 \/ n \in 1..N
    BY <1>1
  <2> QED BY <1>5, <1>6, <2>1
<1>8. f = [n \in 0..N |-> IF n = 0 THEN <<>>
                          ELSE IF s[n] \in K THEN Append(f[n - 1], s[n]) ELSE f[n - 1]]
  BY <1>5, <1>7
<1>9. \E g : g = [n \in 0..N |-> IF n = 0 THEN <<>>
                          ELSE IF s[n] \in K THEN Append(g[n - 1], s[n]) ELSE g[n - 1]]
  BY <1>8
<1>10. e = [n \in 0..N |-> IF n = 0 THEN <<>>
                          ELSE IF s[n] \in K THEN Append(e[n - 1], s[n]) ELSE e[n - 1]]
  BY <1>9
<1> HIDE DEF e
<1>11. e[0] = <<>> /\ \A n \in 1..N : e[n] = IF s[n] \in K THEN Append(e[n - 1], s[n]) ELSE e[n - 1]
  <2>1. 0 \in 0..N /\ \A n \in 1..N : n \in 0..N /\ n # 0
    BY <1>1
  <2> QED BY <1>10, <2>1
\* It is the one there is.
<1>12. \A n \in 0..N : e[n] = f[n]
  <2> DEFINE T == {n \in 0..N : e[n] # f[n]}
  <2> SUFFICES ASSUME T # {} PROVE FALSE
    OBVIOUS
  <2>1. T \subseteq Nat /\ (\A n \in T : n \in 0..N /\ e[n] # f[n]) /\ \A n \in 0..N : n \notin T => e[n] = f[n]
    OBVIOUS
  <2> HIDE DEF T
  <2>2. PICK m \in T : \A k \in T : m <= k
    BY <2>1, LeastOne
  <2>3. m # 0
    BY <1>5, <1>11, <2>1
  <2>4. m \in 1..N /\ m - 1 \in 0..N /\ m - 1 \notin T
    BY <1>1, <2>1, <2>2, <2>3
  <2> QED BY <1>6, <1>11, <2>1, <2>4
<1>13. N \in 0..N
  BY <1>1
<1> QED BY <1>4, <1>5, <1>6, <1>12, <1>13

\* x stands in s, and s goes up.
Stands(x, s) == \E i \in 1..Len(s) : s[i] = x
Rising(s) == \A i, j \in 1..Len(s) : i < j => s[i] < s[j]
\* What stands in s stands there once.
Apart(s) == \A i, j \in 1..Len(s) : i < j => s[i] # s[j]

\* One more at the end.
LEMMA OneMoreStands ==
  ASSUME NEW C, NEW t \in Seq(C), NEW y \in C
  PROVE  /\ Append(t, y) \in Seq(C) /\ Len(Append(t, y)) = Len(t) + 1
         /\ \A i \in 1..Len(t) : Append(t, y)[i] = t[i]
         /\ Append(t, y)[Len(t) + 1] = y
         /\ \A x : Stands(x, Append(t, y)) <=> Stands(x, t) \/ x = y
<1>1. /\ Append(t, y) \in Seq(C) /\ Len(Append(t, y)) = Len(t) + 1 /\ Len(t) \in Nat
      /\ \A i \in 1..Len(t) : Append(t, y)[i] = t[i]
      /\ Append(t, y)[Len(t) + 1] = y
  OBVIOUS
<1>2. PICK u : u = Append(t, y)
  OBVIOUS
<1>3. ASSUME NEW x, Stands(x, u) PROVE Stands(x, t) \/ x = y
  <2>1. PICK i \in 1..Len(u) : u[i] = x
    BY <1>3 DEF Stands
  <2>2. i = Len(t) + 1 \/ i \in 1..Len(t)
    BY <1>1, <1>2
  <2> QED BY <1>1, <1>2, <2>1, <2>2 DEF Stands
<1>4. ASSUME NEW x, Stands(x, t) \/ x = y PROVE Stands(x, u)
  <2>1. Len(t) + 1 \in 1..Len(u) /\ \A i \in 1..Len(t) : i \in 1..Len(u)
    BY <1>1, <1>2
  <2>2. u[Len(t) + 1] = y /\ \A i \in 1..Len(t) : u[i] = t[i]
    BY <1>1, <1>2
  <2> QED BY <1>4, <2>1, <2>2 DEF Stands
<1> QED BY <1>1, <1>2, <1>3, <1>4

\* What a filter keeps, and in which order.
LEMMA FilterHas ==
  ASSUME NEW C, NEW s \in Seq(C), NEW K
  PROVE  /\ Grounds!Filter(s, K) \in Seq(C) /\ Len(Grounds!Filter(s, K)) <= Len(s)
         /\ \A x : Stands(x, Grounds!Filter(s, K)) <=> x \in K /\ Stands(x, s)
         /\ Rising(s) => Rising(Grounds!Filter(s, K))
         /\ Apart(s) => Apart(Grounds!Filter(s, K))
<1>1. PICK kept \in [0..Len(s) -> Seq(C)] :
        /\ kept[0] = <<>> /\ Grounds!Filter(s, K) = kept[Len(s)]
        /\ \A n \in 1..Len(s) :
             kept[n] = IF s[n] \in K THEN Append(kept[n - 1], s[n]) ELSE kept[n - 1]
  BY FilterIs
<1>2. PICK N \in Nat : N = Len(s)
  OBVIOUS
<1> DEFINE OK(n) == /\ Len(kept[n]) <= n
                    /\ \A x : Stands(x, kept[n]) <=> x \in K /\ \E i \in 1..n : s[i] = x
                    /\ Rising(s) => Rising(kept[n])
                    /\ Apart(s) => Apart(kept[n])
           T == {n \in 0..N : ~OK(n)}
<1>3. T = {} => OK(N)
  <2>1. N \in 0..N
    OBVIOUS
  <2> QED BY <2>1
<1>4. ASSUME T # {} PROVE FALSE
  <2>1. T \subseteq Nat /\ (\A n \in T : n \in 0..N /\ ~OK(n)) /\ \A n \in 0..N : n \notin T => OK(n)
    OBVIOUS
  <2> HIDE DEF T
  <2>2. PICK m \in T : \A k \in T : m <= k
    BY <1>4, <2>1, LeastOne
  <2>3. m # 0
    <3>1. Len(<<>>) = 0 /\ 1..0 = {}
      OBVIOUS
    <3>2. OK(0)
      BY <1>1, <3>1 DEF Stands, Rising, Apart
    <3> HIDE DEF OK
    <3> QED BY <2>1, <3>2
  <2>4. m \in 1..N /\ m - 1 \in 0..N /\ m - 1 \notin T
    BY <2>1, <2>2, <2>3
  <2>5. OK(m - 1)
    BY <2>1, <2>4
  <2>6. \A i : i \in 1..m <=> i = m \/ i \in 1..(m - 1)
    BY <2>4
  <2>7. PICK t \in Seq(C) : t = kept[m - 1]
    BY <1>1, <1>2, <2>4
  <2>8. /\ Len(t) <= m - 1 /\ Len(t) \in Nat
        /\ \A x : Stands(x, t) <=> x \in K /\ \E i \in 1..(m - 1) : s[i] = x
        /\ Rising(s) => Rising(t)
        /\ Apart(s) => Apart(t)
    BY <2>5, <2>7
  <2>9. CASE s[m] \notin K
    <3>1. kept[m] = t
      BY <1>1, <1>2, <2>4, <2>7, <2>9
    <3>2. Len(t) <= m
      BY <2>4, <2>8
    <3>3. OK(m)
      BY <2>6, <2>8, <2>9, <3>1, <3>2
    <3> HIDE DEF OK
    <3> QED BY <2>1, <2>2, <3>3
  <2>10. CASE s[m] \in K
    <3>0. s[m] \in C
      BY <1>2, <2>4
    <3>1. PICK u : u = Append(t, s[m])
      OBVIOUS
    <3>2. kept[m] = u
      BY <1>1, <1>2, <2>4, <2>7, <2>10, <3>1
    <3>3. /\ Len(u) = Len(t) + 1 /\ \A i \in 1..Len(t) : u[i] = t[i]
          /\ u[Len(t) + 1] = s[m]
          /\ \A x : Stands(x, u) <=> Stands(x, t) \/ x = s[m]
      BY <3>0, <3>1, OneMoreStands
    <3>4. ASSUME NEW i \in 1..Len(u), NEW j \in 1..Len(u), i < j
          PROVE  /\ i \in 1..Len(t) /\ (j \in 1..Len(t) \/ j = Len(t) + 1)
                 /\ j \in 1..Len(t) => u[j] = t[j]
                 /\ \E l \in 1..N : l < m /\ s[l] = t[i]
                 /\ u[i] = t[i]
      <4>1. PICK l \in Nat : l = Len(t) /\ Len(u) = l + 1
        BY <2>8, <3>3
      <4>2. i \in 1..(l + 1) /\ j \in 1..(l + 1)
        BY <4>1
      <4>3. i \in 1..l /\ (j \in 1..l \/ j = l + 1)
        BY <3>4, <4>2
      <4>4. Stands(t[i], t)
        BY <4>1, <4>3 DEF Stands
      <4>5. PICK k \in 1..(m - 1) : s[k] = t[i]
        BY <2>8, <4>4
      <4>6. k \in 1..N /\ k < m
        BY <2>4
      <4> QED BY <3>3, <4>1, <4>3, <4>5, <4>6
    <3>8. ASSUME Rising(s) PROVE Rising(u)
      <4>1. ASSUME NEW i \in 1..Len(u), NEW j \in 1..Len(u), i < j PROVE u[i] < u[j]
        <5>1. /\ i \in 1..Len(t) /\ (j \in 1..Len(t) \/ j = Len(t) + 1)
              /\ (j \in 1..Len(t) => u[j] = t[j]) /\ u[i] = t[i]
              /\ \E l \in 1..N : l < m /\ s[l] = t[i]
          BY <3>4, <4>1
        <5>2. PICK l \in 1..N : l < m /\ s[l] = t[i]
          BY <5>1
        <5>3. s[l] < s[m]
          BY <1>2, <2>4, <3>8, <5>2 DEF Rising
        <5>4. j \in 1..Len(t) => t[i] < t[j]
          BY <2>8, <3>8, <4>1, <5>1 DEF Rising
        <5> QED BY <3>3, <5>1, <5>2, <5>3, <5>4
      <4> QED BY <4>1 DEF Rising
    <3>9. ASSUME Apart(s) PROVE Apart(u)
      <4>1. ASSUME NEW i \in 1..Len(u), NEW j \in 1..Len(u), i < j PROVE u[i] # u[j]
        <5>1. /\ i \in 1..Len(t) /\ (j \in 1..Len(t) \/ j = Len(t) + 1)
              /\ (j \in 1..Len(t) => u[j] = t[j]) /\ u[i] = t[i]
              /\ \E l \in 1..N : l < m /\ s[l] = t[i]
          BY <3>4, <4>1
        <5>2. PICK l \in 1..N : l < m /\ s[l] = t[i]
          BY <5>1
        <5>3. s[l] # s[m]
          BY <1>2, <2>4, <3>9, <5>2 DEF Apart
        <5>4. j \in 1..Len(t) => t[i] # t[j]
          BY <2>8, <3>9, <4>1, <5>1 DEF Apart
        <5> QED BY <3>3, <5>1, <5>2, <5>3, <5>4
      <4> QED BY <4>1 DEF Apart
    <3>5. Len(u) <= m
      BY <2>4, <2>8, <3>3
    <3>6. \A x : Stands(x, u) <=> x \in K /\ \E i \in 1..m : s[i] = x
      BY <2>6, <2>8, <2>10, <3>3
    <3>7. OK(m)
      BY <2>8, <3>2, <3>5, <3>6, <3>8, <3>9
    <3> HIDE DEF OK
    <3> QED BY <2>1, <2>2, <3>7
  <2> QED BY <2>9, <2>10
<1>5. kept[N] \in Seq(C)
  BY <1>1, <1>2
<1> HIDE DEF T
<1> QED BY <1>1, <1>2, <1>3, <1>4, <1>5 DEF Stands

\* The first ones.
LEMMA FirstIs ==
  ASSUME NEW C, NEW s \in Seq(C), NEW n \in Nat
  PROVE  /\ Grounds!First(s, n) \in Seq(C)
         /\ Len(Grounds!First(s, n)) = IF Len(s) < n THEN Len(s) ELSE n
         /\ \A i \in 1..Len(Grounds!First(s, n)) : Grounds!First(s, n)[i] = s[i]
<1> DEFINE m == IF Len(s) < n THEN Len(s) ELSE n
<1>1. m \in Nat /\ m <= Len(s) /\ Len(s) \in Nat
  OBVIOUS
<1>2. Grounds!First(s, n) = SubSeq(s, 1, m)
  BY DEF Grounds!First
<1>3. /\ SubSeq(s, 1, m) \in Seq(C) /\ Len(SubSeq(s, 1, m)) = m
      /\ \A i \in 1..m : SubSeq(s, 1, m)[i] = s[i]
  <2> HIDE DEF m
  <2> QED BY <1>1, SubSeqProperties
<1> QED BY <1>2, <1>3

\* What stands in two sequences behind one another.
LEMMA BothStand ==
  ASSUME NEW C, NEW a \in Seq(C), NEW b \in Seq(C)
  PROVE  \A x : Stands(x, a \o b) <=> Stands(x, a) \/ Stands(x, b)
<1>1. PICK c : c = a \o b
  OBVIOUS
<1>2. /\ Len(c) = Len(a) + Len(b) /\ Len(a) \in Nat /\ Len(b) \in Nat
      /\ \A j \in 1..Len(a) : c[j] = a[j]
      /\ \A j \in 1..Len(b) : c[Len(a) + j] = b[j]
  BY <1>1, JoinedAre
<1>3. ASSUME NEW x, Stands(x, c) PROVE Stands(x, a) \/ Stands(x, b)
  <2>1. PICK i \in 1..Len(c) : c[i] = x
    BY <1>3 DEF Stands
  <2>2. i \in 1..Len(a) \/ (i - Len(a) \in 1..Len(b) /\ Len(a) + (i - Len(a)) = i)
    BY <1>2
  <2> QED BY <1>2, <2>1, <2>2 DEF Stands
<1>4. ASSUME NEW x, Stands(x, a) PROVE Stands(x, c)
  <2>1. \A i \in 1..Len(a) : i \in 1..Len(c)
    BY <1>2
  <2> QED BY <1>2, <1>4, <2>1 DEF Stands
<1>5. ASSUME NEW x, Stands(x, b) PROVE Stands(x, c)
  <2>1. \A i \in 1..Len(b) : Len(a) + i \in 1..Len(c)
    BY <1>2
  <2> QED BY <1>2, <1>5, <2>1 DEF Stands
<1> QED BY <1>1, <1>3, <1>4, <1>5

\* Two functions that start together and never part.
Together(N, e, f) ==
  N \in Nat /\ e[0] = f[0] /\ \A n \in 1..N : e[n - 1] = f[n - 1] => e[n] = f[n]

\* They are the same.
LEMMA AllTheWay == ASSUME NEW N, NEW e, NEW f, Together(N, e, f) PROVE \A n \in 0..N : e[n] = f[n]
<1>1. N \in Nat /\ e[0] = f[0] /\ \A n \in 1..N : e[n - 1] = f[n - 1] => e[n] = f[n]
  BY DEF Together
<1> DEFINE T == {n \in 0..N : e[n] # f[n]}
<1> SUFFICES ASSUME T # {} PROVE FALSE
  OBVIOUS
<1>2. /\ T \subseteq Nat /\ \A n \in T : n \in 0..N /\ e[n] # f[n]
      /\ \A n \in 0..N : n \notin T => e[n] = f[n]
  OBVIOUS
<1> HIDE DEF T
<1>3. PICK m \in T : \A k \in T : m <= k
  BY <1>2, LeastOne
<1>4. m # 0
  BY <1>1, <1>2, <1>3
<1>5. m \in 1..N /\ m - 1 \in 0..N /\ m - 1 \notin T
  <2>1. m \in 0..N
    BY <1>2
  <2>2. m \in 1..N /\ m - 1 \in 0..N /\ ~(m <= m - 1)
    BY <1>1, <1>4, <2>1
  <2> QED BY <1>3, <2>2
<1> QED BY <1>1, <1>2, <1>5

\* What goes up repeats nothing.
LEMMA RisingApart == ASSUME NEW s \in Seq(Nat), Rising(s) PROVE Apart(s)
<1>1. ASSUME NEW i \in 1..Len(s), NEW j \in 1..Len(s), i < j PROVE s[i] # s[j]
  <2>1. s[i] \in Nat /\ s[j] \in Nat /\ s[i] < s[j]
    BY <1>1 DEF Rising
  <2> QED BY <2>1
<1> QED BY <1>1 DEF Apart

\* Nor do two such sequences that share nothing.
LEMMA BothApart ==
  ASSUME NEW C, NEW a \in Seq(C), NEW b \in Seq(C), Apart(a), Apart(b),
         \A x : ~(Stands(x, a) /\ Stands(x, b))
  PROVE  Apart(a \o b)
<1>1. PICK c : c = a \o b
  OBVIOUS
<1>2. /\ Len(c) = Len(a) + Len(b) /\ Len(a) \in Nat /\ Len(b) \in Nat
      /\ \A j \in 1..Len(a) : c[j] = a[j]
      /\ \A j \in 1..Len(b) : c[Len(a) + j] = b[j]
  BY <1>1, JoinedAre
<1>3. PICK l \in Nat, k \in Nat : l = Len(a) /\ k = Len(b) /\ Len(c) = l + k
  BY <1>2
<1>4. ASSUME NEW i \in 1..Len(c), NEW j \in 1..Len(c), i < j PROVE c[i] # c[j]
  <2>1. i \in 1..(l + k) /\ j \in 1..(l + k)
    BY <1>3
  <2>2. CASE j \in 1..l
    <3>1. i \in 1..l
      BY <1>4, <2>1, <2>2
    <3>2. a[i] # a[j]
      BY <1>3, <1>4, <2>2, <3>1 DEF Apart
    <3> QED BY <1>2, <1>3, <2>2, <3>1, <3>2
  <2>3. CASE i \in 1..l /\ j \notin 1..l
    <3>1. j - l \in 1..k /\ l + (j - l) = j
      BY <2>1, <2>3
    <3>2. c[i] = a[i] /\ c[j] = b[j - l]
      BY <1>2, <1>3, <2>3, <3>1
    <3>3. Stands(a[i], a) /\ Stands(b[j - l], b)
      BY <1>3, <2>3, <3>1 DEF Stands
    <3> QED BY <3>2, <3>3
  <2>4. CASE i \notin 1..l
    <3>1. /\ i - l \in 1..k /\ l + (i - l) = i /\ j - l \in 1..k /\ l + (j - l) = j
          /\ i - l < j - l
      BY <1>4, <2>1, <2>4
    <3>2. c[i] = b[i - l] /\ c[j] = b[j - l]
      BY <1>2, <1>3, <3>1
    <3>3. b[i - l] # b[j - l]
      BY <1>3, <3>1 DEF Apart
    <3> QED BY <3>2, <3>3
  <2> QED BY <2>2, <2>3, <2>4
<1> QED BY <1>1, <1>4 DEF Apart

\* The first of such a sequence, with what stands there.
LEMMA FirstApart ==
  ASSUME NEW C, NEW s \in Seq(C), NEW n \in Nat
  PROVE  /\ Apart(s) => Apart(Grounds!First(s, n))
         /\ \A x : Stands(x, Grounds!First(s, n)) => Stands(x, s)
<1>1. PICK t : t = Grounds!First(s, n)
  OBVIOUS
<1>2. /\ Len(t) = IF Len(s) < n THEN Len(s) ELSE n
      /\ \A i \in 1..Len(t) : t[i] = s[i]
  BY <1>1, FirstIs
<1>3. \A i \in 1..Len(t) : i \in 1..Len(s)
  BY <1>2
<1>4. \A x : Stands(x, t) => Stands(x, s)
  BY <1>2, <1>3 DEF Stands
<1>5. Apart(s) => Apart(t)
  BY <1>2, <1>3 DEF Apart
<1> QED BY <1>1, <1>4, <1>5

\* It has as many elements as places.
LEMMA ApartCount ==
  ASSUME NEW C, NEW s \in Seq(C), Apart(s)
  PROVE  Cardinality(ToSet(s)) = Len(s)
<1>1. Len(s) \in Nat /\ DOMAIN s = 1..Len(s) /\ s \in [1..Len(s) -> C]
  OBVIOUS
<1>2. ToSet(s) = {s[i] : i \in 1..Len(s)}
  BY <1>1 DEF ToSet
<1>3. \A i, j \in 1..Len(s) : s[i] = s[j] => i = j
  <2>1. \A i, j \in 1..Len(s) : i < j \/ j < i \/ i = j
    OBVIOUS
  <2> QED BY <2>1 DEF Apart
<1>4. s \in Bijection(1..Len(s), ToSet(s))
  BY <1>1, <1>2, <1>3 DEF Bijection, Injection, Surjection, IsInjective
<1>5. IsFiniteSet(1..Len(s)) /\ Cardinality(1..Len(s)) = Len(s)
  BY <1>1, FS_Interval
<1>6. ExistsBijection(1..Len(s), ToSet(s))
  BY <1>4 DEF ExistsBijection
<1> QED BY <1>5, <1>6, FS_Bijection

\* What is assumed of the interview, and of the list of employers.
LEMMA EmployersAre ==
  /\ Grounds!EMPLOYERS \in Seq(Grounds!Names) /\ Len(Grounds!EMPLOYERS) \in 1..3
  /\ Grounds!Names = {Grounds!EMPLOYERS[k] : k \in 1..Len(Grounds!EMPLOYERS)}
  /\ \A i, j \in 1..Len(Grounds!EMPLOYERS) : i < j => Grounds!EMPLOYERS[i] # Grounds!EMPLOYERS[j]
  /\ TopK \in Nat \ {0} /\ MaxChunks \in Nat /\ None \notin Grounds!Names
<1> DEFINE three == <<"NRG Energy", "BCBSA", "Marsh">>
           C == {"NRG Energy", "BCBSA", "Marsh"}
<1>1. TopK \in Nat \ {0} /\ MaxChunks \in Nat /\ MaxEmployers \in 1..3 /\ None \notin Grounds!Names
  BY PlatformAssumption DEF Grounds!GroundingAssumption
<1>2. /\ three \in Seq(C) /\ Len(three) = 3
      /\ \A i, j \in 1..3 : i < j => three[i] # three[j]
  <2>1. three[1] = "NRG Energy" /\ three[2] = "BCBSA" /\ three[3] = "Marsh"
    OBVIOUS
  <2>2. three[1] # three[2] /\ three[1] # three[3] /\ three[2] # three[3]
    BY <2>1
  <2>3. three \in Seq(C) /\ Len(three) = 3
    OBVIOUS
  <2> HIDE DEF three
  <2>4. ASSUME NEW i \in 1..3, NEW j \in 1..3, i < j PROVE three[i] # three[j]
    <3>1. (i = 1 /\ j = 2) \/ (i = 1 /\ j = 3) \/ (i = 2 /\ j = 3)
      BY <2>4
    <3> QED BY <2>2, <3>1
  <2> QED BY <2>3, <2>4
<1>3. Grounds!EMPLOYERS = SubSeq(three, 1, MaxEmployers)
  BY DEF Grounds!EMPLOYERS
<1> HIDE DEF three, C
<1>4. PICK e : e = Grounds!EMPLOYERS
  OBVIOUS
<1>5. /\ e \in Seq(C) /\ Len(e) = MaxEmployers /\ \A i \in 1..MaxEmployers : e[i] = three[i]
  <2>1. MaxEmployers \in Nat /\ 1 <= MaxEmployers /\ MaxEmployers <= 3
    BY <1>1
  <2>2. PICK t \in Seq(C), m \in Nat : t = three /\ m = MaxEmployers /\ Len(t) = 3 /\ 1 <= m /\ m <= 3
    BY <1>2, <2>1
  <2>3. Grounds!First(t, m) = SubSeq(t, 1, m)
    <3>1. (IF Len(t) < m THEN Len(t) ELSE m) = m
      BY <2>2
    <3> QED BY <3>1 DEF Grounds!First
  <2>4. PICK u : u = Grounds!First(t, m)
    OBVIOUS
  <2>5. u \in Seq(C) /\ Len(u) = IF Len(t) < m THEN Len(t) ELSE m
    BY <2>4, FirstIs
  <2>6. \A i \in 1..Len(u) : u[i] = t[i]
    BY <2>4, FirstIs
  <2>7. Len(u) = m
    BY <2>2, <2>5
  <2> QED BY <1>3, <1>4, <2>2, <2>3, <2>4, <2>5, <2>6, <2>7
<1>6. Grounds!Names = {e[k] : k \in 1..Len(e)}
  BY <1>4 DEF Grounds!Names
<1>7. e \in Seq(Grounds!Names)
  <2>1. \A k \in 1..Len(e) : e[k] \in Grounds!Names
    BY <1>6
  <2>2. Len(e) \in Nat /\ e = [k \in 1..Len(e) |-> e[k]]
    BY <1>5
  <2> QED BY <2>1, <2>2
<1>8. ASSUME NEW i \in 1..Len(e), NEW j \in 1..Len(e), i < j PROVE e[i] # e[j]
  <2>1. i \in 1..3 /\ j \in 1..3
    BY <1>1, <1>5
  <2> QED BY <1>2, <1>5, <1>8, <2>1
<1> QED BY <1>1, <1>4, <1>5, <1>6, <1>7, <1>8

\* The share of an employer: if nothing else, one; and all shares together fit.
LEMMA ShareIs ==
  /\ Grounds!Share \in Nat /\ Grounds!Share >= 1
  /\ TopK >= Len(Grounds!EMPLOYERS) => Len(Grounds!EMPLOYERS) * Grounds!Share <= TopK
<1>1. PICK n \in 1..3, k \in Nat : n = Len(Grounds!EMPLOYERS) /\ k = TopK
  BY EmployersAre
<1>2. Grounds!Share = IF k \div n = 0 THEN 1 ELSE k \div n
  BY <1>1 DEF Grounds!Share
<1>3. n = 1 \/ n = 2 \/ n = 3
  OBVIOUS
<1>4. /\ k \div 1 \in Nat /\ 1 * (k \div 1) <= k
      /\ k \div 2 \in Nat /\ 2 * (k \div 2) <= k /\ (k \div 2 = 0 => k < 2)
      /\ k \div 3 \in Nat /\ 3 * (k \div 3) <= k /\ (k \div 3 = 0 => k < 3)
      /\ (k \div 1 = 0 => k < 1)
  OBVIOUS
<1>5. /\ Grounds!Share \in Nat /\ Grounds!Share >= 1
      /\ k >= n => n * Grounds!Share <= k
  <2>1. CASE n = 1
    BY <1>2, <1>4, <2>1
  <2>2. CASE n = 2
    BY <1>2, <1>4, <2>2
  <2>3. CASE n = 3
    BY <1>2, <1>4, <2>3
  <2> QED BY <1>3, <2>1, <2>2, <2>3
<1> QED BY <1>1, <1>5

\* A ranking: what is near comes first.
Ranked(r) ==
  /\ r \in Seq(Grounds!Chunks) /\ DOMAIN r = 1..Len(r) /\ Len(r) \in Nat
  /\ \A i, j \in 1..Len(r) : i < j /\ r[j].near => r[i].near
\* Places of a ranking, best first.
PlacesIn(r, places) == Ranked(r) /\ places \in Seq(1..Len(r)) /\ Rising(places)

\* Such places repeat nothing, and a filter of them is again such places.
LEMMA PlacesKept ==
  ASSUME NEW r, NEW places, PlacesIn(r, places), NEW K
  PROVE  /\ Apart(places) /\ PlacesIn(r, Grounds!Filter(places, K)) /\ Apart(Grounds!Filter(places, K))
         /\ Len(Grounds!Filter(places, K)) <= Len(places)
         /\ \A x : Stands(x, Grounds!Filter(places, K)) <=> x \in K /\ Stands(x, places)
<1>1. /\ Ranked(r) /\ places \in Seq(1..Len(r)) /\ Rising(places)
      /\ \A s \in Seq(1..Len(r)) : s \in Seq(Nat)
  BY DEF PlacesIn, Ranked
<1>2. PICK t : t = Grounds!Filter(places, K)
  OBVIOUS
<1>3. /\ t \in Seq(1..Len(r)) /\ Len(t) <= Len(places) /\ Rising(t)
      /\ \A x : Stands(x, t) <=> x \in K /\ Stands(x, places)
  BY <1>1, <1>2, FilterHas
<1>4. Apart(places) /\ Apart(t)
  BY <1>1, <1>3, RisingApart
<1> QED BY <1>1, <1>2, <1>3, <1>4 DEF PlacesIn

\* What is in a place.
LEMMA StandsIn ==
  ASSUME NEW C, NEW s \in Seq(C), NEW x, Stands(x, s)
  PROVE  x \in C
<1>1. PICK i \in 1..Len(s) : s[i] = x
  BY DEF Stands
<1> QED BY <1>1

\* The places of an employer's share are hers, and one of them is near if any of hers is.
LEMMA ShareHas ==
  ASSUME NEW r, NEW places, PlacesIn(r, places), NEW e
  PROVE  LET s == Grounds!ShareOf(e, places, r) IN
         /\ s \in Seq(1..Len(r)) /\ Len(s) <= Grounds!Share /\ Apart(s)
         /\ \A x : Stands(x, s) => Stands(x, places) /\ r[x].by = e
         /\ \A x : Stands(x, places) /\ r[x].by = e /\ r[x].near
                     => \E y : Stands(y, s) /\ r[y].near
<1> DEFINE s == Grounds!ShareOf(e, places, r)
           mine == Grounds!Theirs(r, {e})
<1>1. PICK group : group = Grounds!Filter(places, mine)
  OBVIOUS
<1>2. /\ PlacesIn(r, group) /\ Apart(group)
      /\ \A x : Stands(x, group) <=> x \in mine /\ Stands(x, places)
  BY <1>1, PlacesKept
<1>3. s = IF group = <<>> \/ ~r[group[1]].near THEN <<>> ELSE Grounds!First(group, Grounds!Share)
  BY <1>1 DEF Grounds!ShareOf
<1>4. \A x : Stands(x, places) => (x \in mine <=> r[x].by = e)
  <2>1. ASSUME NEW x, Stands(x, places) PROVE x \in DOMAIN r
    BY <2>1, StandsIn DEF PlacesIn, Ranked
  <2> QED BY <2>1 DEF Grounds!Theirs
<1> HIDE DEF s, mine
<1>5. Grounds!Share \in Nat /\ Grounds!Share >= 1
  BY ShareIs
<1>6. CASE group = <<>> \/ ~r[group[1]].near
  <2>1. s = <<>> /\ Len(s) = 0
    BY <1>3, <1>6
  <2>2. s \in Seq(1..Len(r)) /\ Len(s) <= Grounds!Share /\ Apart(s) /\ \A x : ~Stands(x, s)
    BY <1>5, <2>1 DEF Apart, Stands
  <2>3. ASSUME NEW x, Stands(x, places), r[x].by = e, r[x].near PROVE FALSE
    <3>1. Stands(x, group)
      BY <1>2, <1>4, <2>3
    <3>2. PICK i \in 1..Len(group) : group[i] = x
      BY <3>1 DEF Stands
    <3>3. group \in Seq(1..Len(r)) /\ Rising(group) /\ Ranked(r)
      BY <1>2 DEF PlacesIn
    <3>4. group # <<>> /\ 1 \in 1..Len(group) /\ i \in Nat /\ (i = 1 \/ 1 < i)
      <4>1. Len(group) \in Nat
        BY <3>3
      <4>2. 1 \in 1..Len(group) /\ i \in Nat /\ (i = 1 \/ 1 < i)
        BY <4>1
      <4> QED BY <4>2
    <3>5. ~r[group[1]].near
      BY <1>6, <3>4
    <3>6. i # 1
      BY <2>3, <3>2, <3>5
    <3>7. group[1] < group[i] /\ group[1] \in 1..Len(r) /\ group[i] \in 1..Len(r)
      BY <3>3, <3>4, <3>6 DEF Rising
    <3> QED BY <2>3, <3>2, <3>3, <3>5, <3>7 DEF Ranked
  <2> QED BY <2>2, <2>3 DEF s
<1>7. CASE ~(group = <<>> \/ ~r[group[1]].near)
  <2>1. s = Grounds!First(group, Grounds!Share) /\ group \in Seq(1..Len(r))
    BY <1>2, <1>3, <1>7 DEF PlacesIn
  <2>2. /\ s \in Seq(1..Len(r)) /\ Len(s) = IF Len(group) < Grounds!Share THEN Len(group) ELSE Grounds!Share
        /\ \A i \in 1..Len(s) : s[i] = group[i]
    BY <1>5, <2>1, FirstIs
  <2>3. Apart(s) /\ \A x : Stands(x, s) => Stands(x, group)
    BY <1>2, <1>5, <2>1, FirstApart
  <2>4. Len(group) \in Nat \ {0} /\ Len(s) <= Grounds!Share /\ 1 \in 1..Len(s)
    <3>1. Len(group) \in Nat \ {0}
      BY <1>7, <2>1
    <3> QED BY <1>5, <2>2, <3>1
  <2>5. Stands(s[1], s) /\ r[s[1]].near
    BY <1>7, <2>2, <2>4 DEF Stands
  <2> QED BY <1>2, <1>4, <2>2, <2>3, <2>4, <2>5 DEF s
<1> QED BY <1>6, <1>7

\* An employer has something near among these places.
HasNear(r, t, e) == \E y : Stands(y, t) /\ r[y].by = e /\ r[y].near

\* The reserved places, employer by employer.
LEMMA ReservedIs ==
  ASSUME NEW r, NEW places, PlacesIn(r, places)
  PROVE  \E shares \in [0..Len(Grounds!EMPLOYERS) -> Seq(1..Len(r))] :
           /\ shares[0] = <<>> /\ Grounds!Reserved(places, r) = shares[Len(Grounds!EMPLOYERS)]
           /\ \A n \in 1..Len(Grounds!EMPLOYERS) :
                shares[n] = shares[n - 1] \o Grounds!ShareOf(Grounds!EMPLOYERS[n], places, r)
<1> DEFINE N == Len(Grounds!EMPLOYERS)
           C == 1..Len(r)
           slots(n) == Grounds!ShareOf(Grounds!EMPLOYERS[n], places, r)
           more == [p \in (1..N) \X Seq(C) |-> p[2] \o slots(p[1])]
           e[n \in 0..N] == IF n = 0 THEN <<>> ELSE e[n - 1] \o slots(n)
<1>1. N \in Nat /\ <<>> \in Seq(C)
  BY EmployersAre
<1>2. \A n : slots(n) \in Seq(C)
  BY ShareHas
<1>3. Grounds!Reserved(places, r) = e[N]
  BY DEF Grounds!Reserved
<1> HIDE DEF slots, C
<1>4. more \in [(1..N) \X Seq(C) -> Seq(C)]
  <2>1. ASSUME NEW p \in (1..N) \X Seq(C) PROVE p[2] \o slots(p[1]) \in Seq(C)
    <3>1. p[2] \in Seq(C) /\ slots(p[1]) \in Seq(C)
      BY <1>2
    <3> QED BY <3>1
  <2> QED BY <2>1
<1>5. ASSUME NEW n \in 1..N, NEW t \in Seq(C) PROVE more[<<n, t>>] = t \o slots(n)
  <2>1. PICK p : p = <<n, t>>
    OBVIOUS
  <2>2. p \in (1..N) \X Seq(C) /\ p[1] = n /\ p[2] = t
    BY <2>1
  <2>3. more[p] = p[2] \o slots(p[1])
    BY <2>2
  <2>4. more[p] = t \o slots(n)
    BY <2>2, <2>3, Zenon
  <2> HIDE DEF more
  <2> QED BY <2>1, <2>4, Zenon
<1> HIDE DEF more
<1>6. PICK f \in [0..N -> Seq(C)] : f[0] = <<>> /\ \A n \in 1..N : f[n] = more[<<n, f[n - 1]>>]
  <2>1. Steps(N, Seq(C), <<>>, more)
    BY <1>1, <1>4 DEF Steps
  <2>2. PICK f : Taken(N, Seq(C), <<>>, more, f)
    BY <2>1, Unrolled
  <2> QED BY <2>2 DEF Taken
<1>7. ASSUME NEW n \in 1..N PROVE f[n] = f[n - 1] \o slots(n)
  <2>1. n - 1 \in 0..N
    BY <1>1
  <2>2. PICK t \in Seq(C) : t = f[n - 1]
    BY <1>6, <2>1
  <2>3. f[n] = more[<<n, t>>]
    BY <1>6, <2>2
  <2>4. more[<<n, t>>] = t \o slots(n)
    BY <1>5
  <2> QED BY <2>2, <2>3, <2>4, Zenon
<1>8. ASSUME NEW n \in 0..N PROVE f[n] = IF n = 0 THEN <<>> ELSE f[n - 1] \o slots(n)
  <2>1. n = 0 \/ n \in 1..N
    BY <1>1
  <2> QED BY <1>6, <1>7, <2>1
<1>9. f = [n \in 0..N |-> IF n = 0 THEN <<>> ELSE f[n - 1] \o slots(n)]
  BY <1>6, <1>8
<1>10. \E g : g = [n \in 0..N |-> IF n = 0 THEN <<>> ELSE g[n - 1] \o slots(n)]
  BY <1>9
<1>11. e = [n \in 0..N |-> IF n = 0 THEN <<>> ELSE e[n - 1] \o slots(n)]
  BY <1>10
<1> HIDE DEF e
<1>12. e[0] = <<>> /\ \A n \in 1..N : e[n] = e[n - 1] \o slots(n)
  <2>1. 0 \in 0..N /\ \A n \in 1..N : n \in 0..N /\ n # 0
    BY <1>1
  <2> QED BY <1>11, <2>1
<1>13. \A n \in 0..N : e[n] = f[n]
  <2>1. \A n \in 1..N : e[n - 1] = f[n - 1] => e[n] = f[n]
    BY <1>7, <1>12
  <2>2. Together(N, e, f)
    BY <1>1, <1>6, <1>12, <2>1 DEF Together
  <2> QED BY <2>2, AllTheWay
<1>14. N \in 0..N
  BY <1>1
<1>15. Grounds!Reserved(places, r) = f[N]
  BY <1>3, <1>13, <1>14
<1> QED BY <1>6, <1>7, <1>15 DEF C, slots

\* They are places of the question, none twice, as many as there are shares, and an employer
\* who has something near among the places has it among them too.
LEMMA ReservedHas ==
  ASSUME NEW r, NEW places, PlacesIn(r, places)
  PROVE  LET t == Grounds!Reserved(places, r) IN
         /\ t \in Seq(1..Len(r)) /\ Apart(t)
         /\ Len(t) <= Len(Grounds!EMPLOYERS) * Grounds!Share
         /\ \A x : Stands(x, t) => Stands(x, places)
         /\ \A e \in Grounds!Names : HasNear(r, places, e) => HasNear(r, t, e)
<1> DEFINE C == 1..Len(r)
<1>1. PICK N \in 1..3, E \in Seq(Grounds!Names), S \in Nat :
        N = Len(Grounds!EMPLOYERS) /\ E = Grounds!EMPLOYERS /\ S = Grounds!Share
  BY EmployersAre, ShareIs
<1>2. PICK shares \in [0..N -> Seq(C)] :
        /\ shares[0] = <<>> /\ Grounds!Reserved(places, r) = shares[N]
        /\ \A n \in 1..N : shares[n] = shares[n - 1] \o Grounds!ShareOf(E[n], places, r)
  BY <1>1, ReservedIs
<1> HIDE DEF C
<1> DEFINE OK(n) ==
      /\ Apart(shares[n]) /\ Len(shares[n]) <= n * S
      /\ \A x : Stands(x, shares[n]) => Stands(x, places) /\ \E k \in 1..n : r[x].by = E[k]
      /\ \A k \in 1..n : HasNear(r, places, E[k]) => HasNear(r, shares[n], E[k])
<1>3. OK(0)
  <2>1. Len(<<>>) = 0 /\ 1..0 = {} /\ 0 * S = 0
    BY <1>1
  <2> QED BY <1>2, <2>1 DEF Stands, Apart
<1>4. ASSUME NEW n \in 1..N, OK(n - 1) PROVE OK(n)
  <2>1. n - 1 \in 0..N /\ n \in 1..3 /\ (n - 1) * S + S = n * S
    <3>1. n = 1 \/ n = 2 \/ n = 3
      OBVIOUS
    <3>2. n - 1 \in 0..N /\ n \in 1..3
      OBVIOUS
    <3>3. (n - 1) * S + S = n * S
      BY <3>1
    <3> QED BY <3>2, <3>3
  <2>2. PICK t \in Seq(C) : t = shares[n - 1]
    BY <1>2, <2>1
  <2>3. PICK s : s = Grounds!ShareOf(E[n], places, r)
    OBVIOUS
  <2>4. /\ s \in Seq(C) /\ Len(s) <= S /\ Apart(s)
        /\ \A x : Stands(x, s) => Stands(x, places) /\ r[x].by = E[n]
        /\ \A x : Stands(x, places) /\ r[x].by = E[n] /\ r[x].near
                     => \E y : Stands(y, s) /\ r[y].near
    BY <1>1, <2>3, ShareHas DEF C
  <2>5. PICK u : u = t \o s
    OBVIOUS
  <2>6. shares[n] = u
    BY <1>2, <2>2, <2>3, <2>5
  <2>7. /\ Apart(t) /\ Len(t) <= (n - 1) * S
        /\ \A x : Stands(x, t) => Stands(x, places) /\ \E k \in 1..(n - 1) : r[x].by = E[k]
        /\ \A k \in 1..(n - 1) : HasNear(r, places, E[k]) => HasNear(r, t, E[k])
    BY <1>4, <2>2
  <2>8. \A x : Stands(x, u) <=> Stands(x, t) \/ Stands(x, s)
    BY <2>2, <2>4, <2>5, BothStand
  <2>9. \A k \in 1..(n - 1) : k \in 1..n /\ E[k] # E[n]
    <3>1. ASSUME NEW k \in 1..(n - 1) PROVE k \in 1..n /\ E[k] # E[n]
      <4>1. k \in 1..n /\ k < n /\ k \in 1..Len(Grounds!EMPLOYERS) /\ n \in 1..Len(Grounds!EMPLOYERS)
        BY <1>1
      <4> QED BY <1>1, <4>1, EmployersAre
    <3> QED BY <3>1
  <2>10. Apart(u)
    <3>1. \A x : ~(Stands(x, t) /\ Stands(x, s))
      BY <2>4, <2>7, <2>9
    <3> QED BY <2>2, <2>4, <2>5, <2>7, <3>1, BothApart
  <2>11. Len(u) <= n * S
    <3>1. Len(u) = Len(t) + Len(s) /\ Len(t) \in Nat /\ Len(s) \in Nat
      BY <2>2, <2>4, <2>5, JoinedAre
    <3>2. PICK a \in Nat, b \in Nat, c \in Nat, d \in Nat :
            a = Len(t) /\ b = Len(s) /\ c = (n - 1) * S /\ d = n * S
      <4>1. n = 1 \/ n = 2 \/ n = 3
        BY <2>1
      <4>2. (n - 1) * S \in Nat /\ n * S \in Nat
        BY <4>1
      <4> QED BY <3>1, <4>2
    <3>3. a <= c /\ b <= S /\ c + S = d
      BY <2>1, <2>4, <2>7, <3>2
    <3>4. a + b <= d
      BY <3>3
    <3> QED BY <3>1, <3>2, <3>4
  <2>12. \A k \in 1..n : k = n \/ k \in 1..(n - 1)
    OBVIOUS
  <2>13. ASSUME NEW x, Stands(x, u) PROVE Stands(x, places) /\ \E k \in 1..n : r[x].by = E[k]
    <3>1. n \in 1..n
      OBVIOUS
    <3> QED BY <2>4, <2>7, <2>8, <2>9, <2>13, <3>1
  <2>14. ASSUME NEW k \in 1..n, HasNear(r, places, E[k]) PROVE HasNear(r, u, E[k])
    <3>1. CASE k = n
      <4>1. PICK x : Stands(x, places) /\ r[x].by = E[n] /\ r[x].near
        BY <2>14, <3>1 DEF HasNear
      <4>2. PICK y : Stands(y, s) /\ r[y].near
        BY <2>4, <4>1
      <4>3. Stands(y, u) /\ r[y].by = E[n]
        BY <2>4, <2>8, <4>2
      <4> QED BY <3>1, <4>2, <4>3 DEF HasNear
    <3>2. CASE k \in 1..(n - 1)
      <4>1. HasNear(r, t, E[k])
        BY <2>7, <2>14, <3>2
      <4> QED BY <2>8, <4>1 DEF HasNear
    <3> QED BY <2>12, <3>1, <3>2
  <2> QED BY <2>6, <2>10, <2>11, <2>13, <2>14
<1>5. OK(N)
  <2> HIDE DEF OK
  <2>1. N = 1 => OK(N)
    <3>1. ASSUME N = 1 PROVE OK(N)
      <4>1. OK(1 - 1) => OK(1)
        BY <1>4, <3>1
      <4> QED BY <1>3, <3>1, <4>1
    <3> QED BY <3>1
  <2>2. N = 2 => OK(N)
    <3>1. ASSUME N = 2 PROVE OK(N)
      <4>1. (OK(1 - 1) => OK(1)) /\ (OK(2 - 1) => OK(2))
        BY <1>4, <3>1
      <4> QED BY <1>3, <3>1, <4>1
    <3> QED BY <3>1
  <2>3. N = 3 => OK(N)
    <3>1. ASSUME N = 3 PROVE OK(N)
      <4>1. (OK(1 - 1) => OK(1)) /\ (OK(2 - 1) => OK(2)) /\ (OK(3 - 1) => OK(3))
        BY <1>4, <3>1
      <4> QED BY <1>3, <3>1, <4>1
    <3> QED BY <3>1
  <2> QED BY <2>1, <2>2, <2>3
<1>6. PICK t : t = Grounds!Reserved(places, r)
  OBVIOUS
<1>7. t = shares[N] /\ t \in Seq(C)
  BY <1>2, <1>6
<1>8. /\ Apart(t) /\ Len(t) <= N * S
      /\ \A x : Stands(x, t) => Stands(x, places)
      /\ \A k \in 1..N : HasNear(r, places, E[k]) => HasNear(r, t, E[k])
  BY <1>5, <1>7
<1>9. \A e \in Grounds!Names : \E k \in 1..N : e = E[k]
  BY <1>1, EmployersAre
<1>10. \A e \in Grounds!Names : HasNear(r, places, e) => HasNear(r, t, e)
  BY <1>8, <1>9
<1> QED BY <1>1, <1>6, <1>7, <1>8, <1>10 DEF C

\* Two sequences that repeat nothing and share nothing.
Halves(C, a, b) ==
  /\ a \in Seq(C) /\ b \in Seq(C) /\ Apart(a) /\ Apart(b)
  /\ \A x : ~(Stands(x, a) /\ Stands(x, b))
\* Up to n of a, then b: they come from both and repeat nothing; and all of a is among
\* them when a fits, or when any of them is not from a.
Fronted(C, a, b, n, u) ==
  /\ u \in Seq(C) /\ Apart(u) /\ Len(u) <= n
  /\ \A x : Stands(x, u) => Stands(x, a) \/ Stands(x, b)
  /\ (Len(a) <= n \/ \E x : Stands(x, u) /\ ~Stands(x, a))
       => \A x : Stands(x, a) => Stands(x, u)

\* That is what the first n of both are.
LEMMA FrontAndRest ==
  ASSUME NEW C, NEW a, NEW b, NEW n \in Nat, Halves(C, a, b)
  PROVE  Fronted(C, a, b, n, Grounds!First(a \o b, n))
<1>0. /\ a \in Seq(C) /\ b \in Seq(C) /\ Apart(a) /\ Apart(b)
      /\ \A x : ~(Stands(x, a) /\ Stands(x, b))
  BY DEF Halves
<1>1. PICK c : c = a \o b
  OBVIOUS
<1>2. c \in Seq(C) /\ Apart(c) /\ \A x : Stands(x, c) <=> Stands(x, a) \/ Stands(x, b)
  BY <1>0, <1>1, BothApart, BothStand
<1>3. PICK u : u = Grounds!First(c, n)
  OBVIOUS
<1>4. /\ u \in Seq(C) /\ Len(u) = IF Len(c) < n THEN Len(c) ELSE n
      /\ \A i \in 1..Len(u) : u[i] = c[i]
  BY <1>2, <1>3, FirstIs
<1>5. Apart(u) /\ \A x : Stands(x, u) => Stands(x, c)
  BY <1>2, <1>3, FirstApart
<1>6. PICK l \in Nat, k \in Nat, m \in Nat :
        /\ l = Len(a) /\ k = Len(b) /\ m = Len(u) /\ Len(c) = l + k
        /\ \A j \in 1..Len(a) : c[j] = a[j]
  BY <1>0, <1>1, <1>4, JoinedAre
<1>7. m = IF l + k < n THEN l + k ELSE n
  BY <1>4, <1>6
<1>8. m <= n
  BY <1>7
<1>9. ASSUME l <= n \/ \E x : Stands(x, u) /\ ~Stands(x, a), NEW x, Stands(x, a)
      PROVE  Stands(x, u)
  <2>1. l <= m
    <3>1. CASE l <= n
      BY <1>7, <3>1
    <3>2. CASE \E y : Stands(y, u) /\ ~Stands(y, a)
      <4>1. PICK y : Stands(y, u) /\ ~Stands(y, a)
        BY <3>2
      <4>2. PICK i \in 1..m : u[i] = y
        BY <1>6, <4>1 DEF Stands
      <4>3. i \notin 1..l
        <5>1. ASSUME i \in 1..l PROVE FALSE
          <6>1. u[i] = a[i]
            BY <1>4, <1>6, <5>1
          <6> QED BY <1>6, <4>1, <4>2, <5>1, <6>1 DEF Stands
        <5> QED BY <5>1
      <4> QED BY <4>3
    <3> QED BY <1>9, <3>1, <3>2
  <2>2. PICK i \in 1..l : a[i] = x
    BY <1>6, <1>9 DEF Stands
  <2>3. i \in 1..m
    BY <2>1
  <2>4. u[i] = x
    BY <1>4, <1>6, <2>2, <2>3
  <2> QED BY <1>6, <2>3, <2>4 DEF Stands
<1> QED BY <1>1, <1>2, <1>3, <1>4, <1>5, <1>6, <1>8, <1>9 DEF Fronted

\* What the model is shown for a question, chunks of the books of its scope.
Fits(q, r, p) ==
  /\ p \in Seq(1..Len(r)) /\ Apart(p) /\ Len(p) <= TopK
  /\ \A x : Stands(x, p) => Stands(x, Grounds!InScope(q, r))
AtHome(q) == Grounds!Policy(q) /\ Grounds!Homes(q) # {} /\ q.named = {} /\ ~q.wide
HomesAlone(q, r, p) == AtHome(q) => \A x : Stands(x, p) => r[x].by \in Grounds!Homes(q)
NamedFirst(q, r, p) ==
  q.named # {} =>
    \A x, y : Stands(x, p) /\ Stands(y, Grounds!InScope(q, r)) /\ ~Stands(y, p)
                /\ r[y].by \in q.named => r[x].by \in q.named
EachShown(q, r, p) ==
  ~AtHome(q) /\ q.named = {} /\ q.scope = "career" /\ TopK >= Len(Grounds!EMPLOYERS) =>
    \A e \in Grounds!Names : HasNear(r, Grounds!InScope(q, r), e) => HasNear(r, p, e)

\* The chunks of a scope stand in the order of the ranking.
LEMMA ScopeIs == ASSUME NEW q, NEW r, Ranked(r) PROVE PlacesIn(r, Grounds!InScope(q, r))
<1> DEFINE all == [i \in DOMAIN r |-> i]
           K == {i \in DOMAIN r : Grounds!Allowed(r[i], q.scope)}
<1>1. DOMAIN r = 1..Len(r) /\ Len(r) \in Nat
  BY DEF Ranked
<1>2. PICK n \in Nat : n = Len(r)
  BY <1>1
<1>3. all \in Seq(1..n) /\ Len(all) = n /\ \A i \in 1..n : all[i] = i
  BY <1>1, <1>2
<1>4. Grounds!InScope(q, r) = Grounds!Filter(all, K)
  BY DEF Grounds!InScope
<1> HIDE DEF all, K
<1>5. Rising(all)
  <2>1. ASSUME NEW i \in 1..n, NEW j \in 1..n, i < j PROVE all[i] < all[j]
    BY <1>3, <2>1
  <2> QED BY <1>3, <2>1 DEF Rising
<1>6. PlacesIn(r, all)
  BY <1>2, <1>3, <1>5 DEF PlacesIn
<1> QED BY <1>4, <1>6, PlacesKept

\* The first of some places of the ranking are of the scope, if these are.
LEMMA FirstFit ==
  ASSUME NEW q, NEW r, NEW g, PlacesIn(r, g), \A x : Stands(x, g) => Stands(x, Grounds!InScope(q, r))
  PROVE  Fits(q, r, Grounds!First(g, TopK))
<1>1. TopK \in Nat
  BY EmployersAre
<1>2. g \in Seq(1..Len(r)) /\ Apart(g)
  <2>1. g \in Seq(1..Len(r))
    BY DEF PlacesIn
  <2> QED BY <2>1, PlacesKept
<1>3. PICK p : p = Grounds!First(g, TopK)
  OBVIOUS
<1>4. p \in Seq(1..Len(r)) /\ Len(p) = IF Len(g) < TopK THEN Len(g) ELSE TopK
  BY <1>1, <1>2, <1>3, FirstIs
<1>5. Apart(p) /\ \A x : Stands(x, p) => Stands(x, g)
  BY <1>1, <1>2, <1>3, FirstApart
<1>6. Len(p) <= TopK
  <2>1. Len(g) \in Nat
    BY <1>2
  <2> QED BY <1>1, <1>4, <2>1
<1> QED BY <1>3, <1>4, <1>5, <1>6 DEF Fits

\* A topic with a home is shown from its homes.
LEMMA HomesFit ==
  ASSUME NEW q, NEW r, Ranked(r), AtHome(q)
  PROVE  Fits(q, r, Grounds!Picked(q, r)) /\ HomesAlone(q, r, Grounds!Picked(q, r))
<1> DEFINE places == Grounds!InScope(q, r)
           K == Grounds!Theirs(r, Grounds!Homes(q))
<1>1. Grounds!Picked(q, r) = Grounds!First(Grounds!Filter(places, K), TopK)
  BY DEF Grounds!Picked, AtHome
<1>2. PlacesIn(r, places)
  BY ScopeIs
<1> HIDE DEF places
<1>3. PICK g : g = Grounds!Filter(places, K)
  OBVIOUS
<1>4. PlacesIn(r, g) /\ \A x : Stands(x, g) <=> x \in K /\ Stands(x, places)
  BY <1>2, <1>3, PlacesKept
<1>5. Fits(q, r, Grounds!First(g, TopK))
  BY <1>4, FirstFit DEF places
<1>6. \A x : Stands(x, Grounds!First(g, TopK)) => Stands(x, g)
  <2>1. TopK \in Nat /\ g \in Seq(1..Len(r))
    BY <1>4, EmployersAre DEF PlacesIn
  <2> QED BY <2>1, FirstApart
<1>7. HomesAlone(q, r, Grounds!First(g, TopK))
  BY <1>4, <1>6 DEF HomesAlone, Grounds!Theirs
<1> QED BY <1>1, <1>3, <1>5, <1>7

\* The chunks of named employers come before all others.
LEMMA NamedFit ==
  ASSUME NEW q, NEW r, Ranked(r), q.named # {}
  PROVE  Fits(q, r, Grounds!Picked(q, r)) /\ NamedFirst(q, r, Grounds!Picked(q, r))
<1> DEFINE places == Grounds!InScope(q, r)
           K == Grounds!Theirs(r, q.named)
<1>1. Grounds!Picked(q, r)
        = Grounds!First(Grounds!Filter(places, K) \o Grounds!Filter(places, DOMAIN r \ K), TopK)
  BY DEF Grounds!Picked
<1>2. PlacesIn(r, places) /\ TopK \in Nat
  BY ScopeIs, EmployersAre
<1> HIDE DEF places, K
<1>3. PICK a, b : a = Grounds!Filter(places, K) /\ b = Grounds!Filter(places, DOMAIN r \ K)
  OBVIOUS
<1>4. /\ PlacesIn(r, a) /\ Apart(a) /\ PlacesIn(r, b) /\ Apart(b)
      /\ \A x : Stands(x, a) <=> x \in K /\ Stands(x, places)
      /\ \A x : Stands(x, b) <=> x \in DOMAIN r \ K /\ Stands(x, places)
  BY <1>2, <1>3, PlacesKept
<1>5. a \in Seq(1..Len(r)) /\ b \in Seq(1..Len(r))
  BY <1>4 DEF PlacesIn
<1>6. PICK u : u = Grounds!First(a \o b, TopK)
  OBVIOUS
<1>7. \A x : ~(Stands(x, a) /\ Stands(x, b))
  BY <1>4
<1>8. /\ u \in Seq(1..Len(r)) /\ Apart(u) /\ Len(u) <= TopK
      /\ \A x : Stands(x, u) => Stands(x, a) \/ Stands(x, b)
      /\ (\E x : Stands(x, u) /\ ~Stands(x, a)) => \A x : Stands(x, a) => Stands(x, u)
  <2>1. Halves(1..Len(r), a, b)
    BY <1>4, <1>5, <1>7 DEF Halves
  <2>2. Fronted(1..Len(r), a, b, TopK, u)
    BY <1>2, <1>6, <2>1, FrontAndRest
  <2> QED BY <2>2 DEF Fronted
<1>9. Fits(q, r, u)
  BY <1>4, <1>8 DEF Fits, places
<1>10. \A x : Stands(x, places) => (x \in K <=> r[x].by \in q.named)
  <2>1. ASSUME NEW x, Stands(x, places) PROVE x \in DOMAIN r
    BY <1>2, <2>1, StandsIn DEF PlacesIn, Ranked
  <2> QED BY <2>1 DEF K, Grounds!Theirs
<1>11. ASSUME NEW x, NEW y, Stands(x, u), Stands(y, places), ~Stands(y, u), r[y].by \in q.named
       PROVE  r[x].by \in q.named
  <2>1. Stands(y, a)
    BY <1>4, <1>10, <1>11
  <2>2. Stands(x, a)
    BY <1>8, <1>11, <2>1
  <2> QED BY <1>4, <1>10, <2>2
<1>12. NamedFirst(q, r, u)
  BY <1>11 DEF NamedFirst, places
<1> QED BY <1>1, <1>3, <1>6, <1>9, <1>12

\* Across the career every employer with something near has a place, if there are as many.
LEMMA BalancedFit ==
  ASSUME NEW q, NEW r, Ranked(r)
  PROVE  LET p == Grounds!Balanced(Grounds!InScope(q, r), r) IN
         Fits(q, r, p) /\ EachShown(q, r, p)
<1> DEFINE places == Grounds!InScope(q, r)
           a == Grounds!Reserved(places, r)
           b == Grounds!Filter(places, DOMAIN r \ ToSet(a))
           u == Grounds!First(a \o b, TopK)
<1>1. Grounds!Balanced(places, r) = u
  <2>1. \A s : Grounds!ToSet(s) = ToSet(s)
    BY DEF ToSet, Grounds!ToSet
  <2> QED BY <2>1 DEF Grounds!Balanced
<1>2. PlacesIn(r, places) /\ TopK \in Nat
  BY ScopeIs, EmployersAre
<1> HIDE DEF places
<1>3. /\ a \in Seq(1..Len(r)) /\ Apart(a)
      /\ Len(a) <= Len(Grounds!EMPLOYERS) * Grounds!Share
      /\ \A x : Stands(x, a) => Stands(x, places)
      /\ \A e \in Grounds!Names : HasNear(r, places, e) => HasNear(r, a, e)
  BY <1>2, ReservedHas
<1> HIDE DEF a
<1>4. /\ PlacesIn(r, b) /\ Apart(b)
      /\ \A x : Stands(x, b) <=> x \in DOMAIN r \ ToSet(a) /\ Stands(x, places)
  BY <1>2, PlacesKept
<1>5. b \in Seq(1..Len(r))
  BY <1>4 DEF PlacesIn
<1>6. \A x : ~(Stands(x, a) /\ Stands(x, b))
  <2>1. ASSUME NEW x, Stands(x, a) PROVE x \in ToSet(a)
    <3>1. PICK i \in 1..Len(a) : a[i] = x
      BY <2>1 DEF Stands
    <3>2. DOMAIN a = 1..Len(a)
      BY <1>3
    <3> QED BY <3>1, <3>2 DEF ToSet
  <2> QED BY <1>4, <2>1
<1> HIDE DEF b
<1>7. /\ u \in Seq(1..Len(r)) /\ Apart(u) /\ Len(u) <= TopK
      /\ \A x : Stands(x, u) => Stands(x, a) \/ Stands(x, b)
      /\ Len(a) <= TopK => \A x : Stands(x, a) => Stands(x, u)
  <2>1. Halves(1..Len(r), a, b)
    BY <1>3, <1>4, <1>5, <1>6 DEF Halves
  <2>2. Fronted(1..Len(r), a, b, TopK, u)
    BY <1>2, <2>1, FrontAndRest
  <2> QED BY <2>2 DEF Fronted
<1> HIDE DEF u
<1>8. Fits(q, r, u)
  BY <1>3, <1>4, <1>7 DEF Fits, places
<1>9. TopK >= Len(Grounds!EMPLOYERS) => Len(a) <= TopK
  <2>1. PICK l \in Nat, m \in Nat, k \in Nat :
          l = Len(a) /\ m = Len(Grounds!EMPLOYERS) * Grounds!Share /\ k = TopK
    <3>1. Len(a) \in Nat /\ Len(Grounds!EMPLOYERS) * Grounds!Share \in Nat
      <4>1. PICK n \in Nat, s \in Nat : n = Len(Grounds!EMPLOYERS) /\ s = Grounds!Share
        BY EmployersAre, ShareIs
      <4>2. n * s \in Nat
        OBVIOUS
      <4> QED BY <1>3, <4>1, <4>2
    <3> QED BY <1>2, <3>1
  <2>2. l <= m /\ (TopK >= Len(Grounds!EMPLOYERS) => m <= k)
    BY <1>3, <2>1, ShareIs
  <2>3. TopK >= Len(Grounds!EMPLOYERS) => l <= k
    BY <2>2
  <2> QED BY <2>1, <2>3
<1>10. EachShown(q, r, u)
  <2>1. ASSUME TopK >= Len(Grounds!EMPLOYERS), NEW e \in Grounds!Names, HasNear(r, places, e)
        PROVE  HasNear(r, u, e)
    <3>1. HasNear(r, a, e)
      BY <1>3, <2>1
    <3> QED BY <1>7, <1>9, <2>1, <3>1 DEF HasNear
  <2> QED BY <2>1 DEF EachShown, places
<1> QED BY <1>1, <1>8, <1>10 DEF places

\* However the slots are filled, they are filled fairly.
LEMMA PickedFits ==
  ASSUME NEW q, NEW r, Ranked(r)
  PROVE  LET p == Grounds!Picked(q, r) IN
         Fits(q, r, p) /\ HomesAlone(q, r, p) /\ NamedFirst(q, r, p) /\ EachShown(q, r, p)
<1> DEFINE p == Grounds!Picked(q, r)
<1>1. CASE AtHome(q)
  <2>1. Fits(q, r, p) /\ HomesAlone(q, r, p)
    BY <1>1, HomesFit
  <2>2. NamedFirst(q, r, p) /\ EachShown(q, r, p)
    BY <1>1 DEF NamedFirst, EachShown, AtHome
  <2> QED BY <2>1, <2>2
<1>2. CASE q.named # {}
  <2>1. Fits(q, r, p) /\ NamedFirst(q, r, p)
    BY <1>2, NamedFit
  <2>2. HomesAlone(q, r, p) /\ EachShown(q, r, p)
    BY <1>2 DEF HomesAlone, EachShown, AtHome
  <2> QED BY <2>1, <2>2
<1>3. CASE ~AtHome(q) /\ q.named = {}
  <2>1. HomesAlone(q, r, p) /\ NamedFirst(q, r, p)
    BY <1>3 DEF HomesAlone, NamedFirst
  <2>2. CASE q.scope = "career"
    <3>1. p = Grounds!Balanced(Grounds!InScope(q, r), r)
      BY <1>3, <2>2 DEF Grounds!Picked, AtHome
    <3>2. Fits(q, r, p) /\ EachShown(q, r, p)
      BY <3>1, BalancedFit
    <3> QED BY <2>1, <3>2
  <2>3. CASE q.scope # "career"
    <3>1. p = Grounds!First(Grounds!InScope(q, r), TopK)
      BY <1>3, <2>3 DEF Grounds!Picked, AtHome
    <3>2. PlacesIn(r, Grounds!InScope(q, r))
      BY ScopeIs
    <3>3. Fits(q, r, p)
      BY <3>1, <3>2, FirstFit
    <3>4. EachShown(q, r, p)
      BY <2>3 DEF EachShown
    <3> QED BY <2>1, <3>3, <3>4
  <2> QED BY <2>2, <2>3
<1> QED BY <1>1, <1>2, <1>3

\* The line about employers leads with one of the homes of a topic, and says nothing of an
\* employer recorded not to have used it.
Tells(q, ln) ==
  /\ AtHome(q) => ln.lead \in Grounds!Homes(q)
  /\ ln # None => ln.lead \notin ln.absent /\ ln.says \cap ln.absent = {}

\* The employers of a bucket.
LEMMA BucketIs ==
  ASSUME NEW rows, NEW b
  PROVE  /\ Grounds!In(rows, b) \in Seq(Grounds!Names)
         /\ \A x : Stands(x, Grounds!In(rows, b)) => x \in Grounds!Names /\ rows[x] = b
<1>1. Grounds!In(rows, b) = Grounds!Filter(Grounds!EMPLOYERS, {e \in Grounds!Names : rows[e] = b})
  BY DEF Grounds!In
<1>2. Grounds!EMPLOYERS \in Seq(Grounds!Names)
  BY EmployersAre
<1> QED BY <1>1, <1>2, FilterHas

\* A sequence has its first element, and its elements are what stands in it.
LEMMA ElementsStand ==
  ASSUME NEW C, NEW s \in Seq(C)
  PROVE  /\ \A x : x \in Grounds!ToSet(s) <=> Stands(x, s)
         /\ s # <<>> => 1 \in 1..Len(s) /\ Stands(s[1], s)
<1>1. DOMAIN s = 1..Len(s) /\ Len(s) \in Nat
  OBVIOUS
<1>2. \A x : x \in Grounds!ToSet(s) <=> Stands(x, s)
  BY <1>1 DEF Grounds!ToSet, Stands
<1>3. s # <<>> => 1 \in 1..Len(s)
  OBVIOUS
<1> QED BY <1>2, <1>3 DEF Stands

\* It leads with the best of what the matrix records.
LEMMA LineTells == ASSUME NEW q PROVE Tells(q, Grounds!Line(q))
<1> DEFINE H == Grounds!In(q.rows, "HANDS_ON")
           U == Grounds!In(q.rows, "USED")
           S == Grounds!In(q.rows, "SYSTEM")
           N == Grounds!In(q.rows, "NOT_USED")
           ln == Grounds!Line(q)
<1>1. /\ H \in Seq(Grounds!Names) /\ \A x : Stands(x, H) => q.rows[x] = "HANDS_ON"
      /\ U \in Seq(Grounds!Names) /\ \A x : Stands(x, U) => q.rows[x] = "USED"
      /\ S \in Seq(Grounds!Names) /\ \A x : Stands(x, S) => q.rows[x] = "SYSTEM"
      /\ N \in Seq(Grounds!Names) /\ \A x : Stands(x, N) => q.rows[x] = "NOT_USED" /\ x \in Grounds!Names
  BY BucketIs
<1>2. PICK leads : leads = H \o U \o S
  OBVIOUS
<1>3. PICK absent : absent = Grounds!ToSet(N)
  OBVIOUS
<1>4. ln = IF ~Grounds!Policy(q) THEN None
           ELSE [says   |-> Grounds!ToSet(leads),
                 lead   |-> IF q.named # {} \/ q.wide \/ leads = <<>> THEN None ELSE leads[1],
                 absent |-> absent,
                 deny   |-> q.named \cap absent # {}]
  BY <1>2, <1>3 DEF Grounds!Line
<1>5. Grounds!Homes(q) = Grounds!ToSet(IF H # <<>> THEN H ELSE U)
  BY DEF Grounds!Homes
<1> HIDE DEF H, U, S, N, ln
<1>6. /\ leads \in Seq(Grounds!Names)
      /\ \A x : Stands(x, leads) => Stands(x, H) \/ Stands(x, U) \/ Stands(x, S)
  <2>1. PICK a : a = H \o U
    OBVIOUS
  <2>2. a \in Seq(Grounds!Names) /\ \A x : Stands(x, a) <=> Stands(x, H) \/ Stands(x, U)
    BY <1>1, <2>1, BothStand, JoinedAre
  <2>3. leads = a \o S
    BY <1>2, <2>1
  <2>4. leads \in Seq(Grounds!Names) /\ \A x : Stands(x, leads) <=> Stands(x, a) \/ Stands(x, S)
    BY <1>1, <2>2, <2>3, BothStand, JoinedAre
  <2> QED BY <2>2, <2>4
<1>7. absent \subseteq Grounds!Names /\ \A x \in absent : q.rows[x] = "NOT_USED"
  BY <1>1, <1>3, ElementsStand
<1>8. \A x : Stands(x, leads) => q.rows[x] # "NOT_USED"
  BY <1>1, <1>6
<1>9. Grounds!ToSet(leads) \cap absent = {}
  BY <1>6, <1>7, <1>8, ElementsStand
<1>10. leads # <<>> => Stands(leads[1], leads)
  BY <1>6, ElementsStand
<1>11. None \notin absent
  BY <1>7, EmployersAre
<1>12. ASSUME ln # None PROVE ln.lead \notin ln.absent /\ ln.says \cap ln.absent = {}
  <2>1. PICK l : l = IF q.named # {} \/ q.wide \/ leads = <<>> THEN None ELSE leads[1]
    OBVIOUS
  <2>2. ln.lead = l /\ ln.absent = absent /\ ln.says = Grounds!ToSet(leads)
    BY <1>4, <1>12, <2>1
  <2>3. l \notin absent
    BY <1>7, <1>8, <1>10, <1>11, <2>1
  <2> QED BY <1>9, <2>2, <2>3
<1>13. ASSUME AtHome(q) PROVE ln.lead \in Grounds!Homes(q)
  <2>1. Grounds!Policy(q) /\ Grounds!Homes(q) # {} /\ q.named = {} /\ ~q.wide
    BY <1>13 DEF AtHome
  <2>2. PICK best \in Seq(Grounds!Names) : best = IF H # <<>> THEN H ELSE U
    BY <1>1
  <2>3. best # <<>> /\ Stands(best[1], best) /\ best[1] \in Grounds!Homes(q)
    <3>1. \E x : Stands(x, best)
      BY <1>5, <2>1, <2>2, ElementsStand
    <3>2. best # <<>>
      BY <3>1 DEF Stands
    <3> QED BY <1>5, <2>2, <3>2, ElementsStand
  <2>4. leads # <<>> /\ leads[1] = best[1]
    <3>1. PICK a : a = H \o U
      OBVIOUS
    <3>2. a \in Seq(Grounds!Names) /\ 1 \in 1..Len(a) /\ a[1] = best[1]
      <4>1. CASE H # <<>>
        <5>1. best = H /\ 1 \in 1..Len(H)
          BY <1>1, <2>2, <4>1
        <5>2. a \in Seq(Grounds!Names) /\ Len(a) = Len(H) + Len(U) /\ \A j \in 1..Len(H) : a[j] = H[j]
          BY <1>1, <3>1, JoinedAre
        <5>3. 1 \in 1..Len(a)
          BY <1>1, <5>1, <5>2
        <5> QED BY <5>1, <5>2, <5>3
      <4>2. CASE H = <<>>
        <5>1. best = U /\ a = U
          BY <1>1, <2>2, <3>1, <4>2
        <5> QED BY <1>1, <2>3, <5>1
      <4> QED BY <4>1, <4>2
    <3>3. leads = a \o S
      BY <1>2, <3>1
    <3>4. Len(leads) = Len(a) + Len(S) /\ \A j \in 1..Len(a) : leads[j] = a[j]
      BY <1>1, <3>2, <3>3, JoinedAre
    <3>5. leads[1] = best[1]
      BY <3>2, <3>4
    <3>6. Len(leads) # 0
      <4>1. PICK m \in Nat, n \in Nat : m = Len(a) /\ n = Len(S) /\ 1 \in 1..m
        BY <1>1, <3>2
      <4>2. m + n # 0
        BY <4>1
      <4> QED BY <3>4, <4>1, <4>2
    <3>7. leads # <<>>
      <4>1. Len(<<>>) = 0
        OBVIOUS
      <4> QED BY <3>6, <4>1
    <3> QED BY <3>5, <3>7
  <2>5. ln.lead = leads[1]
    BY <1>4, <2>1, <2>4
  <2> QED BY <2>3, <2>4, <2>5
<1> QED BY <1>12, <1>13 DEF Tells, ln

\* What is shown and said for a question is fair.
Fair(q, r, h, ln) ==
  /\ PlacesIn(r, Grounds!InScope(q, r)) /\ Fits(q, r, h) /\ HomesAlone(q, r, h) /\ Tells(q, ln)
  /\ ~q.frontend => NamedFirst(q, r, h) /\ \E x : Stands(x, h) /\ r[x].near
  /\ EachShown(q, r, h)

\* Nothing is ranked before a question, and what is shown for one is fair.
GroundInv ==
  /\ ground_outcome = None => ground_ranked = <<>>
  /\ ground_outcome = "asked" => Fair(ground_question, ground_ranked, ground_hits, ground_line)

\* With the brief about the front end, what is near of the chunks is what is shown.
LEMMA NearFits ==
  ASSUME NEW q, NEW r, Ranked(r), NEW p, Fits(q, r, p)
  PROVE  LET h == Grounds!Near(p, r) IN
         /\ Fits(q, r, h)
         /\ HomesAlone(q, r, p) => HomesAlone(q, r, h)
         /\ EachShown(q, r, p) => EachShown(q, r, h)
         /\ h # <<>> => \E x : Stands(x, p) /\ r[x].near
<1>1. PICK h : h = Grounds!Near(p, r)
  OBVIOUS
<1>2. /\ p \in Seq(1..Len(r)) /\ Apart(p) /\ Len(p) <= TopK /\ Len(p) \in Nat
      /\ \A x : Stands(x, p) => Stands(x, Grounds!InScope(q, r))
  BY DEF Fits
<1>3. /\ h \in Seq(1..Len(r)) /\ Len(h) <= Len(p)
      /\ \A x : Stands(x, h) <=> x \in Grounds!NearIn(r) /\ Stands(x, p)
  BY <1>1, <1>2, FilterHas DEF Grounds!Near
<1>4. Apart(h)
  BY <1>1, <1>2, FilterHas DEF Grounds!Near
<1>5. Len(h) <= TopK
  <2>1. TopK \in Nat /\ Len(h) \in Nat
    BY <1>3, EmployersAre
  <2> QED BY <1>2, <1>3, <2>1
<1>6. Fits(q, r, h)
  BY <1>2, <1>3, <1>4, <1>5 DEF Fits
<1>7. HomesAlone(q, r, p) => HomesAlone(q, r, h)
  BY <1>3 DEF HomesAlone
<1>8. \A x : Stands(x, p) => (x \in Grounds!NearIn(r) <=> r[x].near)
  <2>1. ASSUME NEW x, Stands(x, p) PROVE x \in DOMAIN r
    BY <1>2, <2>1, StandsIn DEF Ranked
  <2> QED BY <2>1 DEF Grounds!NearIn
<1>9. \A e : HasNear(r, p, e) => HasNear(r, h, e)
  BY <1>3, <1>8 DEF HasNear
<1>10. EachShown(q, r, p) => EachShown(q, r, h)
  BY <1>9 DEF EachShown
<1>11. h # <<>> => \E x : Stands(x, p) /\ r[x].near
  BY <1>3, <1>8, ElementsStand
<1> QED BY <1>1, <1>6, <1>7, <1>10, <1>11

\* Neither is a ranking nothing fits to wrong, nor nothing that is shown.
LEMMA NothingFits ==
  ASSUME NEW q
  PROVE  /\ Ranked(<<>>) /\ Fits(q, <<>>, <<>>) /\ HomesAlone(q, <<>>, <<>>)
         /\ EachShown(q, <<>>, <<>>)
<1>1. Ranked(<<>>)
  BY DEF Ranked
<1>2. /\ Len(<<>>) = 0 /\ <<>> \in Seq(1..Len(<<>>)) /\ \A x : ~Stands(x, <<>>)
      /\ Apart(<<>>)
  BY DEF Stands, Apart
<1>3. Fits(q, <<>>, <<>>)
  <2>1. TopK \in Nat
    BY EmployersAre
  <2> QED BY <1>2, <2>1 DEF Fits
<1>4. PICK a : a = Grounds!InScope(q, <<>>)
  OBVIOUS
<1>5. a \in Seq(1..0)
  <2>1. PlacesIn(<<>>, a)
    BY <1>1, <1>4, ScopeIs
  <2> QED BY <1>2, <2>1 DEF PlacesIn
<1>6. \A x : ~Stands(x, a)
  <2>1. ASSUME NEW x, Stands(x, a) PROVE FALSE
    <3>1. x \in 1..0
      BY <1>5, <2>1, StandsIn
    <3> QED BY <3>1
  <2> QED BY <2>1
<1>7. EachShown(q, <<>>, <<>>)
  BY <1>4, <1>6 DEF EachShown, HasNear
<1> QED BY <1>1, <1>2, <1>3, <1>7 DEF HomesAlone

\* A ranking of the model is one.
LEMMA RankingIs == \A r \in Grounds!Rankings : Ranked(r)
<1> SUFFICES ASSUME NEW r \in Grounds!Rankings PROVE Ranked(r)
  OBVIOUS
<1>1. PICK n \in 0..MaxChunks :
        /\ r \in [1..n -> Grounds!Chunks]
        /\ \A i \in 1..n, j \in 1..n : i < j /\ r[j].near => r[i].near
  BY DEF Grounds!Rankings
<1>2. n \in Nat
  BY EmployersAre
<1>3. r \in Seq(Grounds!Chunks) /\ DOMAIN r = 1..n /\ Len(r) = n
  BY <1>1, <1>2
<1> QED BY <1>1, <1>2, <1>3 DEF Ranked

\* What becomes of a question is known.
LEMMA OutcomesAre ==
  /\ None # "asked" /\ None # "ungrounded" /\ None # "empty" /\ None # "no_corpus"
  /\ None # "private_topic"
BY PlatformAssumption DEF Grounds!GroundingAssumption, Grounds!Outcomes

\* Fair to the question, whatever was asked.
LEMMA FairIs == GroundInv => Grounds!ExcerptsAreFair
<1> SUFFICES ASSUME GroundInv, ground_outcome = "asked" PROVE Grounds!ExcerptsAreFair
  BY DEF Grounds!ExcerptsAreFair
<1>1. PICK q, r, h, ln : /\ q = ground_question /\ r = ground_ranked /\ h = ground_hits
                         /\ ln = ground_line
  OBVIOUS
<1>2. Fair(q, r, h, ln)
  BY <1>1 DEF GroundInv
<1>3. PICK a : a = Grounds!InScope(q, r)
  OBVIOUS
<1>4. a \in Seq(1..Len(r)) /\ h \in Seq(1..Len(r)) /\ Apart(h) /\ Len(h) <= TopK
  BY <1>2, <1>3 DEF Fair, Fits, PlacesIn
<1>5. \A x : (x \in Grounds!ToSet(a) <=> Stands(x, a)) /\ (x \in Grounds!ToSet(h) <=> Stands(x, h))
  BY <1>4, ElementsStand
<1>6. Grounds!Shown = Grounds!ToSet(h)
  BY <1>1 DEF Grounds!Shown
<1> DEFINE all == Grounds!ToSet(a)
           shown == Grounds!ToSet(h)
           topic == Grounds!Policy(q) /\ Grounds!Homes(q) # {} /\ q.named = {} /\ ~q.wide
<1> HIDE DEF all, shown
<1>7. topic <=> AtHome(q)
  BY DEF AtHome
<1>8. shown \subseteq all
  BY <1>2, <1>3, <1>5 DEF Fair, Fits, all, shown
<1>9. Grounds!Cardinality(shown) = Len(h)
  <2>1. Cardinality(ToSet(h)) = Len(h)
    BY <1>4, ApartCount
  <2>2. ToSet(h) = shown
    BY DEF shown, ToSet, Grounds!ToSet
  <2>3. Grounds!Cardinality(shown) = Cardinality(shown)
    BY Zenon DEF Cardinality, Grounds!Cardinality
  <2> QED BY <2>1, <2>2, <2>3
<1>10. ~q.frontend => \E i \in shown : r[i].near
  BY <1>2, <1>5 DEF Fair, shown
<1>11. topic => (\A i \in shown : r[i].by \in Grounds!Homes(q)) /\ ln.lead \in Grounds!Homes(q)
  BY <1>2, <1>5, <1>7 DEF Fair, HomesAlone, Tells, shown
<1>12. ln # None => ln.lead \notin ln.absent /\ ln.says \cap ln.absent = {}
  BY <1>2 DEF Fair, Tells
<1>13. q.named # {} /\ ~q.frontend =>
         \A i \in shown, j \in all \ shown : r[j].by \in q.named => r[i].by \in q.named
  BY <1>2, <1>3, <1>5 DEF Fair, NamedFirst, shown, all
<1>14. ~topic /\ q.named = {} /\ q.scope = "career" /\ TopK >= Len(Grounds!EMPLOYERS) =>
         \A e \in Grounds!Names : (\E i \in all : r[i].by = e /\ r[i].near) =>
           \E i \in shown : r[i].by = e
  BY <1>2, <1>3, <1>5, <1>7 DEF Fair, EachShown, HasNear, shown, all
<1> HIDE DEF topic
<1>15. topic <=> Grounds!Policy(q) /\ Grounds!Homes(q) # {} /\ Grounds!Generic
  BY <1>1 DEF topic, Grounds!Generic
<1> QED BY <1>1, <1>3, <1>4, <1>6, <1>8, <1>9, <1>10, <1>11, <1>12, <1>13, <1>14, <1>15
        DEF Grounds!ExcerptsAreFair, Grounds!By, all, shown

\* What the interview shows its model is fair, at every step.
THEOREM GroundInOrder == Spec => []GroundInv
<1>1. Init => GroundInv
  BY OutcomesAre DEF Init, Grounds!Init, GroundInv
<1>2. GroundInv /\ [Next]_vars => GroundInv'
  <2> SUFFICES ASSUME GroundInv, [Next]_vars PROVE GroundInv'
    OBVIOUS
  <2>1. [Grounds!Next]_grounding
    BY DEF Next, vars, grounding
  <2>2. ASSUME NEW q, NEW r \in Grounds!Rankings, Grounds!Ask(q, r) PROVE GroundInv'
    <3>1. PICK p : p = Grounds!Picked(q, r)
      OBVIOUS
    <3>2. PICK h : h = Grounds!Near(p, r)
      OBVIOUS
    <3>3. /\ ground_question' = q /\ ground_ranked' = r
          /\ ground_hits' = IF q.frontend THEN h ELSE p
          /\ (~q.frontend /\ h = <<>>) => ground_outcome' = "ungrounded"
          /\ ~(~q.frontend /\ h = <<>>) => ground_outcome' = "asked" /\ ground_line' = Grounds!Line(q)
      BY <2>2, <3>1, <3>2 DEF Grounds!Ask
    <3>4. Ranked(r)
      BY RankingIs
    <3>5. Fits(q, r, p) /\ HomesAlone(q, r, p) /\ NamedFirst(q, r, p) /\ EachShown(q, r, p)
      BY <3>1, <3>4, PickedFits
    <3>6. /\ Fits(q, r, h) /\ HomesAlone(q, r, h) /\ EachShown(q, r, h)
          /\ h # <<>> => \E x : Stands(x, p) /\ r[x].near
      BY <3>2, <3>4, <3>5, NearFits
    <3>7. PICK g : g = IF q.frontend THEN h ELSE p
      OBVIOUS
    <3>8. ~(~q.frontend /\ h = <<>>) => Fair(q, r, g, Grounds!Line(q))
      BY <3>4, <3>5, <3>6, <3>7, ScopeIs, LineTells DEF Fair
    <3>9. ground_outcome' # None
      BY <3>3, OutcomesAre
    <3>10. ground_outcome' = "asked" => Fair(ground_question', ground_ranked', ground_hits', ground_line')
      <4>1. "ungrounded" # "asked"
        OBVIOUS
      <4> QED BY <3>3, <3>7, <3>8, <4>1
    <3> QED BY <3>9, <3>10 DEF GroundInv
  <2>3. ASSUME NEW q, Grounds!Incomparable(q), ground_outcome = None PROVE GroundInv'
    <3>1. /\ ground_question' = q /\ ground_hits' = <<>> /\ ground_ranked' = ground_ranked
          /\ q.frontend => ground_outcome' = "asked" /\ ground_line' = Grounds!Line(q)
          /\ ~q.frontend => ground_outcome' = "ungrounded"
      BY <2>3 DEF Grounds!Incomparable
    <3>2. ground_ranked' = <<>>
      BY <2>3, <3>1 DEF GroundInv
    <3>3. q.frontend => Fair(q, <<>>, <<>>, Grounds!Line(q))
      BY NothingFits, ScopeIs, LineTells DEF Fair
    <3>4. ground_outcome' # None
      BY <3>1, OutcomesAre
    <3>5. ground_outcome' = "asked" => Fair(ground_question', ground_ranked', ground_hits', ground_line')
      <4>1. "ungrounded" # "asked"
        OBVIOUS
      <4> QED BY <3>1, <3>2, <3>3, <4>1
    <3> QED BY <3>4, <3>5 DEF GroundInv
  <2>4. CASE Grounds!TurnAway
    BY <2>4, OutcomesAre DEF Grounds!TurnAway, GroundInv
  <2>5. CASE UNCHANGED grounding
    BY <2>5 DEF grounding, GroundInv
  <2> QED BY <2>1, <2>2, <2>3, <2>4, <2>5 DEF Grounds!Next
<1> QED BY <1>1, <1>2, PTL DEF Spec

\* Which excerpts of the books an answer is made from, and what is said of employers, is
\* fair to the question (standing_interview.retrieve, _balance_by_employer,
\* attribution_line).
THEOREM ExcerptsStayFair == Spec => []ExcerptsAreFair
BY GroundInOrder, FairIs, PTL DEF ExcerptsAreFair
=============================================================================
