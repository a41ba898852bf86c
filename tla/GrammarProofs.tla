--------------------------- MODULE GrammarProofs ---------------------------
(***************************************************************************)
(* Theorems about Grammar.                                                 *)
(***************************************************************************)
EXTENDS Grammar, EnumerationProofs

TextOK == Len(text) \in Nat

(* What the parsing expressions are at a place.                            *)
LEMMA Values ==
  ASSUME NEW i \in Places, NEW a, NEW b
  PROVE  /\ (a | b)[i] = IF a[i].end = 0 THEN b[i] ELSE a[i]
         /\ (a & b)[i] = IF a[i].end > 0 THEN a[i] ++ b[a[i].end] ELSE a[i]
         /\ Not(a)[i] = IF a[i].end = 0 THEN At(i) ELSE IF a[i].end > 0 THEN Failed ELSE a[i]
         /\ \A t : Tag(t, a)[i].end = a[i].end
         /\ Piece[i] = IF i <= Len(text) THEN At(i + 1) ELSE Failed
         /\ Empty[i] = At(i)
         /\ \A p : Lit(p)[i] = IF ReadsAt(p, i) THEN At(i + Len(p)) ELSE Failed
<1>1. \A t : Tag(t, a)[i].end = a[i].end
  BY DEF Tag
<1> QED
  BY <1>1 DEF |, &, Not, Piece, Empty, Lit

LEMMA Ends ==
  /\ \A m, n : (m ++ n).end = n.end
  /\ \A i : At(i).end = i
  /\ Failed.end = 0 /\ Unknown.end = -1
  BY DEF ++, At, Failed, Unknown

(* A stretch of places ends at the first that is not among them.           *)
LEMMA StretchEnds ==
  ASSUME TextOK, NEW S \in SUBSET (1 .. Len(text)), NEW i \in Places
  PROVE  /\ Stretch(i, S) \in i .. Len(text)+1
         /\ Stretch(i, S) \notin S
         /\ i .. Stretch(i, S)-1 \subseteq S
<1> DEFINE T == {j \in i .. Len(text)+1 : j \notin S}
<1>1. Len(text)+1 \in T /\ T \in SUBSET Nat
  BY DEF TextOK, Places
<1>2. PICK j \in T : \A k \in T : j <= k
  BY <1>1, LeastOf
<1>3. j \in i .. Len(text)+1 /\ j \notin S /\ i .. j-1 \subseteq S
  BY <1>1, <1>2 DEF TextOK, Places
<1> QED
  BY <1>3 DEF Stretch

(* Repetition, as the equation that defines it: a place depends only on    *)
(* those after it.                                                         *)
Goes(a, v, low) ==
  \A i \in low .. Len(text)+1 :
    v[i] = IF a[i].end \in i+1 .. Len(text)+1 THEN a[i] ++ v[a[i].end]
           ELSE IF a[i].end < 0 THEN a[i] ELSE At(i)
LEMMA GoesOn ==
  ASSUME TextOK, NEW a
  PROVE  \E v : v = [i \in Places |-> v[i]] /\ Goes(a, v, 1)
<1> DEFINE n == Len(text)+1
           Has(l) == \E v : v = [i \in Places |-> v[i]] /\ Goes(a, v, l)
           T == {d \in 0 .. n : ~Has(n+1-d)}
<1>0. n \in Nat /\ Places = 1 .. n
  BY DEF TextOK, Places
<1>1. ASSUME T # {} PROVE FALSE
  <2>1. T \in SUBSET Nat
    OBVIOUS
  <2>2. PICK d \in T : \A e \in T : d <= e
    BY <1>1, <2>1, LeastOf
  <2>3. d # 0
    <3>1. n+1-0 .. Len(text)+1 = {}
      BY <1>0
    <3>2. Goes(a, [i \in Places |-> 0], n+1-0)
      BY <3>1 DEF Goes
    <3>3. [i \in Places |-> 0] = [i \in Places |-> [j \in Places |-> 0][i]]
      OBVIOUS
    <3>4. Has(n+1-0)
      BY <3>2, <3>3
    <3> QED
      BY <3>4
  <2>4. d-1 \in 0 .. n /\ d-1 \notin T /\ d \in 1 .. n
    BY <1>0, <2>2, <2>3
  <2> DEFINE l == n+1-d
  <2>5. l \in 1 .. n /\ n+1-(d-1) = l+1 /\ l \in Places
    BY <1>0, <2>4
  <2>6. Has(l+1)
    BY <2>4, <2>5
  <2> HIDE DEF l, n
  <2>7. PICK v : v = [i \in Places |-> v[i]] /\ Goes(a, v, l+1)
    BY <2>6
  <2> DEFINE x == IF a[l].end \in l+1 .. Len(text)+1 THEN a[l] ++ v[a[l].end]
                  ELSE IF a[l].end < 0 THEN a[l] ELSE At(l)
             w == [v EXCEPT ![l] = x]
  <2>8. /\ w[l] = x /\ \A i \in Places : i # l => w[i] = v[i]
        /\ w = [i \in Places |-> w[i]]
    BY <2>5, <2>7
  <2> HIDE DEF w
  <2>9. Goes(a, w, l)
    <3>1. SUFFICES ASSUME NEW i \in l .. Len(text)+1
                   PROVE  w[i] = IF a[i].end \in i+1 .. Len(text)+1 THEN a[i] ++ w[a[i].end]
                                 ELSE IF a[i].end < 0 THEN a[i] ELSE At(i)
      BY DEF Goes
    <3>2. i \in Places /\ \A k \in i+1 .. Len(text)+1 : k \in Places /\ k # l
      BY <1>0, <2>5 DEF n
    <3>3. CASE i = l
      BY <2>8, <3>2, <3>3
    <3>4. CASE i # l
      <4>1. i \in l+1 .. Len(text)+1
        BY <1>0, <2>5, <3>4 DEF n
      <4>2. v[i] = IF a[i].end \in i+1 .. Len(text)+1 THEN a[i] ++ v[a[i].end]
                   ELSE IF a[i].end < 0 THEN a[i] ELSE At(i)
        BY <2>7, <4>1 DEF Goes
      <4> QED
        BY <2>8, <3>2, <3>4, <4>2
    <3> QED
      BY <3>3, <3>4
  <2>10. Has(l)
    BY <2>8, <2>9
  <2> QED
    BY <2>2, <2>10 DEF l
<1>2. n \notin T /\ n \in 0 .. n /\ n+1-n = 1
  BY <1>0, <1>1
<1>3. Has(n+1-n)
  BY <1>2
<1> HIDE DEF n
<1> QED
  BY <1>2, <1>3
LEMMA ManyIs ==
  ASSUME TextOK, NEW a, NEW i \in Places
  PROVE  Many(a)[i] = IF a[i].end \in i+1 .. Len(text)+1 THEN a[i] ++ Many(a)[a[i].end]
                      ELSE IF a[i].end < 0 THEN a[i] ELSE At(i)
<1> DEFINE F(v) == [j \in Places |->
                      IF a[j].end \in j+1 .. Len(text)+1 THEN a[j] ++ v[a[j].end]
                      ELSE IF a[j].end < 0 THEN a[j] ELSE At(j)]
           from == CHOOSE v : v = F(v)
<1>1. PICK v : v = [j \in Places |-> v[j]] /\ Goes(a, v, 1)
  BY GoesOn
<1>2. v = F(v)
  BY <1>1 DEF Goes, Places
<1>3. from = F(from)
  BY <1>2
<1>4. Many(a) = from
  BY DEF Many
<1> HIDE DEF from
<1>5. from[i] = F(from)[i]
  BY <1>3
<1> QED
  BY <1>4, <1>5
-----------------------------------------------------------------------------
(* From a place on, an expression answers when it always says whether it   *)
(* matches, with an end that is neither before the place nor outside of    *)
(* the file; it reads when moreover no match is empty.                     *)
Answers(e, i) == \A j \in i .. Len(text)+1 : e[j].end = 0 \/ e[j].end \in j .. Len(text)+1
Reads(e, i) == \A j \in i .. Len(text)+1 : e[j].end = 0 \/ e[j].end \in j+1 .. Len(text)+1

LEMMA ReadsAnswers ==
  ASSUME TextOK, NEW i \in Nat \ {0}, NEW e, Reads(e, i)
  PROVE  Answers(e, i)
BY DEF Reads, Answers, TextOK

LEMMA AnswersLater ==
  ASSUME TextOK, NEW i \in Nat \ {0}, NEW e, Answers(e, i)
  PROVE  Answers(e, i+1)
BY DEF Answers, TextOK

LEMMA ChoiceAnswers ==
  ASSUME TextOK, NEW i \in Nat \ {0}, NEW a, NEW b, Answers(a, i), Answers(b, i)
  PROVE  Answers(a | b, i)
<1> SUFFICES ASSUME NEW j \in i .. Len(text)+1
             PROVE  (a | b)[j].end = 0 \/ (a | b)[j].end \in j .. Len(text)+1
  BY DEF Answers
<1>1. j \in Places
  BY DEF Places, TextOK
<1>2. (a | b)[j] = IF a[j].end = 0 THEN b[j] ELSE a[j]
  BY <1>1, Values
<1> QED
  BY <1>2 DEF Answers, TextOK
LEMMA ChoiceReads ==
  ASSUME TextOK, NEW i \in Nat \ {0}, NEW a, NEW b, Reads(a, i), Reads(b, i)
  PROVE  Reads(a | b, i)
<1> SUFFICES ASSUME NEW j \in i .. Len(text)+1
             PROVE  (a | b)[j].end = 0 \/ (a | b)[j].end \in j+1 .. Len(text)+1
  BY DEF Reads
<1>1. j \in Places
  BY DEF Places, TextOK
<1>2. (a | b)[j] = IF a[j].end = 0 THEN b[j] ELSE a[j]
  BY <1>1, Values
<1> QED
  BY <1>2 DEF Reads, TextOK

LEMMA ThenEnd ==
  ASSUME NEW j \in Places, NEW a, NEW b
  PROVE  (a & b)[j].end = IF a[j].end > 0 THEN b[a[j].end].end ELSE a[j].end
<1>1. (a & b)[j] = IF a[j].end > 0 THEN a[j] ++ b[a[j].end] ELSE a[j]
  BY Values
<1> QED
  BY <1>1, Ends
LEMMA ThenAnswers ==
  ASSUME TextOK, NEW i \in Nat \ {0}, NEW a, NEW b, Answers(a, i), Answers(b, i)
  PROVE  Answers(a & b, i)
<1> SUFFICES ASSUME NEW j \in i .. Len(text)+1
             PROVE  (a & b)[j].end = 0 \/ (a & b)[j].end \in j .. Len(text)+1
  BY DEF Answers
<1>1. j \in Places
  BY DEF Places, TextOK
<1>2. (a & b)[j].end = IF a[j].end > 0 THEN b[a[j].end].end ELSE a[j].end
  BY <1>1, ThenEnd
<1> QED
  BY <1>2 DEF Answers, TextOK
LEMMA ThenReads ==
  ASSUME TextOK, NEW i \in Nat \ {0}, NEW a, NEW b, Reads(a, i), Answers(b, i+1)
  PROVE  Reads(a & b, i)
<1> SUFFICES ASSUME NEW j \in i .. Len(text)+1
             PROVE  (a & b)[j].end = 0 \/ (a & b)[j].end \in j+1 .. Len(text)+1
  BY DEF Reads
<1>1. j \in Places
  BY DEF Places, TextOK
<1>2. (a & b)[j].end = IF a[j].end > 0 THEN b[a[j].end].end ELSE a[j].end
  BY <1>1, ThenEnd
<1> QED
  BY <1>2 DEF Answers, Reads, TextOK
LEMMA ThenReadsLast ==
  ASSUME TextOK, NEW i \in Nat \ {0}, NEW a, NEW b, Answers(a, i), Reads(b, i)
  PROVE  Reads(a & b, i)
<1> SUFFICES ASSUME NEW j \in i .. Len(text)+1
             PROVE  (a & b)[j].end = 0 \/ (a & b)[j].end \in j+1 .. Len(text)+1
  BY DEF Reads
<1>1. j \in Places
  BY DEF Places, TextOK
<1>2. (a & b)[j].end = IF a[j].end > 0 THEN b[a[j].end].end ELSE a[j].end
  BY <1>1, ThenEnd
<1> QED
  BY <1>2 DEF Answers, Reads, TextOK

LEMMA NotAnswers ==
  ASSUME TextOK, NEW i \in Nat \ {0}, NEW a, Answers(a, i)
  PROVE  Answers(Not(a), i)
<1> SUFFICES ASSUME NEW j \in i .. Len(text)+1
             PROVE  Not(a)[j].end = 0 \/ Not(a)[j].end \in j .. Len(text)+1
  BY DEF Answers
<1>1. j \in Places
  BY DEF Places, TextOK
<1>2. Not(a)[j] = IF a[j].end = 0 THEN At(j) ELSE IF a[j].end > 0 THEN Failed ELSE a[j]
  BY <1>1, Values
<1> QED
  BY <1>2, Ends DEF Answers, TextOK

LEMMA TagAnswers ==
  ASSUME TextOK, NEW i \in Nat \ {0}, NEW a, NEW t
  PROVE  /\ Answers(a, i) => Answers(Tag(t, a), i)
         /\ Reads(a, i) => Reads(Tag(t, a), i)
<1>1. ASSUME NEW j \in i .. Len(text)+1 PROVE Tag(t, a)[j].end = a[j].end
  <2>1. j \in Places
    BY DEF Places, TextOK
  <2> QED
    BY <2>1, Values
<1> QED
  BY <1>1 DEF Answers, Reads

(* A repetition ends, as it goes on only after it has read something.      *)
LEMMA ManyAnswers ==
  ASSUME TextOK, NEW i \in Nat \ {0}, NEW a, Answers(a, i)
  PROVE  Answers(Many(a), i)
<1> DEFINE n == Len(text)+1
           T == {d \in 0 .. n : n-d >= i /\ ~(Many(a)[n-d].end \in n-d .. n)}
<1>1. ASSUME T # {} PROVE FALSE
  <2>1. T \in SUBSET Nat
    OBVIOUS
  <2>2. PICK d \in T : \A e \in T : d <= e
    BY <1>1, <2>1, LeastOf
  <2> DEFINE j == n-d
  <2>3. j \in Places /\ j >= i /\ j \in Nat /\ j <= n
    BY DEF Places, TextOK
  <2>4. \A k \in j+1 .. n : Many(a)[k].end \in k .. n
    <3> SUFFICES ASSUME NEW k \in j+1 .. n PROVE Many(a)[k].end \in k .. n
      OBVIOUS
    <3>1. n-k \in 0 .. n /\ n-k < d /\ n-(n-k) = k /\ k >= i
      BY <2>3 DEF TextOK
    <3> QED
      BY <2>2, <3>1
  <2>5. Many(a)[j] = IF a[j].end \in j+1 .. Len(text)+1 THEN a[j] ++ Many(a)[a[j].end]
                     ELSE IF a[j].end < 0 THEN a[j] ELSE At(j)
    BY <2>3, ManyIs
  <2>6. a[j].end = 0 \/ a[j].end \in j .. n
    BY <2>3 DEF Answers
  <2>7. CASE a[j].end \in j+1 .. n
    <3>1. Many(a)[j].end = Many(a)[a[j].end].end
      BY <2>5, <2>7, Ends
    <3> QED
      BY <2>3, <2>4, <2>7, <3>1 DEF TextOK
  <2>8. CASE a[j].end \notin j+1 .. n
    <3>1. Many(a)[j] = At(j)
      BY <2>3, <2>5, <2>6, <2>8 DEF TextOK
    <3> QED
      BY <2>3, <3>1, Ends
  <2> QED
    BY <2>7, <2>8
<1>2. SUFFICES ASSUME NEW j \in i .. Len(text)+1
               PROVE  Many(a)[j].end \in j .. Len(text)+1
  BY DEF Answers
<1>3. n-j \in 0 .. n /\ n-(n-j) = j /\ j >= i
  BY DEF TextOK
<1> QED
  BY <1>1, <1>3
-----------------------------------------------------------------------------
LEMMA BlanksAnswers ==
  ASSUME TextOK, NEW i \in Nat \ {0}
  PROVE  Answers(Blanks, i)
<1> SUFFICES ASSUME NEW j \in i .. Len(text)+1
             PROVE  Blanks[j].end \in j .. Len(text)+1
  BY DEF Answers
<1> DEFINE S == {k \in DOMAIN text : text[k] = Blank}
<1>1. j \in Places /\ DOMAIN text = 1 .. Len(text)
  BY DEF Places, TextOK
<1>2. Stretch(j, S) \in j .. Len(text)+1
  BY <1>1, StretchEnds
<1>3. Blanks[j] = At(Stretch(j, S))
  BY <1>1 DEF Blanks
<1> QED
  BY <1>2, <1>3, Ends
LEMMA EmptyAnswers ==
  ASSUME TextOK, NEW i \in Nat \ {0}
  PROVE  Answers(Empty, i)
<1> SUFFICES ASSUME NEW j \in i .. Len(text)+1
             PROVE  Empty[j].end \in j .. Len(text)+1
  BY DEF Answers
<1>1. j \in Places
  BY DEF Places, TextOK
<1> QED
  BY <1>1, Values, Ends
LEMMA PieceReads ==
  ASSUME TextOK, NEW i \in Nat \ {0}
  PROVE  Reads(Piece, i)
<1> SUFFICES ASSUME NEW j \in i .. Len(text)+1
             PROVE  Piece[j].end = 0 \/ Piece[j].end \in j+1 .. Len(text)+1
  BY DEF Reads
<1>1. j \in Places
  BY DEF Places, TextOK
<1>2. Piece[j] = IF j <= Len(text) THEN At(j + 1) ELSE Failed
  BY <1>1, Values
<1> QED
  BY <1>2, Ends DEF TextOK

(* Names and numbers are not empty.                                        *)
LEMMA StretchReads ==
  ASSUME TextOK, NEW S \in SUBSET (1 .. Len(text)), NEW j \in Places, j \in S
  PROVE  Stretch(j, S) \in j+1 .. Len(text)+1
BY StretchEnds DEF Places, TextOK
LEMMA IDENTReads ==
  ASSUME TextOK, NEW i \in Nat \ {0}
  PROVE  Reads(IDENT, i)
<1> SUFFICES ASSUME NEW j \in i .. Len(text)+1
             PROVE  IDENT[j].end = 0 \/ IDENT[j].end \in j+1 .. Len(text)+1
  BY DEF Reads
<1> DEFINE S == {k \in DOMAIN text : InWord(text[k])}
<1>1. j \in Places /\ DOMAIN text = 1 .. Len(text)
  BY DEF Places, TextOK
<1>2. CASE j <= Len(text) /\ IsWordPiece(text[j])
  <2>1. j \in S
    BY <1>1, <1>2 DEF InWord, Places
  <2>2. Stretch(j, S) \in j+1 .. Len(text)+1
    BY <1>1, <2>1, StretchReads
  <2>3. IDENT[j] = At(Stretch(j, S))
    BY <1>1, <1>2 DEF IDENT
  <2> QED
    BY <2>2, <2>3, Ends
<1>3. CASE ~(j <= Len(text) /\ IsWordPiece(text[j]))
  BY <1>1, <1>3, Ends DEF IDENT
<1> QED
  BY <1>2, <1>3
LEMMA INTNUMReads ==
  ASSUME TextOK, NEW i \in Nat \ {0}
  PROVE  Reads(INTNUM, i)
<1> SUFFICES ASSUME NEW j \in i .. Len(text)+1
             PROVE  INTNUM[j].end = 0 \/ INTNUM[j].end \in j+1 .. Len(text)+1
  BY DEF Reads
<1> DEFINE S == {k \in DOMAIN text : text[k] \in Digits}
<1>1. j \in Places /\ DOMAIN text = 1 .. Len(text)
  BY DEF Places, TextOK
<1>2. CASE j <= Len(text) /\ text[j] \in Digits
  <2>1. j \in S
    BY <1>1, <1>2 DEF Places
  <2>2. Stretch(j, S) \in j+1 .. Len(text)+1
    BY <1>1, <2>1, StretchReads
  <2>3. INTNUM[j] = At(Stretch(j, S))
    BY <1>1, <1>2 DEF INTNUM
  <2> QED
    BY <2>2, <2>3, Ends
<1>3. CASE ~(j <= Len(text) /\ text[j] \in Digits)
  BY <1>1, <1>3, Ends DEF INTNUM
<1> QED
  BY <1>2, <1>3

(* Literals that are not empty.                                            *)
LEMMA LitReads ==
  ASSUME TextOK, NEW i \in Nat \ {0}, NEW pieces, Len(pieces) \in Nat \ {0}
  PROVE  Reads(Lit(pieces), i)
<1> SUFFICES ASSUME NEW j \in i .. Len(text)+1
             PROVE  \/ Lit(pieces)[j].end = 0
                    \/ Lit(pieces)[j].end \in j+1 .. Len(text)+1
  BY DEF Reads
<1>1. j \in Places
  BY DEF Places, TextOK
<1>2. Lit(pieces)[j] = IF ReadsAt(pieces, j) THEN At(j + Len(pieces)) ELSE Failed
  BY <1>1, Values
<1>3. ReadsAt(pieces, j) => j + Len(pieces) <= Len(text)+1
  BY DEF ReadsAt
<1> QED
  BY <1>2, <1>3, Ends DEF TextOK
LEMMA WordReads ==
  ASSUME TextOK, NEW i \in Nat \ {0}, NEW p
  PROVE  Reads(Word(p), i)
<1>1. Len(<<p>>) = 1
  OBVIOUS
<1> QED
  BY <1>1, LitReads DEF Word
LEMMA OperatorsReads ==
  ASSUME TextOK, NEW i \in Nat \ {0}, NEW ops, NEW n \in Nat, DOMAIN ops = 1 .. n,
         \A k \in DOMAIN ops : Len(ops[k]) \in Nat \ {0}
  PROVE  Reads(Operators(ops), i)
<1> SUFFICES ASSUME NEW j \in i .. Len(text)+1
             PROVE  \/ Operators(ops)[j].end = 0
                    \/ Operators(ops)[j].end \in j+1 .. Len(text)+1
  BY DEF Reads
<1> DEFINE matching == {k \in DOMAIN ops : ReadsAt(ops[k], j)}
           first == CHOOSE k \in matching : \A l \in matching : k <= l
<1>1. j \in Places
  BY DEF Places, TextOK
<1>2. Operators(ops)[j] = IF matching = {} THEN Failed ELSE At(j + Len(ops[first]))
  BY <1>1 DEF Operators
<1>3. CASE matching = {}
  BY <1>2, <1>3, Ends
<1>4. CASE matching # {}
  <2>1. matching \in SUBSET Nat
    OBVIOUS
  <2>2. \E k \in matching : \A l \in matching : k <= l
    BY <1>4, <2>1, LeastOf
  <2>3. first \in matching
    BY <2>2
  <2> HIDE DEF first
  <2>4. j + Len(ops[first]) <= Len(text)+1 /\ Len(ops[first]) \in Nat \ {0}
    BY <2>3 DEF ReadsAt
  <2> HIDE DEF matching
  <2>5. Operators(ops)[j].end = j + Len(ops[first])
    BY <1>2, <1>4, Ends
  <2> QED
    BY <2>4, <2>5 DEF TextOK
<1> QED
  BY <1>3, <1>4
-----------------------------------------------------------------------------
(* What holds of expressions by the way they are put together.             *)
Laws(i) ==
  /\ \A a : Reads(a, i) => Answers(a, i)
  /\ \A a, b : Reads(a, i) /\ Reads(b, i) => Reads(a | b, i)
  /\ \A a, b : Answers(a, i) /\ Answers(b, i) => Answers(a | b, i)
  /\ \A a, b : Reads(a, i) /\ Answers(b, i+1) => Reads(a & b, i)
  /\ \A a, b : Reads(a, i) /\ Answers(b, i+1) => Reads(a && b, i)
  /\ \A a, b : Answers(a, i) /\ Reads(b, i) => Reads(a & b, i)
  /\ \A a, b : Answers(a, i) /\ Answers(b, i) => Answers(a & b, i)
  /\ \A a, b : Answers(a, i) /\ Answers(b, i) => Answers(a && b, i)
  /\ \A t, a : Reads(a, i) => Reads(Tag(t, a), i)
  /\ \A t, a : Answers(a, i) => Answers(Tag(t, a), i)
  /\ \A a : Answers(a, i) => Answers(Not(a), i)
  /\ \A a : Answers(a, i) => Answers(And(a), i)
  /\ \A a : Answers(a, i) => Answers(Opt(a), i)
  /\ \A a : Reads(a, i) => Reads(Padded(a), i)
  /\ \A a : Answers(a, i) => Answers(Padded(a), i)
  /\ \A a : Answers(a, i) => Answers(Many(a), i)
  /\ \A a : Answers(a, i) => Answers(Each(a), i)
  /\ \A a : Reads(a, i) => Reads(List(a), i)
  /\ \A a : Answers(a, i) => Answers(List(a), i)
LEMMA LawsHold ==
  ASSUME TextOK, NEW i \in Nat \ {0}
  PROVE  Laws(i)
<1>1. Answers(Blanks, i) /\ Answers(Blanks, i+1) /\ Answers(Empty, i)
  BY BlanksAnswers, EmptyAnswers
<1>2. /\ \A a : Reads(a, i) => Answers(a, i)
      /\ \A a : Answers(a, i) => Answers(a, i+1)
  BY ReadsAnswers, AnswersLater
<1>3. /\ \A a, b : Reads(a, i) /\ Reads(b, i) => Reads(a | b, i)
      /\ \A a, b : Answers(a, i) /\ Answers(b, i) => Answers(a | b, i)
  BY ChoiceReads, ChoiceAnswers
<1>4. /\ \A a, b : Answers(a, i) /\ Answers(b, i) => Answers(a & b, i)
      /\ \A a, b : Answers(a, i+1) /\ Answers(b, i+1) => Answers(a & b, i+1)
  BY ThenAnswers
<1>5. /\ \A a, b : Reads(a, i) /\ Answers(b, i+1) => Reads(a & b, i)
      /\ \A a, b : Answers(a, i) /\ Reads(b, i) => Reads(a & b, i)
  BY ThenReads, ThenReadsLast
<1>6. /\ \A a, b : Answers(a, i) /\ Answers(b, i) => Answers(a && b, i)
      /\ \A a, b : Answers(a, i+1) /\ Answers(b, i+1) => Answers(a && b, i+1)
      /\ \A a, b : Reads(a, i) /\ Answers(b, i+1) => Reads(a && b, i)
  BY <1>1, <1>4, <1>5 DEF &&
<1>7. /\ \A t, a : Reads(a, i) => Reads(Tag(t, a), i)
      /\ \A t, a : Answers(a, i) => Answers(Tag(t, a), i)
  BY TagAnswers
<1>8. /\ \A a : Answers(a, i) => Answers(Not(a), i)
      /\ \A a : Answers(a, i) => Answers(And(a), i)
  BY NotAnswers DEF And
<1>9. \A a : Answers(a, i) => Answers(Opt(a), i)
  BY <1>1, <1>3 DEF Opt
<1>10. /\ \A a : Reads(a, i) => Reads(Padded(a), i)
       /\ \A a : Answers(a, i) => Answers(Padded(a), i)
  BY <1>1, <1>4, <1>5 DEF Padded
<1>11. /\ \A a : Answers(a, i) => Answers(Many(a), i)
       /\ \A a : Answers(a, i+1) => Answers(Many(a), i+1)
  BY ManyAnswers
<1>12. /\ \A a : Answers(a, i) => Answers(Each(a), i)
       /\ \A a : Answers(a, i+1) => Answers(Each(a), i+1)
  BY <1>1, <1>4, <1>11 DEF Each
<1>13. \A a : Reads(a, i) => Reads(List(a), i)
  <2> SUFFICES ASSUME NEW a, Reads(a, i) PROVE Reads(List(a), i)
    OBVIOUS
  <2>1. i+1 \in Nat \ {0} /\ Answers(a, i+1)
    BY <1>2
  <2>2. Answers(Word(","), i+1)
    BY <2>1, WordReads, ReadsAnswers
  <2>3. Answers(Each(Word(",") && a), i+1)
    BY <1>6, <1>12, <2>1, <2>2
  <2> QED
    BY <1>5, <2>3 DEF List
<1>14. \A a : Answers(a, i) => Answers(List(a), i)
  <2>1. Answers(Word(","), i)
    BY WordReads, ReadsAnswers
  <2> QED
    BY <1>4, <1>6, <1>12, <2>1 DEF List
<1> QED
  BY <1>2, <1>3, <1>4, <1>5, <1>6, <1>7, <1>8, <1>9, <1>10, <1>11, <1>12, <1>13, <1>14 DEF Laws

(* The expressions that call no rule read.                                 *)
Atoms(i) ==
  /\ Answers(Blanks, i) /\ Answers(EOF, i)
  /\ Reads(IDENT, i) /\ Reads(INTNUM, i) /\ Reads(Piece, i)
  /\ Reads(Step, i) /\ Reads(UnaryOp, i) /\ Reads(ASSIGNOP, i)
  /\ \A p : Reads(Word(p), i)
  /\ \A p : Reads(Lit(<<p>>), i)
  /\ \A p, q : Reads(Lit(<<p, q>>), i)
  /\ \A p, q, r : Reads(Lit(<<p, q, r>>), i)
LEMMA SimpleTypesAre ==
  DOMAIN SimpleTypes = 1 .. 14 /\ \A k \in 1 .. 14 : Len(SimpleTypes[k]) \in Nat \ {0}
BY DEF SimpleTypes
LEMMA OperatorNamesAre ==
  DOMAIN OperatorNames = 1 .. 28 /\ \A k \in 1 .. 28 : Len(OperatorNames[k]) \in Nat \ {0}
BY DEF OperatorNames
LEMMA UnaryOpsAre ==
  DOMAIN UnaryOps = 1 .. 4 /\ \A k \in 1 .. 4 : Len(UnaryOps[k]) \in Nat \ {0}
BY DEF UnaryOps
LEMMA StepsAre ==
  DOMAIN Steps = 1 .. 2 /\ \A k \in 1 .. 2 : Len(Steps[k]) \in Nat \ {0}
BY DEF Steps
LEMMA AssignOpsAre ==
  DOMAIN AssignOps = 1 .. 11 /\ \A k \in 1 .. 11 : Len(AssignOps[k]) \in Nat \ {0}
BY DEF AssignOps
LEMMA CompareOpsAre ==
  DOMAIN CompareOps = 1 .. 4 /\ \A k \in 1 .. 4 : Len(CompareOps[k]) \in Nat \ {0}
BY DEF CompareOps
LEMMA ConstCompareOpsAre ==
  DOMAIN ConstCompareOps = 1 .. 4 /\ \A k \in 1 .. 4 : Len(ConstCompareOps[k]) \in Nat \ {0}
BY DEF ConstCompareOps
LEMMA AtomsHold ==
  ASSUME TextOK, NEW i \in Nat \ {0}
  PROVE  Atoms(i)
<1>1. /\ \A p : Len(<<p>>) = 1
      /\ \A p, q : Len(<<p, q>>) = 2
      /\ \A p, q, r : Len(<<p, q, r>>) = 3
  OBVIOUS
<1>2. /\ \A p : Reads(Word(p), i)
      /\ \A p : Reads(Lit(<<p>>), i)
      /\ \A p, q : Reads(Lit(<<p, q>>), i)
      /\ \A p, q, r : Reads(Lit(<<p, q, r>>), i)
  BY <1>1, LitReads DEF Word
<1>3. Reads(Piece, i) /\ Answers(EOF, i)
  BY PieceReads, ReadsAnswers, NotAnswers DEF EOF
<1>4. Reads(Step, i)
  BY StepsAre, OperatorsReads DEF Step
<1>5. Reads(UnaryOp, i)
  BY UnaryOpsAre, OperatorsReads DEF UnaryOp
<1>6. Reads(ASSIGNOP, i)
  BY AssignOpsAre, OperatorsReads DEF ASSIGNOP
<1> QED
  BY <1>2, <1>3, <1>4, <1>5, <1>6, BlanksAnswers, IDENTReads, INTNUMReads DEF Atoms
LEMMA BinaryReads ==
  ASSUME TextOK, NEW i \in Nat \ {0}, NEW a, Reads(a, i), NEW ops, NEW n \in Nat,
         DOMAIN ops = 1 .. n, \A k \in 1 .. n : Len(ops[k]) \in Nat \ {0}
  PROVE  Reads(Binary(a, ops), i)
<1>1. i+1 \in Nat \ {0} /\ Answers(a, i+1) /\ Laws(i) /\ Laws(i+1)
  BY LawsHold, ReadsAnswers, AnswersLater
<1>2. Answers(Operators(ops), i+1)
  BY <1>1, OperatorsReads, ReadsAnswers
<1>3. Answers(Each(Operators(ops) && a), i+1)
  BY <1>1, <1>2 DEF Laws
<1> QED
  BY <1>1, <1>3 DEF Laws, Binary
LEMMA LevelsRead ==
  ASSUME TextOK, NEW i \in Nat \ {0}, NEW a, Reads(a, i), NEW ops,
         DOMAIN ops = 1 .. 4, \A k \in 1 .. 4 : Len(ops[k]) \in Nat \ {0}
  PROVE  Reads(LogicalOr(ops, a), i)
<1>1. Reads(Product(a), i)
  <2> DEFINE o == <<<<"*">>, <<"/">>, <<"%">>>>
  <2>1. DOMAIN o = 1 .. 3 /\ \A k \in 1 .. 3 : Len(o[k]) \in Nat \ {0}
    OBVIOUS
  <2> HIDE DEF o
  <2>2. Reads(Binary(a, o), i)
    BY <2>1, BinaryReads
  <2> QED
    BY <2>2 DEF Product, o
<1>2. Reads(Sum(a), i)
  <2> DEFINE o == <<<<"+">>, <<"-">>>>
  <2>1. DOMAIN o = 1 .. 2 /\ \A k \in 1 .. 2 : Len(o[k]) \in Nat \ {0}
    OBVIOUS
  <2> HIDE DEF o
  <2>2. Reads(Binary(Product(a), o), i)
    BY <1>1, <2>1, BinaryReads
  <2> QED
    BY <2>2 DEF Sum, o
<1>3. Reads(Shift(a), i)
  <2> DEFINE o == <<<<"<", "<">>, <<">", ">">>>>
  <2>1. DOMAIN o = 1 .. 2 /\ \A k \in 1 .. 2 : Len(o[k]) \in Nat \ {0}
    OBVIOUS
  <2> HIDE DEF o
  <2>2. Reads(Binary(Sum(a), o), i)
    BY <1>2, <2>1, BinaryReads
  <2> QED
    BY <2>2 DEF Shift, o
<1>4. Reads(Compare(ops, a), i)
  BY <1>3, BinaryReads DEF Compare
<1>5. Reads(Equals(ops, a), i)
  <2> DEFINE o == <<<<"=", "=">>, <<"!", "=">>>>
  <2>1. DOMAIN o = 1 .. 2 /\ \A k \in 1 .. 2 : Len(o[k]) \in Nat \ {0}
    OBVIOUS
  <2> HIDE DEF o
  <2>2. Reads(Binary(Compare(ops, a), o), i)
    BY <1>4, <2>1, BinaryReads
  <2> QED
    BY <2>2 DEF Equals, o
<1>6. Reads(BitAnd(ops, a), i)
  <2> DEFINE o == <<<<"&">>>>
  <2>1. DOMAIN o = 1 .. 1 /\ \A k \in 1 .. 1 : Len(o[k]) \in Nat \ {0}
    OBVIOUS
  <2> HIDE DEF o
  <2>2. Reads(Binary(Equals(ops, a), o), i)
    BY <1>5, <2>1, BinaryReads
  <2> QED
    BY <2>2 DEF BitAnd, o
<1>7. Reads(BitXor(ops, a), i)
  <2> DEFINE o == <<<<"^">>>>
  <2>1. DOMAIN o = 1 .. 1 /\ \A k \in 1 .. 1 : Len(o[k]) \in Nat \ {0}
    OBVIOUS
  <2> HIDE DEF o
  <2>2. Reads(Binary(BitAnd(ops, a), o), i)
    BY <1>6, <2>1, BinaryReads
  <2> QED
    BY <2>2 DEF BitXor, o
<1>8. Reads(BitOr(ops, a), i)
  <2> DEFINE o == <<<<"|">>>>
  <2>1. DOMAIN o = 1 .. 1 /\ \A k \in 1 .. 1 : Len(o[k]) \in Nat \ {0}
    OBVIOUS
  <2> HIDE DEF o
  <2>2. Reads(Binary(BitXor(ops, a), o), i)
    BY <1>7, <2>1, BinaryReads
  <2> QED
    BY <2>2 DEF BitOr, o
<1>9. Reads(LogicalAnd(ops, a), i)
  <2> DEFINE o == <<<<"&", "&">>>>
  <2>1. DOMAIN o = 1 .. 1 /\ \A k \in 1 .. 1 : Len(o[k]) \in Nat \ {0}
    OBVIOUS
  <2> HIDE DEF o
  <2>2. Reads(Binary(BitOr(ops, a), o), i)
    BY <1>8, <2>1, BinaryReads
  <2> QED
    BY <2>2 DEF LogicalAnd, o
<1>10. Reads(LogicalOr(ops, a), i)
  <2> DEFINE o == <<<<"|", "|">>>>
  <2>1. DOMAIN o = 1 .. 1 /\ \A k \in 1 .. 1 : Len(o[k]) \in Nat \ {0}
    OBVIOUS
  <2> HIDE DEF o
  <2>2. Reads(Binary(LogicalAnd(ops, a), o), i)
    BY <1>9, <2>1, BinaryReads
  <2> QED
    BY <2>2 DEF LogicalOr, o
<1> QED
  BY <1>10
-----------------------------------------------------------------------------
Known1(g, i) ==
  /\ Reads(g.QUALIFIEDIDENT, i) /\ Reads(g.SIMPLETYPE, i) /\ Reads(g.STRING, i)
  /\ Reads(g.program_header, i) /\ Reads(g.operator_name, i)
  /\ Answers(g.unary_name, i) /\ Reads(g.label_declaration, i)
  /\ Reads(g.goto_statement, i) /\ Reads(g.enum_declaration, i)
  /\ Reads(g.union_declaration, i) /\ Reads(g.struct_declaration, i)
  /\ Reads(g.type_declaration, i) /\ Reads(g.const_declaration, i)
  /\ Reads(g.global_var_block, i) /\ Reads(g.local_var_block, i)
  /\ Reads(g.func_prototype_declaration, i)
  /\ Reads(g.import_func_declaration, i) /\ Reads(g.func_block, i)
  /\ Reads(g.method_block, i) /\ Reads(g.unary_block, i)
  /\ Reads(g.operator_block, i) /\ Reads(g.object_declaration, i)
  /\ Reads(g.object_ctor_block, i) /\ Reads(g.object_dtor_block, i)
  /\ Reads(g.interface_block, i) /\ Reads(g.run_block, i)
  /\ Reads(g.exit_statement, i) /\ Reads(g.bind_statement, i)
  /\ Reads(g.for_in_loop, i) /\ Reads(g.for_to_loop, i)
  /\ Reads(g.for_downto_loop, i) /\ Reads(g.repeat_loop, i)
  /\ Reads(g.while_loop, i) /\ Reads(g.ptr_subexpr, i)
Known2(g, i) ==
  /\ Known1(g, i)
  /\ Answers(g.program, i) /\ Reads(g.declaration, i) /\ Reads(g.TYPESPEC, i)
  /\ Reads(g.mf_call, i) /\ Reads(g.ptr_expr, i) /\ Reads(g.var_subexpr, i)
  /\ Reads(g.OPERAND, i) /\ Reads(g.CONSTOPERAND, i)
Known3(g, i) ==
  /\ Known2(g, i)
  /\ Reads(g.parameter_declarations, i) /\ Reads(g.var_expr, i)
  /\ Reads(g.UNARYOP, i) /\ Reads(g.CONSTUNARYOP, i)
Known4(g, i) ==
  /\ Known3(g, i)
  /\ Reads(g.EXPR, i) /\ Reads(g.CONSTEXPR, i) /\ Answers(g.statement, i)
Known5(g, i) ==
  /\ Known4(g, i)
  /\ Answers(g.loop_statement, i)

LEMMA RulesAre ==
  ASSUME NEW g
  PROVE  /\ Rules(g).program = program(g)
         /\ Rules(g).program_header = program_header(g)
         /\ Rules(g).declaration = declaration(g)
         /\ Rules(g).enum_declaration = enum_declaration(g)
         /\ Rules(g).union_declaration = union_declaration(g)
         /\ Rules(g).struct_declaration = struct_declaration(g)
         /\ Rules(g).type_declaration = type_declaration(g)
         /\ Rules(g).const_declaration = const_declaration(g)
         /\ Rules(g).global_var_block = global_var_block(g)
         /\ Rules(g).local_var_block = local_var_block(g)
         /\ Rules(g).parameter_declarations = parameter_declarations(g)
         /\ Rules(g).TYPESPEC = TYPESPEC(g)
         /\ Rules(g).SIMPLETYPE = SIMPLETYPE(g)
         /\ Rules(g).func_prototype_declaration = func_prototype_declaration(g)
         /\ Rules(g).import_func_declaration = import_func_declaration(g)
         /\ Rules(g).func_block = func_block(g)
         /\ Rules(g).method_block = method_block(g)
         /\ Rules(g).unary_block = unary_block(g)
         /\ Rules(g).unary_name = unary_name(g)
         /\ Rules(g).operator_block = operator_block(g)
         /\ Rules(g).operator_name = operator_name(g)
         /\ Rules(g).object_declaration = object_declaration(g)
         /\ Rules(g).object_ctor_block = object_ctor_block(g)
         /\ Rules(g).object_dtor_block = object_dtor_block(g)
         /\ Rules(g).interface_block = interface_block(g)
         /\ Rules(g).run_block = run_block(g)
         /\ Rules(g).statement = statement(g)
         /\ Rules(g).loop_statement = loop_statement(g)
         /\ Rules(g).exit_statement = exit_statement(g)
         /\ Rules(g).label_declaration = label_declaration(g)
         /\ Rules(g).goto_statement = goto_statement(g)
         /\ Rules(g).bind_statement = bind_statement(g)
         /\ Rules(g).for_in_loop = for_in_loop(g)
         /\ Rules(g).for_to_loop = for_to_loop(g)
         /\ Rules(g).for_downto_loop = for_downto_loop(g)
         /\ Rules(g).repeat_loop = repeat_loop(g)
         /\ Rules(g).while_loop = while_loop(g) /\ Rules(g).mf_call = mf_call(g)
         /\ Rules(g).var_expr = var_expr(g) /\ Rules(g).ptr_expr = ptr_expr(g)
         /\ Rules(g).var_subexpr = var_subexpr(g)
         /\ Rules(g).ptr_subexpr = ptr_subexpr(g) /\ Rules(g).EXPR = EXPR(g)
         /\ Rules(g).UNARYOP = UNARYOP(g) /\ Rules(g).OPERAND = OPERAND(g)
         /\ Rules(g).CONSTEXPR = CONSTEXPR(g)
         /\ Rules(g).CONSTUNARYOP = CONSTUNARYOP(g)
         /\ Rules(g).CONSTOPERAND = CONSTOPERAND(g)
         /\ Rules(g).QUALIFIEDIDENT = QUALIFIEDIDENT(g)
         /\ Rules(g).STRING = quoted(g)
BY DEF Rules
LEMMA Rules1Known ==
  ASSUME TextOK, NEW i \in Nat \ {0}, NEW g, Known5(g, i+1)
  PROVE  Known1(Rules(g), i)
<1>0. Laws(i) /\ Laws(i+1) /\ Atoms(i) /\ Atoms(i+1)
  BY LawsHold, AtomsHold
<1>1. /\ Answers(g.QUALIFIEDIDENT, i+1) /\ Answers(g.STRING, i+1)
      /\ Answers(g.operator_name, i+1) /\ Answers(g.unary_name, i+1)
      /\ Answers(g.local_var_block, i+1) /\ Answers(g.TYPESPEC, i+1)
      /\ Answers(g.parameter_declarations, i+1) /\ Answers(g.EXPR, i+1)
      /\ Answers(g.CONSTEXPR, i+1) /\ Answers(g.statement, i+1)
      /\ Answers(g.loop_statement, i+1)
  BY <1>0 DEF Laws, Known5, Known4, Known3, Known2, Known1
<1>2. Reads(QUALIFIEDIDENT(g), i)
  BY <1>0 DEF QUALIFIEDIDENT, Laws, Atoms
<1>3. Reads(SIMPLETYPE(g), i)
  <2>1. Reads(Operators(SimpleTypes), i)
    BY SimpleTypesAre, OperatorsReads
  <2> QED
    BY <1>0, <2>1 DEF SIMPLETYPE, Laws, Atoms
<1>4. Reads(quoted(g), i)
  BY <1>0 DEF quoted, Laws, Atoms
<1>5. Reads(program_header(g), i)
  BY <1>0 DEF program_header, Laws, Atoms
<1>6. Reads(operator_name(g), i)
  BY OperatorNamesAre, OperatorsReads DEF operator_name
<1>7. Answers(unary_name(g), i)
  BY <1>0 DEF unary_name, EndWord, Laws, Atoms
<1>8. Reads(label_declaration(g), i)
  BY <1>0 DEF label_declaration, Laws, Atoms
<1>9. Reads(goto_statement(g), i)
  BY <1>0 DEF goto_statement, Laws, Atoms
<1>10. Reads(enum_declaration(g), i)
  BY <1>0, <1>1 DEF enum_declaration, Fields, EndWord, Laws, Atoms
<1>11. Reads(union_declaration(g), i)
  BY <1>0, <1>1 DEF union_declaration, Fields, EndWord, Declarator, Laws, Atoms
<1>12. Reads(struct_declaration(g), i)
  BY <1>0, <1>1 DEF struct_declaration, Fields, EndWord, Declarator, Laws, Atoms
<1>13. Reads(type_declaration(g), i)
  BY <1>0, <1>1 DEF type_declaration, Initialized, Declarator, Laws, Atoms
<1>14. Reads(const_declaration(g), i)
  BY <1>0, <1>1 DEF const_declaration, Initialized, Declarator, Laws, Atoms
<1>15. Reads(global_var_block(g), i)
  BY <1>0, <1>1 DEF global_var_block, VarBlock, Fields, EndWord, Initialized,
     Declarator, Laws, Atoms
<1>16. Reads(local_var_block(g), i)
  BY <1>0, <1>1 DEF local_var_block, VarBlock, Fields, EndWord, Initialized,
     Declarator, Laws, Atoms
<1>17. Reads(func_prototype_declaration(g), i)
  BY <1>0, <1>1 DEF func_prototype_declaration, Prototype, PrototypeSpecs,
     CALLSPEC, NAME, Parameters, Laws, Atoms
<1>18. Reads(import_func_declaration(g), i)
  BY <1>0, <1>1 DEF import_func_declaration, ImportSpecs, CALLSPEC, TypeOrNone,
     NAME, Parameters, Laws, Atoms
<1>19. Reads(func_block(g), i)
  BY <1>0, <1>1 DEF func_block, FunctionBlock, Block, EndWord, NoneSpecs,
     CALLSPEC, Parameters, PlainReturn, ReturnSpecs, ReturnType,
     ReturnStatement, NAME, Laws, Atoms
<1>20. Reads(method_block(g), i)
  BY <1>0, <1>1 DEF method_block, FunctionBlock, Block, EndWord, NoneSpecs,
     CALLSPEC, Parameters, PlainReturn, ReturnSpecs, ReturnType,
     ReturnStatement, MemberName, Laws, Atoms
<1>21. Reads(unary_block(g), i)
  BY <1>0, <1>1 DEF unary_block, Block, EndWord, ReturnStatement, Laws, Atoms
<1>22. Reads(operator_block(g), i)
  BY <1>0, <1>1 DEF operator_block, Block, EndWord, ReturnSpecs, ReturnType,
     CALLSPEC, Parameters, ReturnStatement, Laws, Atoms
<1>23. Reads(object_declaration(g), i)
  BY <1>0, <1>1 DEF object_declaration, EndWord, Declarator, Laws, Atoms
<1>24. Reads(object_ctor_block(g), i)
  BY <1>0, <1>1 DEF object_ctor_block, Block, EndWord, Parameters,
     ReturnStatement, Laws, Atoms
<1>25. Reads(object_dtor_block(g), i)
  BY <1>0, <1>1 DEF object_dtor_block, Block, EndWord, Parameters,
     ReturnStatement, Laws, Atoms
<1>26. Reads(interface_block(g), i)
  BY <1>0, <1>1 DEF interface_block, EndWord, Prototype, PrototypeSpecs,
     CALLSPEC, NAME, Parameters, Laws, Atoms
<1>27. Reads(run_block(g), i)
  BY <1>0, <1>1 DEF run_block, Block, EndWord, Laws, Atoms
<1>28. Reads(exit_statement(g), i)
  BY <1>0, <1>1 DEF exit_statement, Laws, Atoms
<1>29. Reads(bind_statement(g), i)
  BY <1>0, <1>1 DEF bind_statement, Laws, Atoms
<1>30. Reads(for_in_loop(g), i)
  BY <1>0, <1>1 DEF for_in_loop, ForLoop, Labelled, LoopBody, EndFor, Laws,
     Atoms
<1>31. Reads(for_to_loop(g), i)
  BY <1>0, <1>1 DEF for_to_loop, ForLoop, Labelled, LoopBody, EndFor, Laws,
     Atoms
<1>32. Reads(for_downto_loop(g), i)
  BY <1>0, <1>1 DEF for_downto_loop, ForLoop, Labelled, LoopBody, EndFor, Laws,
     Atoms
<1>33. Reads(repeat_loop(g), i)
  BY <1>0, <1>1 DEF repeat_loop, Labelled, LoopBody, Condition, Laws, Atoms
<1>34. Reads(while_loop(g), i)
  BY <1>0, <1>1 DEF while_loop, Labelled, Condition, LoopBody, EndWhile, Laws,
     Atoms
<1>35. Reads(ptr_subexpr(g), i)
  BY <1>0, <1>1 DEF ptr_subexpr, Assignments, Assign, Pointed, Laws, Atoms
<1> QED
  BY <1>2, <1>3, <1>4, <1>5, <1>6, <1>7, <1>8, <1>9, <1>10, <1>11, <1>12, <1>13, <1>14, <1>15, <1>16, <1>17, <1>18, <1>19, <1>20, <1>21, <1>22, <1>23, <1>24, <1>25, <1>26, <1>27, <1>28, <1>29, <1>30, <1>31, <1>32, <1>33, <1>34, <1>35, RulesAre DEF Known1

LEMMA Rules2Known ==
  ASSUME TextOK, NEW i \in Nat \ {0}, NEW g, Known5(g, i+1), Known1(g, i)
  PROVE  Known2(Rules(g), i)
<1>0. Laws(i) /\ Laws(i+1) /\ Atoms(i) /\ Atoms(i+1)
  BY LawsHold, AtomsHold
<1>1. /\ Answers(g.QUALIFIEDIDENT, i+1) /\ Answers(g.SIMPLETYPE, i+1)
      /\ Answers(g.program_header, i+1) /\ Answers(g.enum_declaration, i+1)
      /\ Answers(g.union_declaration, i+1) /\ Answers(g.struct_declaration, i+1)
      /\ Answers(g.type_declaration, i+1) /\ Answers(g.const_declaration, i+1)
      /\ Answers(g.global_var_block, i+1)
      /\ Answers(g.func_prototype_declaration, i+1)
      /\ Answers(g.import_func_declaration, i+1) /\ Answers(g.func_block, i+1)
      /\ Answers(g.method_block, i+1) /\ Answers(g.unary_block, i+1)
      /\ Answers(g.operator_block, i+1) /\ Answers(g.object_declaration, i+1)
      /\ Answers(g.object_ctor_block, i+1) /\ Answers(g.object_dtor_block, i+1)
      /\ Answers(g.interface_block, i+1) /\ Answers(g.run_block, i+1)
      /\ Answers(g.ptr_subexpr, i+1) /\ Answers(g.declaration, i+1)
      /\ Answers(g.EXPR, i+1) /\ Answers(g.CONSTEXPR, i+1)
  BY <1>0 DEF Laws, Known5, Known4, Known3, Known2, Known1
<1>2. /\ Reads(g.QUALIFIEDIDENT, i) /\ Reads(g.SIMPLETYPE, i)
      /\ Reads(g.program_header, i) /\ Reads(g.enum_declaration, i)
      /\ Reads(g.union_declaration, i) /\ Reads(g.struct_declaration, i)
      /\ Reads(g.type_declaration, i) /\ Reads(g.const_declaration, i)
      /\ Reads(g.global_var_block, i) /\ Reads(g.func_prototype_declaration, i)
      /\ Reads(g.import_func_declaration, i) /\ Reads(g.func_block, i)
      /\ Reads(g.method_block, i) /\ Reads(g.unary_block, i)
      /\ Reads(g.operator_block, i) /\ Reads(g.object_declaration, i)
      /\ Reads(g.object_ctor_block, i) /\ Reads(g.object_dtor_block, i)
      /\ Reads(g.interface_block, i) /\ Reads(g.run_block, i)
      /\ Reads(g.ptr_subexpr, i)
  BY DEF Known1
<1>3. Answers(program(g), i)
  BY <1>0, <1>1, <1>2 DEF program, Laws, Atoms
<1>4. Reads(declaration(g), i)
  BY <1>0, <1>1, <1>2 DEF declaration, Laws, Atoms
<1>5. Reads(TYPESPEC(g), i)
  BY <1>0, <1>1, <1>2 DEF TYPESPEC, AnyType, Dimension, Laws, Atoms
<1>6. Reads(mf_call(g), i)
  BY <1>0, <1>1, <1>2 DEF mf_call, Laws, Atoms
<1>7. Reads(ptr_expr(g), i)
  BY <1>0, <1>1, <1>2 DEF ptr_expr, Laws, Atoms
<1>8. Reads(var_subexpr(g), i)
  BY <1>0, <1>1, <1>2 DEF var_subexpr, Assignments, Assign, Laws, Atoms
<1>9. Reads(OPERAND(g), i)
  BY <1>0, <1>1, <1>2 DEF OPERAND, Call, Pointed, Laws, Atoms
<1>10. Reads(CONSTOPERAND(g), i)
  BY <1>0, <1>1, <1>2 DEF CONSTOPERAND, Call, Laws, Atoms
<1>11. Known1(Rules(g), i)
  BY Rules1Known
<1> QED
  BY <1>3, <1>4, <1>5, <1>6, <1>7, <1>8, <1>9, <1>10, <1>11, RulesAre DEF Known2

LEMMA Rules3Known ==
  ASSUME TextOK, NEW i \in Nat \ {0}, NEW g, Known5(g, i+1), Known2(g, i)
  PROVE  Known3(Rules(g), i)
<1>0. Laws(i) /\ Laws(i+1) /\ Atoms(i) /\ Atoms(i+1)
  BY LawsHold, AtomsHold
<1>1. /\ Answers(g.TYPESPEC, i+1) /\ Answers(g.var_subexpr, i+1)
      /\ Answers(g.OPERAND, i+1) /\ Answers(g.CONSTOPERAND, i+1)
      /\ Answers(g.UNARYOP, i+1) /\ Answers(g.CONSTUNARYOP, i+1)
  BY <1>0 DEF Laws, Known5, Known4, Known3, Known2, Known1
<1>2. /\ Reads(g.TYPESPEC, i) /\ Reads(g.var_subexpr, i) /\ Reads(g.OPERAND, i)
      /\ Reads(g.CONSTOPERAND, i)
  BY DEF Known2, Known1
<1>3. Reads(parameter_declarations(g), i)
  BY <1>0, <1>1, <1>2 DEF parameter_declarations, Declarator, Laws, Atoms
<1>4. Reads(var_expr(g), i)
  BY <1>0, <1>1, <1>2 DEF var_expr, Laws, Atoms
<1>5. Reads(UNARYOP(g), i)
  BY <1>0, <1>1, <1>2 DEF UNARYOP, Laws, Atoms
<1>6. Reads(CONSTUNARYOP(g), i)
  BY <1>0, <1>1, <1>2 DEF CONSTUNARYOP, Laws, Atoms
<1>7. Known2(Rules(g), i)
  BY Rules2Known DEF Known2
<1> QED
  BY <1>3, <1>4, <1>5, <1>6, <1>7, RulesAre DEF Known3

LEMMA Rules4Known ==
  ASSUME TextOK, NEW i \in Nat \ {0}, NEW g, Known5(g, i+1), Known3(g, i)
  PROVE  Known4(Rules(g), i)
<1>0. Laws(i) /\ Laws(i+1) /\ Atoms(i) /\ Atoms(i+1)
  BY LawsHold, AtomsHold
<1>1. /\ Answers(g.label_declaration, i+1) /\ Answers(g.goto_statement, i+1)
      /\ Answers(g.exit_statement, i+1) /\ Answers(g.bind_statement, i+1)
      /\ Answers(g.for_in_loop, i+1) /\ Answers(g.for_to_loop, i+1)
      /\ Answers(g.for_downto_loop, i+1) /\ Answers(g.repeat_loop, i+1)
      /\ Answers(g.while_loop, i+1) /\ Answers(g.mf_call, i+1)
      /\ Answers(g.ptr_expr, i+1) /\ Answers(g.var_expr, i+1)
      /\ Answers(g.UNARYOP, i+1) /\ Answers(g.CONSTUNARYOP, i+1)
      /\ Answers(g.EXPR, i+1) /\ Answers(g.statement, i+1)
  BY <1>0 DEF Laws, Known5, Known4, Known3, Known2, Known1
<1>2. /\ Reads(g.label_declaration, i) /\ Reads(g.goto_statement, i)
      /\ Reads(g.exit_statement, i) /\ Reads(g.bind_statement, i)
      /\ Reads(g.for_in_loop, i) /\ Reads(g.for_to_loop, i)
      /\ Reads(g.for_downto_loop, i) /\ Reads(g.repeat_loop, i)
      /\ Reads(g.while_loop, i) /\ Reads(g.mf_call, i) /\ Reads(g.ptr_expr, i)
      /\ Reads(g.var_expr, i) /\ Reads(g.UNARYOP, i) /\ Reads(g.CONSTUNARYOP, i)
  BY DEF Known3, Known2, Known1
<1>3. Reads(EXPR(g), i)
  BY <1>2, LevelsRead, CompareOpsAre DEF EXPR
<1>4. Reads(CONSTEXPR(g), i)
  BY <1>2, LevelsRead, ConstCompareOpsAre DEF CONSTEXPR
<1>5. Answers(statement(g), i)
  BY <1>0, <1>1, <1>2 DEF statement, EndWord, IfThen, Condition, IfBlock, Laws,
     Atoms
<1>6. Known3(Rules(g), i)
  BY Rules3Known DEF Known3
<1> QED
  BY <1>3, <1>4, <1>5, <1>6, RulesAre DEF Known4

LEMMA Rules5Known ==
  ASSUME TextOK, NEW i \in Nat \ {0}, NEW g, Known5(g, i+1), Known4(g, i)
  PROVE  Known5(Rules(g), i)
<1>0. Laws(i) /\ Laws(i+1) /\ Atoms(i) /\ Atoms(i+1)
  BY LawsHold, AtomsHold
<1>1. /\ Answers(g.EXPR, i+1) /\ Answers(g.statement, i+1)
      /\ Answers(g.loop_statement, i+1)
  BY <1>0 DEF Laws, Known5, Known4, Known3, Known2, Known1
<1>2. /\ Reads(g.EXPR, i) /\ Answers(g.statement, i)
  BY DEF Known4, Known3, Known2, Known1
<1>3. Answers(loop_statement(g), i)
  BY <1>0, <1>1, <1>2 DEF loop_statement, EndWord, IfThen, Condition, IfBlock,
     Laws, Atoms
<1>4. Known4(Rules(g), i)
  BY Rules4Known DEF Known4
<1> QED
  BY <1>3, <1>4, RulesAre DEF Known5
-----------------------------------------------------------------------------
(* The rules for each depth of nesting: the equation that defines them has *)
(* a solution.                                                             *)
Nested(v, high) ==
  \A n \in 0 .. high : v[n] = IF n = 0 THEN NothingKnown ELSE Rules(v[n-1])
LEMMA NestedOn ==
  ASSUME TextOK
  PROVE  \E v : v = [n \in 0 .. Nesting |-> v[n]] /\ Nested(v, Nesting)
<1> DEFINE Has(h) == \E v : v = [n \in 0 .. Nesting |-> v[n]] /\ Nested(v, h)
           T == {h \in 0 .. Nesting : ~Has(h)}
<1>0. Nesting \in Nat
  BY DEF Nesting, Chain, TextOK
<1>1. ASSUME T # {} PROVE FALSE
  <2>1. T \in SUBSET Nat
    OBVIOUS
  <2>2. PICK h \in T : \A e \in T : h <= e
    BY <1>1, <2>1, LeastOf
  <2>3. h # 0
    <3> DEFINE v == [n \in 0 .. Nesting |-> NothingKnown]
    <3>1. v = [n \in 0 .. Nesting |-> v[n]]
      OBVIOUS
    <3>2. Nested(v, 0)
      BY <1>0 DEF Nested
    <3>3. Has(0)
      BY <3>1, <3>2
    <3> QED
      BY <3>3
  <2>4. h-1 \in 0 .. Nesting /\ h-1 \notin T /\ h \in 1 .. Nesting
    BY <1>0, <2>2, <2>3
  <2>5. PICK v : v = [n \in 0 .. Nesting |-> v[n]] /\ Nested(v, h-1)
    BY <2>4
  <2> DEFINE x == Rules(v[h-1])
             w == [v EXCEPT ![h] = x]
  <2>6. /\ w[h] = x /\ \A n \in 0 .. Nesting : n # h => w[n] = v[n]
        /\ w = [n \in 0 .. Nesting |-> w[n]]
    BY <2>4, <2>5
  <2> HIDE DEF w
  <2>7. Nested(w, h)
    <3> SUFFICES ASSUME NEW n \in 0 .. h
                 PROVE  w[n] = IF n = 0 THEN NothingKnown ELSE Rules(w[n-1])
      BY DEF Nested
    <3>1. n \in 0 .. Nesting /\ n-1 # h /\ (n # 0 => n-1 \in 0 .. Nesting)
      BY <1>0, <2>4
    <3>2. CASE n = h
      BY <2>3, <2>4, <2>6, <3>2
    <3>3. CASE n # h
      <4>1. n \in 0 .. h-1
        BY <1>0, <2>4, <3>3
      <4>2. v[n] = IF n = 0 THEN NothingKnown ELSE Rules(v[n-1])
        BY <2>5, <4>1 DEF Nested
      <4> QED
        BY <2>6, <3>1, <3>3, <4>2
    <3> QED
      BY <3>2, <3>3
  <2>8. Has(h)
    BY <2>6, <2>7
  <2> QED
    BY <2>2, <2>8
<1>2. Nesting \in 0 .. Nesting /\ Nesting \notin T
  BY <1>0, <1>1
<1> QED
  BY <1>2
LEMMA RulesToIs ==
  ASSUME TextOK, NEW n \in 0 .. Nesting
  PROVE  RulesTo[n] = IF n = 0 THEN NothingKnown ELSE Rules(RulesTo[n-1])
<1> DEFINE F(v) == [k \in 0 .. Nesting |-> IF k = 0 THEN NothingKnown ELSE Rules(v[k-1])]
           all == CHOOSE v : v = F(v)
<1>1. PICK v : v = [k \in 0 .. Nesting |-> v[k]] /\ Nested(v, Nesting)
  BY NestedOn
<1>2. v = F(v)
  BY <1>1 DEF Nested
<1>3. all = F(all)
  BY <1>2
<1>4. RulesTo = all
  BY DEF RulesTo
<1> HIDE DEF all
<1>5. all[n] = F(all)[n]
  BY <1>3
<1> QED
  BY <1>4, <1>5

(* Five calls more answer for one place more.                              *)
LEMMA ChainAnswers ==
  ASSUME TextOK, NEW i \in Nat \ {0}, NEW n \in Nat,
         \A m \in n .. Nesting : Known5(RulesTo[m], i+1)
  PROVE  \A m \in n+Chain .. Nesting : Known5(RulesTo[m], i)
<1>0. Nesting \in Nat
  BY DEF Nesting, Chain, TextOK
<1>1. ASSUME NEW m \in n+1 .. Nesting
      PROVE  RulesTo[m] = Rules(RulesTo[m-1]) /\ Known5(RulesTo[m-1], i+1)
  BY <1>0, RulesToIs
<1>2. ASSUME NEW m \in n+1 .. Nesting PROVE Known1(RulesTo[m], i)
  BY <1>1, Rules1Known
<1>3. ASSUME NEW m \in n+2 .. Nesting PROVE Known2(RulesTo[m], i)
  <2>1. m \in n+1 .. Nesting /\ m-1 \in n+1 .. Nesting
    BY <1>0
  <2> QED
    BY <1>1, <1>2, <2>1, Rules2Known
<1>4. ASSUME NEW m \in n+3 .. Nesting PROVE Known3(RulesTo[m], i)
  <2>1. m \in n+1 .. Nesting /\ m-1 \in n+2 .. Nesting
    BY <1>0
  <2> QED
    BY <1>1, <1>3, <2>1, Rules3Known
<1>5. ASSUME NEW m \in n+4 .. Nesting PROVE Known4(RulesTo[m], i)
  <2>1. m \in n+1 .. Nesting /\ m-1 \in n+3 .. Nesting
    BY <1>0
  <2> QED
    BY <1>1, <1>4, <2>1, Rules4Known
<1>6. ASSUME NEW m \in n+5 .. Nesting PROVE Known5(RulesTo[m], i)
  <2>1. m \in n+1 .. Nesting /\ m-1 \in n+4 .. Nesting
    BY <1>0
  <2> QED
    BY <1>1, <1>5, <2>1, Rules5Known
<1> QED
  BY <1>6 DEF Chain

LEMMA NothingAfter ==
  ASSUME TextOK, NEW g
  PROVE  Known5(g, Len(text)+2)
<1>1. Len(text)+2 .. Len(text)+1 = {}
  BY DEF TextOK
<1> QED
  BY <1>1 DEF Known5, Known4, Known3, Known2, Known1, Reads, Answers

(* So all that is nested as deep as the file is long is known from its     *)
(* first place on.                                                         *)
LEMMA AllKnown ==
  ASSUME TextOK
  PROVE  Known5(RulesTo[Nesting], 1)
<1> DEFINE l == Len(text)+1
           Is(d) == \A m \in Chain * d .. Nesting : Known5(RulesTo[m], l+1-d)
           T == {d \in 0 .. l : ~Is(d)}
<1>0. l \in Nat /\ l+1 = Len(text)+2 /\ Nesting = Chain * l
  BY DEF Nesting, TextOK
<1>1. ASSUME T # {} PROVE FALSE
  <2>1. T \in SUBSET Nat
    OBVIOUS
  <2>2. PICK d \in T : \A e \in T : d <= e
    BY <1>1, <2>1, LeastOf
  <2>3. Is(0)
    <3>1. l+1-0 = Len(text)+2
      BY <1>0
    <3> QED
      BY <3>1, NothingAfter
  <2>4. d # 0
    BY <2>2, <2>3
  <2>5. d-1 \in 0 .. l /\ d-1 \notin T
    BY <1>0, <2>2, <2>4
  <2>6. Is(d-1)
    BY <2>5
  <2> DEFINE i == l+1-d
             n == Chain * (d-1)
  <2>7. i \in Nat \ {0} /\ l+1-(d-1) = i+1 /\ n \in Nat /\ n+Chain = Chain * d
    BY <1>0, <2>5 DEF Chain
  <2>8. \A m \in n .. Nesting : Known5(RulesTo[m], i+1)
    BY <2>6, <2>7
  <2> HIDE DEF i, n
  <2>9. \A m \in n+Chain .. Nesting : Known5(RulesTo[m], i)
    BY <2>7, <2>8, ChainAnswers
  <2>10. Is(d)
    BY <2>7, <2>9 DEF i
  <2> QED
    BY <2>2, <2>10
<1>2. Is(l)
  BY <1>0, <1>1
<1>3. l+1-l = 1 /\ Nesting \in Chain * l .. Nesting
  BY <1>0 DEF Chain
<1> HIDE DEF l
<1> QED
  BY <1>2, <1>3

(* The program has an answer, which lies inside the file.                  *)
LEMMA ProgramAnswered ==
  ASSUME TextOK
  PROVE  \/ RulesTo[Nesting].program[1].end = 0
         \/ RulesTo[Nesting].program[1].end \in 1 .. Len(text)+1
<1>1. Answers(RulesTo[Nesting].program, 1)
  BY AllKnown DEF Known5, Known4, Known3, Known2
<1>2. 1 \in 1 .. Len(text)+1
  BY DEF TextOK
<1> QED
  BY <1>1, <1>2 DEF Answers
-----------------------------------------------------------------------------
(* Every file is accepted or refused.                                      *)
THEOREM AlwaysAnswered == Spec => []Answered
<1> DEFINE IInv == TextOK /\ Answered
<1>1. Init => IInv
  BY ProgramsAssumption DEF Init, TextOK, Answered
<1>2. IInv /\ [Next]_vars => IInv'
  <2> SUFFICES ASSUME IInv, [Next]_vars PROVE IInv'
    OBVIOUS
  <2>1. CASE Parse
    <3>1. TextOK'
      BY <2>1 DEF Parse, TextOK
    <3>2. ~(RulesTo[Nesting].program[1].end < 0)
      BY ProgramAnswered DEF TextOK
    <3> QED
      BY <2>1, <3>1, <3>2 DEF Parse, Answered
  <2>2. CASE UNCHANGED vars
    BY <2>2 DEF vars, TextOK, Answered
  <2> QED
    BY <2>1, <2>2 DEF Next
<1>3. IInv => Answered
  OBVIOUS
<1> QED
  BY <1>1, <1>2, <1>3, PTL DEF Spec
-----------------------------------------------------------------------------
(* An expression extends another when it says the same wherever the other  *)
(* says anything.                                                          *)
Extends(f, e) ==
  \A i \in Places : e[i].end = -1 \/ (e[i].end \in 0 .. Len(text)+1 /\ f[i] = e[i])

LEMMA AnswersExtends ==
  ASSUME TextOK, NEW e, Answers(e, 1)
  PROVE  Extends(e, e)
BY DEF Answers, Extends, Places, TextOK
LEMMA ChoiceExtends ==
  ASSUME TextOK, NEW a, NEW b, NEW c, NEW d, Extends(c, a), Extends(d, b)
  PROVE  Extends(c | d, a | b)
<1> SUFFICES ASSUME NEW i \in Places, (a | b)[i].end # -1
             PROVE  (a | b)[i].end \in 0 .. Len(text)+1 /\ (c | d)[i] = (a | b)[i]
  BY DEF Extends
<1>1. /\ (a | b)[i] = IF a[i].end = 0 THEN b[i] ELSE a[i]
      /\ (c | d)[i] = IF c[i].end = 0 THEN d[i] ELSE c[i]
  BY Values
<1> QED
  BY <1>1 DEF Extends
LEMMA ThenExtends ==
  ASSUME TextOK, NEW a, NEW b, NEW c, NEW d, Extends(c, a), Extends(d, b)
  PROVE  Extends(c & d, a & b)
<1> SUFFICES ASSUME NEW i \in Places, (a & b)[i].end # -1
             PROVE  (a & b)[i].end \in 0 .. Len(text)+1 /\ (c & d)[i] = (a & b)[i]
  BY DEF Extends
<1>1. /\ (a & b)[i] = IF a[i].end > 0 THEN a[i] ++ b[a[i].end] ELSE a[i]
      /\ (c & d)[i] = IF c[i].end > 0 THEN c[i] ++ d[c[i].end] ELSE c[i]
  BY Values
<1>2. a[i].end \in 0 .. Len(text)+1 /\ c[i] = a[i]
  BY <1>1 DEF Extends
<1>3. CASE a[i].end = 0
  BY <1>1, <1>2, <1>3
<1>4. CASE a[i].end \in Places
  <2>1. (a & b)[i].end = b[a[i].end].end
    BY <1>1, <1>4, Ends DEF Places
  <2>2. b[a[i].end].end \in 0 .. Len(text)+1 /\ d[a[i].end] = b[a[i].end]
    BY <1>4, <2>1 DEF Extends
  <2> QED
    BY <1>1, <1>2, <1>4, <2>1, <2>2
<1> QED
  BY <1>2, <1>3, <1>4 DEF Places, TextOK
LEMMA NotExtends ==
  ASSUME TextOK, NEW a, NEW c, Extends(c, a)
  PROVE  Extends(Not(c), Not(a))
<1> SUFFICES ASSUME NEW i \in Places, Not(a)[i].end # -1
             PROVE  Not(a)[i].end \in 0 .. Len(text)+1 /\ Not(c)[i] = Not(a)[i]
  BY DEF Extends
<1>1. /\ Not(a)[i] = IF a[i].end = 0 THEN At(i) ELSE IF a[i].end > 0 THEN Failed ELSE a[i]
      /\ Not(c)[i] = IF c[i].end = 0 THEN At(i) ELSE IF c[i].end > 0 THEN Failed ELSE c[i]
  BY Values
<1>2. a[i].end \in 0 .. Len(text)+1 /\ c[i] = a[i]
  BY <1>1 DEF Extends
<1> QED
  BY <1>1, <1>2, Ends DEF Places, TextOK
LEMMA TagExtends ==
  ASSUME TextOK, NEW t, NEW a, NEW c, Extends(c, a)
  PROVE  Extends(Tag(t, c), Tag(t, a))
<1> SUFFICES ASSUME NEW i \in Places, Tag(t, a)[i].end # -1
             PROVE  Tag(t, a)[i].end \in 0 .. Len(text)+1 /\ Tag(t, c)[i] = Tag(t, a)[i]
  BY DEF Extends
<1>1. Tag(t, a)[i].end = a[i].end
  BY Values
<1>2. a[i].end \in 0 .. Len(text)+1 /\ c[i] = a[i]
  BY <1>1 DEF Extends
<1>3. Tag(t, c)[i] = Tag(t, a)[i]
  BY <1>2 DEF Tag
<1> QED
  BY <1>1, <1>2, <1>3
LEMMA ManyExtends ==
  ASSUME TextOK, NEW a, NEW c, Extends(c, a)
  PROVE  Extends(Many(c), Many(a))
<1> DEFINE n == Len(text)+1
           Is(i) == \/ Many(a)[i].end = -1
                    \/ Many(a)[i].end \in 0 .. n /\ Many(c)[i] = Many(a)[i]
           T == {d \in 0 .. n : n-d \in Places /\ ~Is(n-d)}
<1>1. ASSUME T # {} PROVE FALSE
  <2>1. T \in SUBSET Nat
    OBVIOUS
  <2>2. PICK d \in T : \A e \in T : d <= e
    BY <1>1, <2>1, LeastOf
  <2> DEFINE i == n-d
  <2>3. i \in Places /\ i \in 1 .. n /\ n \in Nat
    BY DEF Places, TextOK
  <2>4. \A k \in i+1 .. n : Is(k)
    <3> SUFFICES ASSUME NEW k \in i+1 .. n PROVE Is(k)
      OBVIOUS
    <3>1. n-k \in 0 .. n /\ n-k < d /\ n-(n-k) = k /\ k \in Places
      BY <2>3 DEF Places
    <3> QED
      BY <2>2, <3>1
  <2>5. ~Is(i)
    BY <2>2
  <2> HIDE DEF i, T
  <2>6. /\ Many(a)[i] = IF a[i].end \in i+1 .. n THEN a[i] ++ Many(a)[a[i].end]
                        ELSE IF a[i].end < 0 THEN a[i] ELSE At(i)
        /\ Many(c)[i] = IF c[i].end \in i+1 .. n THEN c[i] ++ Many(c)[c[i].end]
                        ELSE IF c[i].end < 0 THEN c[i] ELSE At(i)
    BY <2>3, ManyIs
  <2>7. a[i].end = -1 \/ (a[i].end \in 0 .. n /\ c[i] = a[i])
    BY <2>3 DEF Extends
  <2> HIDE DEF n
  <2>8. CASE a[i].end = -1
    BY <2>3, <2>5, <2>6, <2>8
  <2>9. CASE a[i].end \in 0 .. n /\ a[i].end \notin i+1 .. n
    <3>1. Many(a)[i] = At(i) /\ Many(c)[i] = At(i)
      BY <2>3, <2>6, <2>7, <2>9
    <3> QED
      BY <2>3, <2>5, <3>1, Ends
  <2>10. CASE a[i].end \in i+1 .. n
    <3>1. c[i] = a[i]
      BY <2>3, <2>7, <2>10
    <3>2. /\ Many(a)[i] = a[i] ++ Many(a)[a[i].end]
          /\ Many(c)[i] = a[i] ++ Many(c)[a[i].end]
      BY <2>6, <2>10, <3>1
    <3>3. Many(a)[i].end = Many(a)[a[i].end].end
      BY <3>2, Ends
    <3>4. Is(a[i].end)
      BY <2>4, <2>10
    <3> QED
      BY <2>5, <3>2, <3>3, <3>4
  <2> QED
    BY <2>3, <2>7, <2>8, <2>9, <2>10
<1>2. SUFFICES ASSUME NEW i \in Places PROVE Is(i)
  BY DEF Extends
<1>3. n-i \in 0 .. n /\ n-(n-i) = i
  BY DEF Places, TextOK
<1> QED
  BY <1>1, <1>3

ExtendsLaws ==
  /\ \A a, b, c, d : Extends(c, a) /\ Extends(d, b) => Extends(c | d, a | b)
  /\ \A a, b, c, d : Extends(c, a) /\ Extends(d, b) => Extends(c & d, a & b)
  /\ \A a, b, c, d : Extends(c, a) /\ Extends(d, b) => Extends(c && d, a && b)
  /\ \A t, a, c : Extends(c, a) => Extends(Tag(t, c), Tag(t, a))
  /\ \A a, c : Extends(c, a) => Extends(Not(c), Not(a))
  /\ \A a, c : Extends(c, a) => Extends(And(c), And(a))
  /\ \A a, c : Extends(c, a) => Extends(Opt(c), Opt(a))
  /\ \A a, c : Extends(c, a) => Extends(Padded(c), Padded(a))
  /\ \A a, c : Extends(c, a) => Extends(Many(c), Many(a))
  /\ \A a, c : Extends(c, a) => Extends(Each(c), Each(a))
  /\ \A a, c : Extends(c, a) => Extends(List(c), List(a))
ExtendsAtoms ==
  /\ Extends(Blanks, Blanks) /\ Extends(EOF, EOF) /\ Extends(IDENT, IDENT)
  /\ Extends(INTNUM, INTNUM) /\ Extends(Piece, Piece) /\ Extends(Step, Step)
  /\ Extends(UnaryOp, UnaryOp) /\ Extends(ASSIGNOP, ASSIGNOP)
  /\ \A p : Extends(Word(p), Word(p))
  /\ \A p : Extends(Lit(<<p>>), Lit(<<p>>))
  /\ \A p, q : Extends(Lit(<<p, q>>), Lit(<<p, q>>))
  /\ \A p, q, r : Extends(Lit(<<p, q, r>>), Lit(<<p, q, r>>))
LEMMA ExtendsAtomsHold ==
  ASSUME TextOK
  PROVE  ExtendsAtoms
<1>1. 1 \in Nat \ {0} /\ Laws(1) /\ Atoms(1)
  BY LawsHold, AtomsHold
<1>2. \A e : Reads(e, 1) => Extends(e, e)
  BY <1>1, ReadsAnswers, AnswersExtends
<1> QED
  BY <1>1, <1>2, AnswersExtends DEF Atoms, ExtendsAtoms
LEMMA ExtendsLawsHold ==
  ASSUME TextOK
  PROVE  ExtendsLaws
<1>1. ExtendsAtoms
  BY ExtendsAtomsHold
<1>2. Extends(Empty, Empty)
  BY EmptyAnswers, AnswersExtends
<1>3. \A a, b, c, d : Extends(c, a) /\ Extends(d, b) => Extends(c | d, a | b)
  BY ChoiceExtends
<1>4. \A a, b, c, d : Extends(c, a) /\ Extends(d, b) => Extends(c & d, a & b)
  BY ThenExtends
<1>5. \A a, b, c, d : Extends(c, a) /\ Extends(d, b) => Extends(c && d, a && b)
  BY <1>1, <1>4 DEF &&, ExtendsAtoms
<1>6. \A t, a, c : Extends(c, a) => Extends(Tag(t, c), Tag(t, a))
  BY TagExtends
<1>7. /\ \A a, c : Extends(c, a) => Extends(Not(c), Not(a))
      /\ \A a, c : Extends(c, a) => Extends(And(c), And(a))
  BY NotExtends DEF And
<1>8. \A a, c : Extends(c, a) => Extends(Opt(c), Opt(a))
  BY <1>2, <1>3 DEF Opt
<1>9. \A a, c : Extends(c, a) => Extends(Padded(c), Padded(a))
  BY <1>1, <1>4 DEF Padded, ExtendsAtoms
<1>10. \A a, c : Extends(c, a) => Extends(Many(c), Many(a))
  BY ManyExtends
<1>11. \A a, c : Extends(c, a) => Extends(Each(c), Each(a))
  BY <1>1, <1>4, <1>10 DEF Each, ExtendsAtoms
<1>12. \A a, c : Extends(c, a) => Extends(List(c), List(a))
  BY <1>1, <1>4, <1>5, <1>11 DEF List, ExtendsAtoms
<1> QED
  BY <1>3, <1>4, <1>5, <1>6, <1>7, <1>8, <1>9, <1>10, <1>11, <1>12 DEF ExtendsLaws
LEMMA OperatorsExtend ==
  ASSUME TextOK, NEW ops, NEW n \in Nat, DOMAIN ops = 1 .. n,
         \A k \in 1 .. n : Len(ops[k]) \in Nat \ {0}
  PROVE  Extends(Operators(ops), Operators(ops))
<1>1. Answers(Operators(ops), 1)
  BY OperatorsReads, ReadsAnswers
<1> QED
  BY <1>1, AnswersExtends
LEMMA BinaryExtends ==
  ASSUME TextOK, NEW a, NEW c, Extends(c, a), NEW ops, NEW n \in Nat,
         DOMAIN ops = 1 .. n, \A k \in 1 .. n : Len(ops[k]) \in Nat \ {0}
  PROVE  Extends(Binary(c, ops), Binary(a, ops))
<1>1. Extends(Operators(ops), Operators(ops))
  BY OperatorsExtend
<1> QED
  BY <1>1, ExtendsLawsHold DEF Binary, ExtendsLaws
LEMMA LevelsExtend ==
  ASSUME TextOK, NEW a, NEW c, Extends(c, a), NEW ops,
         DOMAIN ops = 1 .. 4, \A k \in 1 .. 4 : Len(ops[k]) \in Nat \ {0}
  PROVE  Extends(LogicalOr(ops, c), LogicalOr(ops, a))
<1>1. Extends(Product(c), Product(a))
  <2> DEFINE o == <<<<"*">>, <<"/">>, <<"%">>>>
  <2>1. DOMAIN o = 1 .. 3 /\ \A k \in 1 .. 3 : Len(o[k]) \in Nat \ {0}
    OBVIOUS
  <2> HIDE DEF o
  <2>2. Extends(Binary(c, o), Binary(a, o))
    BY <2>1, BinaryExtends
  <2> QED
    BY <2>2 DEF Product, o
<1>2. Extends(Sum(c), Sum(a))
  <2> DEFINE o == <<<<"+">>, <<"-">>>>
  <2>1. DOMAIN o = 1 .. 2 /\ \A k \in 1 .. 2 : Len(o[k]) \in Nat \ {0}
    OBVIOUS
  <2> HIDE DEF o
  <2>2. Extends(Binary(Product(c), o), Binary(Product(a), o))
    BY <1>1, <2>1, BinaryExtends
  <2> QED
    BY <2>2 DEF Sum, o
<1>3. Extends(Shift(c), Shift(a))
  <2> DEFINE o == <<<<"<", "<">>, <<">", ">">>>>
  <2>1. DOMAIN o = 1 .. 2 /\ \A k \in 1 .. 2 : Len(o[k]) \in Nat \ {0}
    OBVIOUS
  <2> HIDE DEF o
  <2>2. Extends(Binary(Sum(c), o), Binary(Sum(a), o))
    BY <1>2, <2>1, BinaryExtends
  <2> QED
    BY <2>2 DEF Shift, o
<1>4. Extends(Compare(ops, c), Compare(ops, a))
  BY <1>3, BinaryExtends DEF Compare
<1>5. Extends(Equals(ops, c), Equals(ops, a))
  <2> DEFINE o == <<<<"=", "=">>, <<"!", "=">>>>
  <2>1. DOMAIN o = 1 .. 2 /\ \A k \in 1 .. 2 : Len(o[k]) \in Nat \ {0}
    OBVIOUS
  <2> HIDE DEF o
  <2>2. Extends(Binary(Compare(ops, c), o), Binary(Compare(ops, a), o))
    BY <1>4, <2>1, BinaryExtends
  <2> QED
    BY <2>2 DEF Equals, o
<1>6. Extends(BitAnd(ops, c), BitAnd(ops, a))
  <2> DEFINE o == <<<<"&">>>>
  <2>1. DOMAIN o = 1 .. 1 /\ \A k \in 1 .. 1 : Len(o[k]) \in Nat \ {0}
    OBVIOUS
  <2> HIDE DEF o
  <2>2. Extends(Binary(Equals(ops, c), o), Binary(Equals(ops, a), o))
    BY <1>5, <2>1, BinaryExtends
  <2> QED
    BY <2>2 DEF BitAnd, o
<1>7. Extends(BitXor(ops, c), BitXor(ops, a))
  <2> DEFINE o == <<<<"^">>>>
  <2>1. DOMAIN o = 1 .. 1 /\ \A k \in 1 .. 1 : Len(o[k]) \in Nat \ {0}
    OBVIOUS
  <2> HIDE DEF o
  <2>2. Extends(Binary(BitAnd(ops, c), o), Binary(BitAnd(ops, a), o))
    BY <1>6, <2>1, BinaryExtends
  <2> QED
    BY <2>2 DEF BitXor, o
<1>8. Extends(BitOr(ops, c), BitOr(ops, a))
  <2> DEFINE o == <<<<"|">>>>
  <2>1. DOMAIN o = 1 .. 1 /\ \A k \in 1 .. 1 : Len(o[k]) \in Nat \ {0}
    OBVIOUS
  <2> HIDE DEF o
  <2>2. Extends(Binary(BitXor(ops, c), o), Binary(BitXor(ops, a), o))
    BY <1>7, <2>1, BinaryExtends
  <2> QED
    BY <2>2 DEF BitOr, o
<1>9. Extends(LogicalAnd(ops, c), LogicalAnd(ops, a))
  <2> DEFINE o == <<<<"&", "&">>>>
  <2>1. DOMAIN o = 1 .. 1 /\ \A k \in 1 .. 1 : Len(o[k]) \in Nat \ {0}
    OBVIOUS
  <2> HIDE DEF o
  <2>2. Extends(Binary(BitOr(ops, c), o), Binary(BitOr(ops, a), o))
    BY <1>8, <2>1, BinaryExtends
  <2> QED
    BY <2>2 DEF LogicalAnd, o
<1>10. Extends(LogicalOr(ops, c), LogicalOr(ops, a))
  <2> DEFINE o == <<<<"|", "|">>>>
  <2>1. DOMAIN o = 1 .. 1 /\ \A k \in 1 .. 1 : Len(o[k]) \in Nat \ {0}
    OBVIOUS
  <2> HIDE DEF o
  <2>2. Extends(Binary(LogicalAnd(ops, c), o), Binary(LogicalAnd(ops, a), o))
    BY <1>9, <2>1, BinaryExtends
  <2> QED
    BY <2>2 DEF LogicalOr, o
<1> QED
  BY <1>10

(* Rules that are extended extend what is told in terms of them.           *)
AllExtend(h, g) ==
  /\ Extends(h.program, g.program) /\ Extends(h.program_header, g.program_header)
  /\ Extends(h.declaration, g.declaration)
  /\ Extends(h.enum_declaration, g.enum_declaration)
  /\ Extends(h.union_declaration, g.union_declaration)
  /\ Extends(h.struct_declaration, g.struct_declaration)
  /\ Extends(h.type_declaration, g.type_declaration)
  /\ Extends(h.const_declaration, g.const_declaration)
  /\ Extends(h.global_var_block, g.global_var_block)
  /\ Extends(h.local_var_block, g.local_var_block)
  /\ Extends(h.parameter_declarations, g.parameter_declarations)
  /\ Extends(h.TYPESPEC, g.TYPESPEC) /\ Extends(h.SIMPLETYPE, g.SIMPLETYPE)
  /\ Extends(h.func_prototype_declaration, g.func_prototype_declaration)
  /\ Extends(h.import_func_declaration, g.import_func_declaration)
  /\ Extends(h.func_block, g.func_block)
  /\ Extends(h.method_block, g.method_block)
  /\ Extends(h.unary_block, g.unary_block) /\ Extends(h.unary_name, g.unary_name)
  /\ Extends(h.operator_block, g.operator_block)
  /\ Extends(h.operator_name, g.operator_name)
  /\ Extends(h.object_declaration, g.object_declaration)
  /\ Extends(h.object_ctor_block, g.object_ctor_block)
  /\ Extends(h.object_dtor_block, g.object_dtor_block)
  /\ Extends(h.interface_block, g.interface_block)
  /\ Extends(h.run_block, g.run_block) /\ Extends(h.statement, g.statement)
  /\ Extends(h.loop_statement, g.loop_statement)
  /\ Extends(h.exit_statement, g.exit_statement)
  /\ Extends(h.label_declaration, g.label_declaration)
  /\ Extends(h.goto_statement, g.goto_statement)
  /\ Extends(h.bind_statement, g.bind_statement)
  /\ Extends(h.for_in_loop, g.for_in_loop)
  /\ Extends(h.for_to_loop, g.for_to_loop)
  /\ Extends(h.for_downto_loop, g.for_downto_loop)
  /\ Extends(h.repeat_loop, g.repeat_loop) /\ Extends(h.while_loop, g.while_loop)
  /\ Extends(h.mf_call, g.mf_call) /\ Extends(h.var_expr, g.var_expr)
  /\ Extends(h.ptr_expr, g.ptr_expr) /\ Extends(h.var_subexpr, g.var_subexpr)
  /\ Extends(h.ptr_subexpr, g.ptr_subexpr) /\ Extends(h.EXPR, g.EXPR)
  /\ Extends(h.UNARYOP, g.UNARYOP) /\ Extends(h.OPERAND, g.OPERAND)
  /\ Extends(h.CONSTEXPR, g.CONSTEXPR) /\ Extends(h.CONSTUNARYOP, g.CONSTUNARYOP)
  /\ Extends(h.CONSTOPERAND, g.CONSTOPERAND)
  /\ Extends(h.QUALIFIEDIDENT, g.QUALIFIEDIDENT) /\ Extends(h.STRING, g.STRING)
LEMMA RulesExtend ==
  ASSUME TextOK, NEW g, NEW h, AllExtend(h, g)
  PROVE  AllExtend(Rules(h), Rules(g))
<1>0. ExtendsLaws /\ ExtendsAtoms
  BY ExtendsLawsHold, ExtendsAtomsHold
<1>1. Extends(program(h), program(g))
  <2>1. /\ Extends(h.program_header, g.program_header)
        /\ Extends(h.declaration, g.declaration)
        /\ Extends(h.run_block, g.run_block)
    BY DEF AllExtend
  <2> QED
    BY <1>0, <2>1 DEF program, ExtendsLaws, ExtendsAtoms
<1>2. Extends(program_header(h), program_header(g))
  BY <1>0 DEF program_header, ExtendsLaws, ExtendsAtoms
<1>3. Extends(declaration(h), declaration(g))
  <2>1. /\ Extends(h.enum_declaration, g.enum_declaration)
        /\ Extends(h.union_declaration, g.union_declaration)
        /\ Extends(h.struct_declaration, g.struct_declaration)
        /\ Extends(h.type_declaration, g.type_declaration)
        /\ Extends(h.const_declaration, g.const_declaration)
        /\ Extends(h.global_var_block, g.global_var_block)
        /\ Extends(h.func_prototype_declaration, g.func_prototype_declaration)
        /\ Extends(h.import_func_declaration, g.import_func_declaration)
        /\ Extends(h.func_block, g.func_block)
        /\ Extends(h.object_declaration, g.object_declaration)
        /\ Extends(h.object_ctor_block, g.object_ctor_block)
        /\ Extends(h.object_dtor_block, g.object_dtor_block)
        /\ Extends(h.interface_block, g.interface_block)
        /\ Extends(h.method_block, g.method_block)
        /\ Extends(h.unary_block, g.unary_block)
        /\ Extends(h.operator_block, g.operator_block)
    BY DEF AllExtend
  <2> QED
    BY <1>0, <2>1 DEF declaration, ExtendsLaws, ExtendsAtoms
<1>4. Extends(enum_declaration(h), enum_declaration(g))
  <2>1. /\ Extends(h.CONSTEXPR, g.CONSTEXPR)
    BY DEF AllExtend
  <2> QED
    BY <1>0, <2>1 DEF enum_declaration, Fields, EndWord, ExtendsLaws,
       ExtendsAtoms
<1>5. Extends(union_declaration(h), union_declaration(g))
  <2>1. /\ Extends(h.TYPESPEC, g.TYPESPEC)
    BY DEF AllExtend
  <2> QED
    BY <1>0, <2>1 DEF union_declaration, Fields, EndWord, Declarator,
       ExtendsLaws, ExtendsAtoms
<1>6. Extends(struct_declaration(h), struct_declaration(g))
  <2>1. /\ Extends(h.TYPESPEC, g.TYPESPEC)
    BY DEF AllExtend
  <2> QED
    BY <1>0, <2>1 DEF struct_declaration, Fields, EndWord, Declarator,
       ExtendsLaws, ExtendsAtoms
<1>7. Extends(type_declaration(h), type_declaration(g))
  <2>1. /\ Extends(h.CONSTEXPR, g.CONSTEXPR) /\ Extends(h.TYPESPEC, g.TYPESPEC)
    BY DEF AllExtend
  <2> QED
    BY <1>0, <2>1 DEF type_declaration, Initialized, Declarator, ExtendsLaws,
       ExtendsAtoms
<1>8. Extends(const_declaration(h), const_declaration(g))
  <2>1. /\ Extends(h.CONSTEXPR, g.CONSTEXPR) /\ Extends(h.TYPESPEC, g.TYPESPEC)
    BY DEF AllExtend
  <2> QED
    BY <1>0, <2>1 DEF const_declaration, Initialized, Declarator, ExtendsLaws,
       ExtendsAtoms
<1>9. Extends(global_var_block(h), global_var_block(g))
  <2>1. /\ Extends(h.EXPR, g.EXPR) /\ Extends(h.TYPESPEC, g.TYPESPEC)
    BY DEF AllExtend
  <2> QED
    BY <1>0, <2>1 DEF global_var_block, VarBlock, Fields, EndWord, Initialized,
       Declarator, ExtendsLaws, ExtendsAtoms
<1>10. Extends(local_var_block(h), local_var_block(g))
  <2>1. /\ Extends(h.EXPR, g.EXPR) /\ Extends(h.TYPESPEC, g.TYPESPEC)
    BY DEF AllExtend
  <2> QED
    BY <1>0, <2>1 DEF local_var_block, VarBlock, Fields, EndWord, Initialized,
       Declarator, ExtendsLaws, ExtendsAtoms
<1>11. Extends(parameter_declarations(h), parameter_declarations(g))
  <2>1. /\ Extends(h.TYPESPEC, g.TYPESPEC)
    BY DEF AllExtend
  <2> QED
    BY <1>0, <2>1 DEF parameter_declarations, Declarator, ExtendsLaws,
       ExtendsAtoms
<1>12. Extends(TYPESPEC(h), TYPESPEC(g))
  <2>1. /\ Extends(h.SIMPLETYPE, g.SIMPLETYPE)
        /\ Extends(h.CONSTEXPR, g.CONSTEXPR)
    BY DEF AllExtend
  <2> QED
    BY <1>0, <2>1 DEF TYPESPEC, AnyType, Dimension, ExtendsLaws, ExtendsAtoms
<1>13. Extends(SIMPLETYPE(h), SIMPLETYPE(g))
  <2>1. Extends(Operators(SimpleTypes), Operators(SimpleTypes))
    BY SimpleTypesAre, OperatorsExtend
  <2> QED
    BY <1>0, <2>1 DEF SIMPLETYPE, ExtendsLaws, ExtendsAtoms
<1>14. Extends(func_prototype_declaration(h), func_prototype_declaration(g))
  <2>1. /\ Extends(h.TYPESPEC, g.TYPESPEC)
        /\ Extends(h.parameter_declarations, g.parameter_declarations)
    BY DEF AllExtend
  <2> QED
    BY <1>0, <2>1 DEF func_prototype_declaration, Prototype, PrototypeSpecs,
       CALLSPEC, NAME, Parameters, ExtendsLaws, ExtendsAtoms
<1>15. Extends(import_func_declaration(h), import_func_declaration(g))
  <2>1. /\ Extends(h.STRING, g.STRING) /\ Extends(h.TYPESPEC, g.TYPESPEC)
        /\ Extends(h.parameter_declarations, g.parameter_declarations)
    BY DEF AllExtend
  <2> QED
    BY <1>0, <2>1 DEF import_func_declaration, ImportSpecs, CALLSPEC,
       TypeOrNone, NAME, Parameters, ExtendsLaws, ExtendsAtoms
<1>16. Extends(func_block(h), func_block(g))
  <2>1. /\ Extends(h.local_var_block, g.local_var_block)
        /\ Extends(h.parameter_declarations, g.parameter_declarations)
        /\ Extends(h.statement, g.statement) /\ Extends(h.TYPESPEC, g.TYPESPEC)
        /\ Extends(h.EXPR, g.EXPR)
    BY DEF AllExtend
  <2> QED
    BY <1>0, <2>1 DEF func_block, FunctionBlock, Block, EndWord, NoneSpecs,
       CALLSPEC, Parameters, PlainReturn, ReturnSpecs, ReturnType,
       ReturnStatement, NAME, ExtendsLaws, ExtendsAtoms
<1>17. Extends(method_block(h), method_block(g))
  <2>1. /\ Extends(h.local_var_block, g.local_var_block)
        /\ Extends(h.parameter_declarations, g.parameter_declarations)
        /\ Extends(h.statement, g.statement) /\ Extends(h.TYPESPEC, g.TYPESPEC)
        /\ Extends(h.EXPR, g.EXPR)
    BY DEF AllExtend
  <2> QED
    BY <1>0, <2>1 DEF method_block, FunctionBlock, Block, EndWord, NoneSpecs,
       CALLSPEC, Parameters, PlainReturn, ReturnSpecs, ReturnType,
       ReturnStatement, MemberName, ExtendsLaws, ExtendsAtoms
<1>18. Extends(unary_block(h), unary_block(g))
  <2>1. /\ Extends(h.unary_name, g.unary_name)
        /\ Extends(h.local_var_block, g.local_var_block)
        /\ Extends(h.EXPR, g.EXPR) /\ Extends(h.statement, g.statement)
    BY DEF AllExtend
  <2> QED
    BY <1>0, <2>1 DEF unary_block, Block, EndWord, ReturnStatement, ExtendsLaws,
       ExtendsAtoms
<1>19. Extends(unary_name(h), unary_name(g))
  BY <1>0 DEF unary_name, EndWord, ExtendsLaws, ExtendsAtoms
<1>20. Extends(operator_block(h), operator_block(g))
  <2>1. /\ Extends(h.operator_name, g.operator_name)
        /\ Extends(h.local_var_block, g.local_var_block)
        /\ Extends(h.TYPESPEC, g.TYPESPEC)
        /\ Extends(h.parameter_declarations, g.parameter_declarations)
        /\ Extends(h.EXPR, g.EXPR) /\ Extends(h.statement, g.statement)
    BY DEF AllExtend
  <2> QED
    BY <1>0, <2>1 DEF operator_block, Block, EndWord, ReturnSpecs, ReturnType,
       CALLSPEC, Parameters, ReturnStatement, ExtendsLaws, ExtendsAtoms
<1>21. Extends(operator_name(h), operator_name(g))
  <2>1. Extends(Operators(OperatorNames), Operators(OperatorNames))
    BY OperatorNamesAre, OperatorsExtend
  <2> QED
    BY <1>0, <2>1 DEF operator_name, ExtendsLaws, ExtendsAtoms
<1>22. Extends(object_declaration(h), object_declaration(g))
  <2>1. /\ Extends(h.TYPESPEC, g.TYPESPEC)
    BY DEF AllExtend
  <2> QED
    BY <1>0, <2>1 DEF object_declaration, EndWord, Declarator, ExtendsLaws,
       ExtendsAtoms
<1>23. Extends(object_ctor_block(h), object_ctor_block(g))
  <2>1. /\ Extends(h.local_var_block, g.local_var_block)
        /\ Extends(h.parameter_declarations, g.parameter_declarations)
        /\ Extends(h.EXPR, g.EXPR) /\ Extends(h.statement, g.statement)
    BY DEF AllExtend
  <2> QED
    BY <1>0, <2>1 DEF object_ctor_block, Block, EndWord, Parameters,
       ReturnStatement, ExtendsLaws, ExtendsAtoms
<1>24. Extends(object_dtor_block(h), object_dtor_block(g))
  <2>1. /\ Extends(h.local_var_block, g.local_var_block)
        /\ Extends(h.parameter_declarations, g.parameter_declarations)
        /\ Extends(h.EXPR, g.EXPR) /\ Extends(h.statement, g.statement)
    BY DEF AllExtend
  <2> QED
    BY <1>0, <2>1 DEF object_dtor_block, Block, EndWord, Parameters,
       ReturnStatement, ExtendsLaws, ExtendsAtoms
<1>25. Extends(interface_block(h), interface_block(g))
  <2>1. /\ Extends(h.TYPESPEC, g.TYPESPEC)
        /\ Extends(h.parameter_declarations, g.parameter_declarations)
    BY DEF AllExtend
  <2> QED
    BY <1>0, <2>1 DEF interface_block, EndWord, Prototype, PrototypeSpecs,
       CALLSPEC, NAME, Parameters, ExtendsLaws, ExtendsAtoms
<1>26. Extends(run_block(h), run_block(g))
  <2>1. /\ Extends(h.statement, g.statement)
        /\ Extends(h.local_var_block, g.local_var_block)
    BY DEF AllExtend
  <2> QED
    BY <1>0, <2>1 DEF run_block, Block, EndWord, ExtendsLaws, ExtendsAtoms
<1>27. Extends(statement(h), statement(g))
  <2>1. /\ Extends(h.exit_statement, g.exit_statement)
        /\ Extends(h.bind_statement, g.bind_statement)
        /\ Extends(h.goto_statement, g.goto_statement)
        /\ Extends(h.statement, g.statement)
        /\ Extends(h.for_in_loop, g.for_in_loop)
        /\ Extends(h.for_to_loop, g.for_to_loop)
        /\ Extends(h.for_downto_loop, g.for_downto_loop)
        /\ Extends(h.repeat_loop, g.repeat_loop)
        /\ Extends(h.while_loop, g.while_loop) /\ Extends(h.mf_call, g.mf_call)
        /\ Extends(h.var_expr, g.var_expr) /\ Extends(h.ptr_expr, g.ptr_expr)
        /\ Extends(h.label_declaration, g.label_declaration)
        /\ Extends(h.EXPR, g.EXPR)
    BY DEF AllExtend
  <2> QED
    BY <1>0, <2>1 DEF statement, EndWord, IfThen, Condition, IfBlock,
       ExtendsLaws, ExtendsAtoms
<1>28. Extends(loop_statement(h), loop_statement(g))
  <2>1. /\ Extends(h.loop_statement, g.loop_statement)
        /\ Extends(h.statement, g.statement) /\ Extends(h.EXPR, g.EXPR)
    BY DEF AllExtend
  <2> QED
    BY <1>0, <2>1 DEF loop_statement, EndWord, IfThen, Condition, IfBlock,
       ExtendsLaws, ExtendsAtoms
<1>29. Extends(exit_statement(h), exit_statement(g))
  <2>1. /\ Extends(h.EXPR, g.EXPR)
    BY DEF AllExtend
  <2> QED
    BY <1>0, <2>1 DEF exit_statement, ExtendsLaws, ExtendsAtoms
<1>30. Extends(label_declaration(h), label_declaration(g))
  BY <1>0 DEF label_declaration, ExtendsLaws, ExtendsAtoms
<1>31. Extends(goto_statement(h), goto_statement(g))
  BY <1>0 DEF goto_statement, ExtendsLaws, ExtendsAtoms
<1>32. Extends(bind_statement(h), bind_statement(g))
  <2>1. /\ Extends(h.QUALIFIEDIDENT, g.QUALIFIEDIDENT)
    BY DEF AllExtend
  <2> QED
    BY <1>0, <2>1 DEF bind_statement, ExtendsLaws, ExtendsAtoms
<1>33. Extends(for_in_loop(h), for_in_loop(g))
  <2>1. /\ Extends(h.EXPR, g.EXPR) /\ Extends(h.loop_statement, g.loop_statement)
    BY DEF AllExtend
  <2> QED
    BY <1>0, <2>1 DEF for_in_loop, ForLoop, Labelled, LoopBody, EndFor,
       ExtendsLaws, ExtendsAtoms
<1>34. Extends(for_to_loop(h), for_to_loop(g))
  <2>1. /\ Extends(h.EXPR, g.EXPR) /\ Extends(h.loop_statement, g.loop_statement)
    BY DEF AllExtend
  <2> QED
    BY <1>0, <2>1 DEF for_to_loop, ForLoop, Labelled, LoopBody, EndFor,
       ExtendsLaws, ExtendsAtoms
<1>35. Extends(for_downto_loop(h), for_downto_loop(g))
  <2>1. /\ Extends(h.EXPR, g.EXPR) /\ Extends(h.loop_statement, g.loop_statement)
    BY DEF AllExtend
  <2> QED
    BY <1>0, <2>1 DEF for_downto_loop, ForLoop, Labelled, LoopBody, EndFor,
       ExtendsLaws, ExtendsAtoms
<1>36. Extends(repeat_loop(h), repeat_loop(g))
  <2>1. /\ Extends(h.loop_statement, g.loop_statement) /\ Extends(h.EXPR, g.EXPR)
    BY DEF AllExtend
  <2> QED
    BY <1>0, <2>1 DEF repeat_loop, Labelled, LoopBody, Condition, ExtendsLaws,
       ExtendsAtoms
<1>37. Extends(while_loop(h), while_loop(g))
  <2>1. /\ Extends(h.EXPR, g.EXPR) /\ Extends(h.loop_statement, g.loop_statement)
    BY DEF AllExtend
  <2> QED
    BY <1>0, <2>1 DEF while_loop, Labelled, Condition, LoopBody, EndWhile,
       ExtendsLaws, ExtendsAtoms
<1>38. Extends(mf_call(h), mf_call(g))
  <2>1. /\ Extends(h.QUALIFIEDIDENT, g.QUALIFIEDIDENT) /\ Extends(h.EXPR, g.EXPR)
    BY DEF AllExtend
  <2> QED
    BY <1>0, <2>1 DEF mf_call, ExtendsLaws, ExtendsAtoms
<1>39. Extends(var_expr(h), var_expr(g))
  <2>1. /\ Extends(h.var_subexpr, g.var_subexpr)
    BY DEF AllExtend
  <2> QED
    BY <1>0, <2>1 DEF var_expr, ExtendsLaws, ExtendsAtoms
<1>40. Extends(ptr_expr(h), ptr_expr(g))
  <2>1. /\ Extends(h.ptr_subexpr, g.ptr_subexpr)
    BY DEF AllExtend
  <2> QED
    BY <1>0, <2>1 DEF ptr_expr, ExtendsLaws, ExtendsAtoms
<1>41. Extends(var_subexpr(h), var_subexpr(g))
  <2>1. /\ Extends(h.QUALIFIEDIDENT, g.QUALIFIEDIDENT) /\ Extends(h.EXPR, g.EXPR)
    BY DEF AllExtend
  <2> QED
    BY <1>0, <2>1 DEF var_subexpr, Assignments, Assign, ExtendsLaws,
       ExtendsAtoms
<1>42. Extends(ptr_subexpr(h), ptr_subexpr(g))
  <2>1. /\ Extends(h.EXPR, g.EXPR) /\ Extends(h.QUALIFIEDIDENT, g.QUALIFIEDIDENT)
    BY DEF AllExtend
  <2> QED
    BY <1>0, <2>1 DEF ptr_subexpr, Assignments, Assign, Pointed, ExtendsLaws,
       ExtendsAtoms
<1>43. Extends(EXPR(h), EXPR(g))
  BY LevelsExtend, CompareOpsAre DEF AllExtend, EXPR
<1>44. Extends(UNARYOP(h), UNARYOP(g))
  <2>1. /\ Extends(h.UNARYOP, g.UNARYOP) /\ Extends(h.OPERAND, g.OPERAND)
    BY DEF AllExtend
  <2> QED
    BY <1>0, <2>1 DEF UNARYOP, ExtendsLaws, ExtendsAtoms
<1>45. Extends(OPERAND(h), OPERAND(g))
  <2>1. /\ Extends(h.QUALIFIEDIDENT, g.QUALIFIEDIDENT) /\ Extends(h.EXPR, g.EXPR)
    BY DEF AllExtend
  <2> QED
    BY <1>0, <2>1 DEF OPERAND, Call, Pointed, ExtendsLaws, ExtendsAtoms
<1>46. Extends(CONSTEXPR(h), CONSTEXPR(g))
  BY LevelsExtend, ConstCompareOpsAre DEF AllExtend, CONSTEXPR
<1>47. Extends(CONSTUNARYOP(h), CONSTUNARYOP(g))
  <2>1. /\ Extends(h.CONSTUNARYOP, g.CONSTUNARYOP)
        /\ Extends(h.CONSTOPERAND, g.CONSTOPERAND)
    BY DEF AllExtend
  <2> QED
    BY <1>0, <2>1 DEF CONSTUNARYOP, ExtendsLaws, ExtendsAtoms
<1>48. Extends(CONSTOPERAND(h), CONSTOPERAND(g))
  <2>1. /\ Extends(h.QUALIFIEDIDENT, g.QUALIFIEDIDENT)
        /\ Extends(h.CONSTEXPR, g.CONSTEXPR) /\ Extends(h.EXPR, g.EXPR)
    BY DEF AllExtend
  <2> QED
    BY <1>0, <2>1 DEF CONSTOPERAND, Call, ExtendsLaws, ExtendsAtoms
<1>49. Extends(QUALIFIEDIDENT(h), QUALIFIEDIDENT(g))
  BY <1>0 DEF QUALIFIEDIDENT, ExtendsLaws, ExtendsAtoms
<1>50. Extends(quoted(h), quoted(g))
  BY <1>0 DEF quoted, ExtendsLaws, ExtendsAtoms
<1> QED
  BY <1>1, <1>2, <1>3, <1>4, <1>5, <1>6, <1>7, <1>8, <1>9, <1>10, <1>11, <1>12,
     <1>13, <1>14, <1>15, <1>16, <1>17, <1>18, <1>19, <1>20, <1>21, <1>22,
     <1>23, <1>24, <1>25, <1>26, <1>27, <1>28, <1>29, <1>30, <1>31, <1>32,
     <1>33, <1>34, <1>35, <1>36, <1>37, <1>38, <1>39, <1>40, <1>41, <1>42,
     <1>43, <1>44, <1>45, <1>46, <1>47, <1>48, <1>49, <1>50, RulesAre DEF
     AllExtend
-----------------------------------------------------------------------------
(* What the grammar says of a file: the solution of the equations that its *)
(* rules are.                                                              *)
Solves(h) == \A rule \in RuleNames, i \in Places : h[rule][i] = Rules(h)[rule][i]

LEMMA AllExtendIs ==
  ASSUME NEW g, NEW h
  PROVE  AllExtend(h, g) <=> \A rule \in RuleNames : Extends(h[rule], g[rule])
BY DEF AllExtend, RuleNames
LEMMA NothingExtended ==
  ASSUME NEW h
  PROVE  AllExtend(h, NothingKnown)
<1>1. ASSUME NEW rule \in RuleNames PROVE Extends(h[rule], NothingKnown[rule])
  <2>1. \A i \in Places : NothingKnown[rule][i] = Unknown
    BY DEF NothingKnown
  <2> QED
    BY <2>1, Ends DEF Extends
<1> QED
  BY <1>1, AllExtendIs

(* The deepest nesting answers for every rule.                             *)
LEMMA DeepestAnswers ==
  ASSUME TextOK, NEW rule \in RuleNames
  PROVE  Answers(RulesTo[Nesting][rule], 1)
<1> DEFINE g == RulesTo[Nesting]
<1>1. Known5(g, 1)
  BY AllKnown
<1> HIDE DEF g
<1>2. \A e : Reads(e, 1) => Answers(e, 1)
  BY ReadsAnswers
<1>3. Answers(g[rule], 1)
  BY <1>1, <1>2 DEF RuleNames, Known5, Known4, Known3, Known2, Known1
<1> QED
  BY <1>3 DEF g
LEMMA DeeperExtends ==
  ASSUME TextOK, NEW n \in 1 .. Nesting
  PROVE  AllExtend(RulesTo[n], RulesTo[n-1])
<1> DEFINE Is(k) == AllExtend(RulesTo[k], RulesTo[k-1])
           T == {k \in 1 .. Nesting : ~Is(k)}
<1>0. Nesting \in Nat
  BY DEF Nesting, Chain, TextOK
<1>1. ASSUME T # {} PROVE FALSE
  <2>1. T \in SUBSET Nat
    OBVIOUS
  <2>2. PICK k \in T : \A e \in T : k <= e
    BY <1>1, <2>1, LeastOf
  <2>3. CASE k = 1
    <3>1. RulesTo[k-1] = NothingKnown
      BY <1>0, <2>3, RulesToIs
    <3> QED
      BY <2>2, <3>1, NothingExtended
  <2>4. CASE k # 1
    <3>1. k-1 \in 1 .. Nesting /\ k-1 \notin T
      BY <1>0, <2>2, <2>4
    <3>2. AllExtend(RulesTo[k-1], RulesTo[k-1-1])
      BY <3>1
    <3>3. RulesTo[k] = Rules(RulesTo[k-1]) /\ RulesTo[k-1] = Rules(RulesTo[k-1-1])
      BY <1>0, <2>2, <3>1, RulesToIs
    <3>4. AllExtend(RulesTo[k], RulesTo[k-1])
      BY <3>2, <3>3, RulesExtend
    <3> QED
      BY <2>2, <3>4
  <2> QED
    BY <2>3, <2>4
<1> QED
  BY <1>1

(* It solves the equations, and no other solution differs from it.         *)
LEMMA DeepestSolves ==
  ASSUME TextOK
  PROVE  Solves(RulesTo[Nesting])
<1> DEFINE g == RulesTo[Nesting]
<1>1. Nesting \in 1 .. Nesting
  BY DEF Nesting, Chain, TextOK
<1>2. g = Rules(RulesTo[Nesting-1]) /\ AllExtend(g, RulesTo[Nesting-1])
  BY <1>1, RulesToIs, DeeperExtends
<1>3. AllExtend(Rules(g), g)
  BY <1>2, RulesExtend
<1>4. ASSUME NEW rule \in RuleNames, NEW i \in Places
      PROVE  g[rule][i] = Rules(g)[rule][i]
  <2>1. Extends(Rules(g)[rule], g[rule])
    BY <1>3, AllExtendIs
  <2>2. g[rule][i].end # -1
    BY DeepestAnswers DEF Answers, Places, TextOK
  <2> QED
    BY <2>1, <2>2 DEF Extends
<1> QED
  BY <1>4 DEF Solves
LEMMA SolutionExtends ==
  ASSUME TextOK, NEW h, Solves(h), NEW n \in 0 .. Nesting
  PROVE  AllExtend(h, RulesTo[n])
<1> DEFINE T == {k \in 0 .. Nesting : ~AllExtend(h, RulesTo[k])}
<1>0. Nesting \in Nat
  BY DEF Nesting, Chain, TextOK
<1>1. ASSUME T # {} PROVE FALSE
  <2>1. T \in SUBSET Nat
    OBVIOUS
  <2>2. PICK k \in T : \A e \in T : k <= e
    BY <1>1, <2>1, LeastOf
  <2>3. CASE k = 0
    <3>1. RulesTo[k] = NothingKnown
      BY <1>0, <2>3, RulesToIs
    <3> QED
      BY <2>2, <3>1, NothingExtended
  <2>4. CASE k # 0
    <3>1. k-1 \in 0 .. Nesting /\ k-1 \notin T
      BY <1>0, <2>2, <2>4
    <3>2. RulesTo[k] = Rules(RulesTo[k-1]) /\ AllExtend(h, RulesTo[k-1])
      BY <2>2, <2>4, <3>1, RulesToIs
    <3>3. AllExtend(Rules(h), RulesTo[k])
      BY <3>2, RulesExtend
    <3>4. ASSUME NEW rule \in RuleNames PROVE Extends(h[rule], RulesTo[k][rule])
      <4>1. Extends(Rules(h)[rule], RulesTo[k][rule])
        BY <3>3, AllExtendIs
      <4> QED
        BY <4>1 DEF Extends, Solves
    <3>5. AllExtend(h, RulesTo[k])
      BY <3>4, AllExtendIs
    <3> QED
      BY <2>2, <3>5
  <2> QED
    BY <2>3, <2>4
<1> QED
  BY <1>1
LEMMA SolutionIs ==
  ASSUME TextOK, NEW h, Solves(h), NEW rule \in RuleNames, NEW i \in Places
  PROVE  h[rule][i] = RulesTo[Nesting][rule][i]
<1>1. Nesting \in 0 .. Nesting
  BY DEF Nesting, Chain, TextOK
<1>2. Extends(h[rule], RulesTo[Nesting][rule])
  BY <1>1, SolutionExtends, AllExtendIs
<1>3. RulesTo[Nesting][rule][i].end # -1
  BY DeepestAnswers DEF Answers, Places, TextOK
<1> QED
  BY <1>2, <1>3 DEF Extends

(* A program is all of its file.                                           *)
LEMMA ProgramIsAll ==
  ASSUME TextOK, RulesTo[Nesting].program[1].end > 0
  PROVE  RulesTo[Nesting].program[1].end = Len(text)+1
<1> DEFINE g == RulesTo[Nesting]
<1>1. 1 \in Places /\ 1 \in Nat \ {0}
  BY DEF Places, TextOK
<1>2. g.program[1] = program(g)[1]
  <2>1. "program" \in RuleNames
    BY DEF RuleNames
  <2>2. g["program"][1] = Rules(g)["program"][1]
    BY <1>1, <2>1, DeepestSolves DEF Solves
  <2> QED
    BY <2>2, RulesAre
<1>3. Answers(g.program_header, 1) /\ Answers(g.declaration, 1) /\ Answers(g.run_block, 1)
  <2>1. Known5(g, 1) /\ Laws(1)
    BY AllKnown, LawsHold
  <2> QED
    BY <2>1 DEF Known5, Known4, Known3, Known2, Known1, Laws
<1> HIDE DEF g
<1> DEFINE a == Blanks & g.program_header & Blanks & Each(g.declaration)
                & Opt(g.run_block) & Blanks & Each(g.declaration) & Blanks
<1>4. Answers(a, 1)
  <2>1. Laws(1) /\ Atoms(1)
    BY LawsHold, AtomsHold
  <2> QED
    BY <1>3, <2>1 DEF Laws, Atoms
<1>5. program(g) = a & EOF
  BY DEF program
<1> HIDE DEF a
<1>6. (a & EOF)[1].end = IF a[1].end > 0 THEN EOF[a[1].end].end ELSE a[1].end
  BY <1>1, ThenEnd
<1>7. a[1].end = 0 \/ a[1].end \in Places
  BY <1>1, <1>4 DEF Answers, Places
<1>8. ASSUME NEW i \in Places
      PROVE  EOF[i].end = IF i <= Len(text) THEN 0 ELSE i
  <2>1. Piece[i] = IF i <= Len(text) THEN At(i + 1) ELSE Failed
    BY Values
  <2>2. EOF[i] = IF Piece[i].end = 0 THEN At(i)
                 ELSE IF Piece[i].end > 0 THEN Failed ELSE Piece[i]
    BY Values DEF EOF
  <2> QED
    BY <2>1, <2>2, Ends DEF Places, TextOK
<1>9. g.program[1].end > 0
  BY DEF g
<1>10. g.program[1].end = Len(text)+1
  BY <1>2, <1>5, <1>6, <1>7, <1>8, <1>9 DEF Places, TextOK
<1> QED
  BY <1>10 DEF g
-----------------------------------------------------------------------------
(* The parser says of a file what the grammar says.  The equations have a  *)
(* solution and only one; a file that is accepted is a program to its last *)
(* piece, printed as the grammar prints it, and one that is refused is     *)
(* none.                                                                   *)
Meant(h) ==
  \/ /\ status' = "accepted"
     /\ h.program[1].end = Len(text)+1 /\ h.program[1].out = out'
  \/ status' = "error" /\ h.program[1].end = 0
ReadAsMeant == [][(\E h : Solves(h)) /\ (\A h : Solves(h) => Meant(h))]_vars
THEOREM FilesReadAsMeant == Spec => ReadAsMeant
<1>1. Init => TextOK
  BY ProgramsAssumption DEF Init, TextOK
<1>2. TextOK /\ [Next]_vars => TextOK'
  BY DEF Next, Parse, vars, TextOK
<1>3. TextOK /\ [Next]_vars => [(\E h : Solves(h)) /\ (\A h : Solves(h) => Meant(h))]_vars
  <2> SUFFICES ASSUME TextOK, Parse
               PROVE  (\E h : Solves(h)) /\ (\A h : Solves(h) => Meant(h))
    BY DEF Next
  <2>1. \E h : Solves(h)
    BY DeepestSolves
  <2>2. ASSUME NEW h, Solves(h) PROVE Meant(h)
    <3> DEFINE m == RulesTo[Nesting].program[1]
    <3>1. h.program[1] = m
      <4>1. "program" \in RuleNames /\ 1 \in Places
        BY DEF RuleNames, Places, TextOK
      <4>2. h["program"][1] = RulesTo[Nesting]["program"][1]
        BY <2>2, <4>1, SolutionIs
      <4> QED
        BY <4>2
    <3>2. m.end = 0 \/ m.end = Len(text)+1
      BY ProgramAnswered, ProgramIsAll DEF TextOK
    <3>3. \/ m.end > 0 /\ status' = "accepted" /\ out' = m.out
          \/ m.end = 0 /\ status' = "error"
          \/ m.end < 0
      BY DEF Parse
    <3> HIDE DEF m
    <3> QED
      BY <3>1, <3>2, <3>3 DEF Meant, TextOK
  <2> QED
    BY <2>1, <2>2
<1> QED
  BY <1>1, <1>2, <1>3, PTL DEF Spec, ReadAsMeant
-----------------------------------------------------------------------------
(* What the order of choices makes of every file, told of any solution.    *)
Fails(e, i) == e[i].end = 0
LEMMA FailsFirst ==
  ASSUME NEW i \in Places
  PROVE  /\ \A a, b : Fails(a, i) => Fails(a & b, i)
         /\ \A a, b : Fails(a, i) => Fails(a && b, i)
         /\ \A a, t : Fails(a, i) => Fails(Tag(t, a), i)
         /\ \A a, b : Fails(a, i) /\ Fails(b, i) => Fails(a | b, i)
<1>1. \A a, b : Fails(a, i) => Fails(a & b, i)
  BY ThenEnd DEF Fails
<1> QED
  BY <1>1, Values DEF Fails, &&
LEMMA LitFails ==
  ASSUME NEW i \in Places
  PROVE  \A p : ~ReadsAt(p, i) => Fails(Lit(p), i)
BY Values, Ends DEF Fails
LEMMA SolvedAt ==
  ASSUME NEW h, Solves(h), NEW i \in Places
  PROVE  /\ h.statement[i] = statement(h)[i]
         /\ h.loop_statement[i] = loop_statement(h)[i]
         /\ h.OPERAND[i] = OPERAND(h)[i]
         /\ h.QUALIFIEDIDENT[i] = QUALIFIEDIDENT(h)[i]
         /\ h.exit_statement[i] = exit_statement(h)[i]
         /\ h.bind_statement[i] = bind_statement(h)[i]
         /\ h.goto_statement[i] = goto_statement(h)[i]
<1>1. /\ "statement" \in RuleNames /\ "loop_statement" \in RuleNames
      /\ "OPERAND" \in RuleNames /\ "QUALIFIEDIDENT" \in RuleNames
      /\ "exit_statement" \in RuleNames /\ "bind_statement" \in RuleNames
      /\ "goto_statement" \in RuleNames
  BY DEF RuleNames
<1>2. \A rule \in RuleNames : h[rule][i] = Rules(h)[rule][i]
  BY DEF Solves
<1>3. /\ h["statement"][i] = Rules(h)["statement"][i]
      /\ h["loop_statement"][i] = Rules(h)["loop_statement"][i]
      /\ h["OPERAND"][i] = Rules(h)["OPERAND"][i]
      /\ h["QUALIFIEDIDENT"][i] = Rules(h)["QUALIFIEDIDENT"][i]
      /\ h["exit_statement"][i] = Rules(h)["exit_statement"][i]
      /\ h["bind_statement"][i] = Rules(h)["bind_statement"][i]
      /\ h["goto_statement"][i] = Rules(h)["goto_statement"][i]
  BY <1>1, <1>2
<1> QED
  BY <1>3, RulesAre
(* A literal is not read where its first piece is another.                 *)
LEMMA ReadsFirst ==
  ASSUME TextOK, NEW i \in Places
  PROVE  /\ \A p : ReadsAt(<<p>>, i) <=> i <= Len(text) /\ text[i] = p
         /\ \A p, q : ReadsAt(<<p, q>>, i) => text[i] = p
<1>1. i \in Nat /\ i+1-1 = i
  BY DEF Places, TextOK
<1>2. ASSUME NEW p PROVE ReadsAt(<<p>>, i) <=> i <= Len(text) /\ text[i] = p
  <2>1. Len(<<p>>) = 1 /\ DOMAIN <<p>> = {1} /\ <<p>>[1] = p
    OBVIOUS
  <2> QED
    BY <1>1, <2>1 DEF ReadsAt, TextOK
<1>3. ASSUME NEW p, NEW q, ReadsAt(<<p, q>>, i) PROVE text[i] = p
  <2>1. 1 \in DOMAIN <<p, q>> /\ <<p, q>>[1] = p
    OBVIOUS
  <2> QED
    BY <1>1, <1>3, <2>1 DEF ReadsAt
<1> QED
  BY <1>2, <1>3

LEMMA BlanksAt ==
  ASSUME TextOK, NEW i \in Places
  PROVE  /\ Blanks[i].end \in i .. Len(text)+1 /\ Blanks[i].end \in Places
         /\ Blanks[i] = At(Blanks[i].end)
         /\ i <= Len(text) /\ text[i] # Blank => Blanks[i] = At(i)
<1> DEFINE S == {k \in DOMAIN text : text[k] = Blank}
           j == Stretch(i, S)
<1>1. DOMAIN text = 1 .. Len(text) /\ i \in Nat \ {0} /\ i <= Len(text)+1
  BY DEF Places, TextOK
<1>2. j \in i .. Len(text)+1 /\ i .. j-1 \subseteq S
  BY <1>1, StretchEnds
<1>3. Blanks[i] = At(j)
  BY DEF Blanks
<1> HIDE DEF j
<1>4. ASSUME i <= Len(text), text[i] # Blank PROVE j = i
  <2>1. i \notin S
    BY <1>4
  <2> QED
    BY <1>1, <1>2, <2>1 DEF TextOK
<1> QED
  BY <1>1, <1>2, <1>3, <1>4, Ends DEF Places, TextOK
LEMMA PaddedAt ==
  ASSUME TextOK, NEW i \in Places, i <= Len(text), text[i] # Blank,
         NEW j \in Places, NEW e, NEW a, a[i] = [end |-> j, out |-> <<e>>]
  PROVE  Padded(a)[i] = [end |-> Blanks[j].end, out |-> <<e>>]
<1>1. Blanks[i] = [end |-> i, out |-> <<>>]
  BY BlanksAt DEF At
<1>2. Blanks[j] = [end |-> Blanks[j].end, out |-> <<>>]
  BY BlanksAt DEF At
<1>3. i > 0 /\ j > 0
  BY DEF Places, TextOK
<1>4. (Blanks & a)[i] = Blanks[i] ++ a[i]
  <2>1. (Blanks & a)[i] = IF Blanks[i].end > 0 THEN Blanks[i] ++ a[Blanks[i].end] ELSE Blanks[i]
    BY Values
  <2> QED
    BY <1>1, <1>3, <2>1
<1>5. (Blanks & a)[i] = [end |-> j, out |-> <<e>>]
  BY <1>1, <1>4 DEF ++
<1>6. ((Blanks & a) & Blanks)[i] = (Blanks & a)[i] ++ Blanks[j]
  <2> DEFINE b == Blanks & a
  <2>1. (b & Blanks)[i] = IF b[i].end > 0 THEN b[i] ++ Blanks[b[i].end] ELSE b[i]
    BY Values
  <2> QED
    BY <1>3, <1>5, <2>1
<1> QED
  BY <1>2, <1>5, <1>6 DEF Padded, ++
LEMMA TaggedAt ==
  ASSUME TextOK, NEW i \in Places, NEW j \in Places, NEW a, NEW tag, a[i] = At(j)
  PROVE  Tag(tag, a)[i] = [end |-> j, out |-> <<[tag |-> tag, text |-> Matched(i, j)]>>]
<1>1. a[i].end = j /\ a[i].out = <<>> /\ j > 0
  BY DEF At, Places, TextOK
<1>2. Tag(tag, a)[i] = [end |-> a[i].end,
                        out |-> Append(a[i].out, [tag |-> tag, text |-> Matched(i, a[i].end)])]
  BY <1>1 DEF Tag
<1>3. \A x : Append(<<>>, x) = <<x>>
  OBVIOUS
<1> QED
  BY <1>1, <1>2, <1>3
LEMMA PrintNothing == \A i, j : At(i) ++ At(j) = At(j)
<1>1. <<>> \o <<>> = <<>>
  OBVIOUS
<1> QED
  BY <1>1 DEF At, ++
LEMMA FirstAlternatives ==
  ASSUME NEW i \in Places
  PROVE  /\ \A a, b : Fails(a, i) => (a | b)[i] = b[i]
         /\ \A a, b : ~Fails(a, i) => (a | b)[i] = a[i]
BY Values DEF Fails
LEMMA NoEnd ==
  ASSUME TextOK, NEW i \in Places, ~ReadsAt(<<"end">>, i)
  PROVE  Fails(And(EndWord), i)
<1>1. EndWord[i] = Failed
  BY Values DEF EndWord, Word
<1>2. Not(EndWord)[i] = At(i)
  BY <1>1, Values, Ends
<1>3. i > 0
  BY DEF Places, TextOK
<1>4. Not(EndWord)[i].end > 0 /\ Not(EndWord)[i].end # 0
  BY <1>2, <1>3, Ends
<1> DEFINE a == Not(EndWord)
<1>5. Not(a)[i] = IF a[i].end = 0 THEN At(i) ELSE IF a[i].end > 0 THEN Failed ELSE a[i]
  BY Values
<1>6. Not(a)[i] = Failed
  BY <1>4, <1>5
<1> QED
  BY <1>6, Ends DEF Fails, And

(* In front of end nothing is a statement any more, whatever the word is   *)
(* that begins so (2173, 2191): every list of statements stops there.      *)
THEOREM EndStopsLists ==
  ASSUME TextOK, NEW h, Solves(h), NEW i \in Places,
         NEW k, k = Blanks[i].end, ReadsAt(<<"end">>, k)
  PROVE  Each(h.statement)[i] = At(k) /\ Each(h.loop_statement)[i] = At(k)
<1>1. k \in i .. Len(text)+1 /\ k \in Places /\ Blanks[i] = At(k) /\ k > 0
  BY BlanksAt DEF Places, TextOK
<1>2. Blanks[k] = At(k)
  <2>1. k <= Len(text) /\ text[k] = "end"
    BY <1>1, ReadsFirst
  <2>2. text[k] # Blank
    BY <2>1 DEF Blank
  <2> QED
    BY <1>1, <2>1, <2>2, BlanksAt
<1>3. And(EndWord)[k] = At(k)
  <2>1. EndWord[k] = At(k+1)
    BY <1>1, Values DEF EndWord, Word
  <2>2. EndWord[k].end > 0
    BY <1>1, <2>1, Ends DEF Places, TextOK
  <2>3. Not(EndWord)[k] = IF EndWord[k].end = 0 THEN At(k)
                          ELSE IF EndWord[k].end > 0 THEN Failed ELSE EndWord[k]
    <3>1. k \in Places
      BY <1>1
    <3> QED
      BY <3>1, Values
  <2>4. Not(EndWord)[k] = Failed
    BY <2>2, <2>3
  <2> QED
    BY <1>1, <2>4, Values, Ends DEF And
<1>4. h.statement[k] = At(k) /\ h.loop_statement[k] = At(k)
  <2>1. ~Fails(And(EndWord), k)
    BY <1>1, <1>3, Ends DEF Fails
  <2>2. \A b : (And(EndWord) | b)[k] = At(k)
    BY <1>1, <1>3, <2>1, FirstAlternatives
  <2>3. statement(h)[k] = At(k) /\ loop_statement(h)[k] = At(k)
    BY <2>2 DEF statement, loop_statement
  <2> QED
    BY <1>1, <2>3, SolvedAt
<1>5. ASSUME NEW body, body[k] = At(k) PROVE Each(body)[i] = At(k)
  <2> DEFINE a == Blanks & body
  <2>1. a[i] = At(k) /\ a[k] = At(k)
    <3>1. /\ a[i] = IF Blanks[i].end > 0 THEN Blanks[i] ++ body[Blanks[i].end] ELSE Blanks[i]
          /\ a[k] = IF Blanks[k].end > 0 THEN Blanks[k] ++ body[Blanks[k].end] ELSE Blanks[k]
      <4>1. k \in Places
        BY <1>1
      <4> QED
        BY <4>1, Values
    <3>2. Blanks[k].end = k /\ Blanks[i].end = k
      BY <1>2, Ends
    <3>3. a[i] = At(k) ++ At(k) /\ a[k] = At(k) ++ At(k)
      BY <1>1, <1>2, <1>5, <3>1, <3>2
    <3> QED
      BY <3>3, PrintNothing
  <2> HIDE DEF a
  <2>2. a[i].end = k /\ a[k].end = k
    BY <2>1, Ends
  <2>3. Many(a)[k] = At(k)
    <3>1. Many(a)[k] = IF a[k].end \in k+1 .. Len(text)+1 THEN a[k] ++ Many(a)[a[k].end]
                       ELSE IF a[k].end < 0 THEN a[k] ELSE At(k)
      BY <1>1, ManyIs
    <3> QED
      BY <1>1, <2>2, <3>1 DEF Places, TextOK
  <2>4. Many(a)[i] = IF a[i].end \in i+1 .. Len(text)+1 THEN a[i] ++ Many(a)[a[i].end]
                     ELSE IF a[i].end < 0 THEN a[i] ELSE At(i)
    BY ManyIs
  <2>5. CASE k = i
    BY <2>3, <2>5 DEF Each, a
  <2>6. CASE k # i
    <3>1. a[i].end \in i+1 .. Len(text)+1
      <4>1. i \in Nat /\ k \in Nat /\ Len(text) \in Nat /\ i <= k /\ k <= Len(text)+1
        BY <1>1 DEF Places, TextOK
      <4>2. k \in i+1 .. Len(text)+1
        BY <2>6, <4>1
      <4> QED
        BY <2>2, <4>2
    <3>2. Many(a)[i] = At(k) ++ At(k)
      BY <2>1, <2>2, <2>3, <2>4, <3>1
    <3> QED
      BY <3>2, PrintNothing DEF Each, a
  <2> QED
    BY <2>5, <2>6
<1> QED
  BY <1>4, <1>5

(* The one word of a break or next and the blanks after it.                *)
Leaves(tag, i) ==
  [end |-> Blanks[i+1].end, out |-> <<[tag |-> tag, text |-> Matched(i, i+1)]>>]
(* In a loop, break and next are statements wherever a statement can begin *)
(* with them (2191), of whatever name they are the beginning; what is left *)
(* of it begins the next.                                                  *)
THEOREM BreakAndNextWin ==
  ASSUME TextOK, NEW h, Solves(h), NEW i \in Places
  PROVE  /\ ReadsAt(<<"break">>, i) => h.loop_statement[i] = Leaves("BREAK", i)
         /\ ReadsAt(<<"next">>, i) => h.loop_statement[i] = Leaves("NEXT", i)
<1> DEFINE ifs == IfThen(h, h.loop_statement) | IfBlock(h, h.loop_statement)
           break == Tag("BREAK", Word("break"))
           next == Tag("NEXT", Word("next"))
           inner == ifs | break | next | h.statement
<1>1. ASSUME i <= Len(text), text[i] = "break" \/ text[i] = "next"
      PROVE  /\ i+1 \in Places /\ text[i] # Blank
             /\ Fails(And(EndWord), i) /\ Fails(ifs, i)
  <2>1. i+1 \in Places /\ text[i] # Blank
    <3>1. i+1 \in Places
      BY <1>1 DEF Places, TextOK
    <3>2. "break" # Blank /\ "next" # Blank
      BY DEF Blank
    <3> QED
      BY <1>1, <3>1, <3>2
  <2>2. ~ReadsAt(<<"end">>, i) /\ ~ReadsAt(<<"if">>, i)
    BY <1>1, ReadsFirst
  <2>3. Fails(Lit(<<"if">>), i)
    BY <2>2, LitFails
  <2>4. Fails(Condition(h, <<"if">>), i)
    BY <2>3, FailsFirst DEF Condition
  <2>5. Fails(IfThen(h, h.loop_statement), i) /\ Fails(IfBlock(h, h.loop_statement), i)
    BY <2>4, FailsFirst DEF IfThen, IfBlock
  <2> QED
    BY <2>1, <2>2, <2>5, NoEnd, FailsFirst
<1>2. h.loop_statement[i] = (And(EndWord) | Padded(inner))[i]
  BY SolvedAt DEF loop_statement
<1>3. \A p : ReadsAt(<<p>>, i) => i <= Len(text) /\ text[i] = p /\ Word(p)[i] = At(i+1)
  <2>1. \A p : Len(<<p>>) = 1
    OBVIOUS
  <2> QED
    BY <2>1, Values, ReadsFirst DEF Word
<1> HIDE DEF ifs
<1>4. ASSUME ReadsAt(<<"break">>, i) PROVE h.loop_statement[i] = Leaves("BREAK", i)
  <2>1. i+1 \in Places /\ text[i] # Blank /\ i <= Len(text)
    BY <1>1, <1>3, <1>4
  <2>2. break[i] = [end |-> i+1, out |-> <<[tag |-> "BREAK", text |-> Matched(i, i+1)]>>]
    BY <1>3, <1>4, <2>1, TaggedAt
  <2>3. ~Fails(break, i)
    BY <2>1, <2>2 DEF Fails, Places, TextOK
  <2> HIDE DEF break
  <2>4. (ifs | break)[i] = break[i]
    BY <1>1, <1>3, <1>4, FirstAlternatives
  <2>5. ((ifs | break) | next)[i] = break[i]
    BY <2>3, <2>4, FirstAlternatives DEF Fails
  <2>6. inner[i] = break[i]
    BY <2>3, <2>5, FirstAlternatives DEF Fails
  <2> HIDE DEF inner
  <2>7. Padded(inner)[i] = Leaves("BREAK", i)
    BY <2>1, <2>2, <2>6, PaddedAt DEF Leaves
  <2> QED
    BY <1>1, <1>2, <1>3, <1>4, <2>7, FirstAlternatives
<1>5. ASSUME ReadsAt(<<"next">>, i) PROVE h.loop_statement[i] = Leaves("NEXT", i)
  <2>1. i+1 \in Places /\ text[i] # Blank /\ i <= Len(text)
    BY <1>1, <1>3, <1>5
  <2>2. next[i] = [end |-> i+1, out |-> <<[tag |-> "NEXT", text |-> Matched(i, i+1)]>>]
    BY <1>3, <1>5, <2>1, TaggedAt
  <2>3. ~Fails(next, i)
    BY <2>1, <2>2 DEF Fails, Places, TextOK
  <2>4. Fails(break, i)
    <3>1. ~ReadsAt(<<"break">>, i)
      BY <1>5, ReadsFirst
    <3> QED
      BY <3>1, LitFails, FailsFirst DEF Word
  <2> HIDE DEF next, break
  <2>5. Fails(ifs | break, i)
    BY <1>1, <1>3, <1>5, <2>4, FailsFirst
  <2>6. ((ifs | break) | next)[i] = next[i]
    BY <2>5, FirstAlternatives
  <2>7. inner[i] = next[i]
    BY <2>3, <2>6, FirstAlternatives DEF Fails
  <2> HIDE DEF inner
  <2>8. Padded(inner)[i] = Leaves("NEXT", i)
    BY <2>1, <2>2, <2>7, PaddedAt DEF Leaves
  <2> QED
    BY <1>1, <1>2, <1>3, <1>5, <2>8, FirstAlternatives
<1> QED
  BY <1>4, <1>5

(* goto and a name are a goto wherever a statement can begin with them     *)
(* (2216), of whatever name goto is the beginning.                         *)
THEOREM GotoWins ==
  ASSUME TextOK, NEW h, Solves(h), NEW i \in Places, ReadsAt(<<"goto">>, i),
         NEW k, k = IDENT[Blanks[i+1].end].end, k > 0
  PROVE  h.statement[i] =
           [end |-> Blanks[k].end, out |-> <<[tag |-> "GOTO", text |-> Matched(i, k)]>>]
<1> DEFINE goto == Word("goto") && IDENT
           b == Blanks[i+1].end
<1>1. i <= Len(text) /\ text[i] = "goto" /\ i+1 \in Places
  BY ReadsFirst DEF Places, TextOK
<1>2. text[i] # Blank
  BY <1>1 DEF Blank
<1>3. ~ReadsAt(<<"end">>, i) /\ ~ReadsAt(<<"exit">>, i) /\ ~ReadsAt(<<"bind">>, i)
  BY <1>1, ReadsFirst
<1>4. Fails(exit_statement(h), i)
  BY <1>3, LitFails, FailsFirst DEF exit_statement, Word
<1>5. Fails(bind_statement(h), i)
  BY <1>3, LitFails, FailsFirst DEF bind_statement, Word
<1>6. b \in Places /\ Blanks[i+1] = At(b)
  BY <1>1, BlanksAt
<1> HIDE DEF b
<1>7. IDENT[b] = At(k) /\ k \in Places
  <2>1. b \in Nat \ {0} /\ b \in b .. Len(text)+1
    BY <1>6 DEF Places, TextOK
  <2>2. IDENT[b].end \in b+1 .. Len(text)+1
    BY <2>1, IDENTReads DEF Reads, b
  <2>3. IDENT[b] = Failed \/ \E j : IDENT[b] = At(j)
    BY <1>6 DEF IDENT
  <2> QED
    BY <1>6, <2>1, <2>2, <2>3, Ends DEF Places, TextOK, b
<1>8. goto[i] = At(k)
  <2>1. Word("goto")[i] = At(i+1)
    <3>1. Len(<<"goto">>) = 1
      OBVIOUS
    <3> QED
      BY <3>1, Values DEF Word
  <2>2. (Word("goto") & Blanks)[i] = At(b)
    <3>1. i+1 > 0
      BY DEF Places, TextOK
    <3> DEFINE w == Word("goto")
    <3>2. (w & Blanks)[i] = IF w[i].end > 0 THEN w[i] ++ Blanks[w[i].end] ELSE w[i]
      BY Values
    <3>3. (w & Blanks)[i] = At(i+1) ++ At(b)
      <4> HIDE DEF w
      <4> QED
        BY <1>6, <2>1, <3>1, <3>2, Ends DEF w
    <3> QED
      BY <3>3, PrintNothing
  <2> DEFINE c == Word("goto") & Blanks
  <2>3. (c & IDENT)[i] = IF c[i].end > 0 THEN c[i] ++ IDENT[c[i].end] ELSE c[i]
    BY Values
  <2>4. (c & IDENT)[i] = At(k)
    <3>1. b > 0
      BY <1>6 DEF Places, TextOK
    <3>2. c[i] = At(b) /\ c[i].end = b
      BY <2>2, Ends
    <3> HIDE DEF c
    <3>3. (c & IDENT)[i] = At(b) ++ At(k)
      BY <1>7, <2>3, <3>1, <3>2
    <3> QED
      BY <3>3, PrintNothing
  <2> QED
    BY <2>4 DEF &&
<1>9. goto_statement(h)[i] = [end |-> k, out |-> <<[tag |-> "GOTO", text |-> Matched(i, k)]>>]
  BY <1>7, <1>8, TaggedAt DEF goto_statement
<1>10. statement(h)[i] = [end |-> Blanks[k].end, out |-> <<[tag |-> "GOTO", text |-> Matched(i, k)]>>]
  <2>1. Fails(h.exit_statement, i) /\ Fails(h.bind_statement, i)
    BY <1>4, <1>5, SolvedAt DEF Fails
  <2>2. h.goto_statement[i] = goto_statement(h)[i]
    BY SolvedAt
  <2>3. ~Fails(h.goto_statement, i)
    BY <1>7, <1>9, <2>2 DEF Fails, Places, TextOK
  <2> DEFINE a3 == h.exit_statement | h.bind_statement | h.goto_statement
             a4 == a3 | IfThen(h, h.statement)
             a5 == a4 | IfBlock(h, h.statement)
             a6 == a5 | h.for_in_loop
             a7 == a6 | h.for_to_loop
             a8 == a7 | h.for_downto_loop
             a9 == a8 | h.repeat_loop
             a10 == a9 | h.while_loop
             a11 == a10 | h.mf_call
             a12 == a11 | h.var_expr
             a13 == a12 | h.ptr_expr
             a14 == a13 | h.label_declaration
  <2>4. a3[i] = h.goto_statement[i]
    BY <2>1, <2>3, FailsFirst, FirstAlternatives
  <2>5. \A d, e : ~Fails(d, i) => (d | e)[i] = d[i] /\ ~Fails(d | e, i)
    BY FirstAlternatives DEF Fails
  <2>6. ~Fails(a3, i)
    BY <2>3, <2>4 DEF Fails
  <2> HIDE DEF a3
  <2>7. a8[i] = a3[i] /\ ~Fails(a8, i)
    BY <2>5, <2>6
  <2> HIDE DEF a8
  <2>8. a14[i] = a8[i]
    BY <2>5, <2>7
  <2> DEFINE goes == [tag |-> "GOTO", text |-> Matched(i, k)]
  <2>9. a14[i] = [end |-> k, out |-> <<goes>>]
    BY <1>9, <2>2, <2>4, <2>7, <2>8
  <2>10. statement(h) = And(EndWord) | Padded(a14)
    BY DEF statement, a8, a3
  <2> HIDE DEF a14, goes
  <2>11. Padded(a14)[i] = [end |-> Blanks[k].end, out |-> <<goes>>]
    BY <1>1, <1>2, <1>7, <2>9, PaddedAt
  <2>12. (And(EndWord) | Padded(a14))[i] = Padded(a14)[i]
    BY <1>3, NoEnd, FirstAlternatives
  <2> QED
    BY <2>10, <2>11, <2>12 DEF goes
<1> QED
  BY <1>10, SolvedAt

LEMMA StepsReadAt ==
  ASSUME TextOK, NEW i \in Places, ~Fails(Step, i)
  PROVE  i <= Len(text) /\ text[i] \in {"+", "-"}
<1> DEFINE matching == {n \in DOMAIN Steps : ReadsAt(Steps[n], i)}
<1>1. ASSUME matching = {} PROVE Step[i] = Failed
  BY <1>1 DEF Step, Operators
<1>2. PICK n \in matching : TRUE
  BY <1>1, Ends DEF Fails
<1>3. ReadsAt(Steps[n], i) /\ n \in 1 .. 2
  BY <1>2, StepsAre
<1>4. Steps[1] = <<"+", "+">> /\ Steps[2] = <<"-", "-">>
  BY DEF Steps
<1>5. \E p : ReadsAt(<<p, p>>, i) /\ p \in {"+", "-"}
  BY <1>3, <1>4
<1>6. PICK p : ReadsAt(<<p, p>>, i) /\ p \in {"+", "-"}
  BY <1>5
<1>7. text[i] = p
  BY <1>6, ReadsFirst
<1>8. Len(<<p, p>>) = 2
  OBVIOUS
<1> QED
  BY <1>6, <1>7, <1>8 DEF ReadsAt, Places, TextOK
(* A name that is an operand takes the ++ or -- after it, whatever blanks, *)
(* line ends among them, are in between (2575): it is never the beginning  *)
(* of what follows.                                                        *)
THEOREM NameTakesStep ==
  ASSUME TextOK, NEW h, Solves(h), NEW i \in Places,
         NEW j, j = h.QUALIFIEDIDENT[i].end, j > 0,
         NEW k, k = Blanks[j].end, Step[k].end > 0
  PROVE  h.OPERAND[i].end = Step[k].end
<1> DEFINE q == h.QUALIFIEDIDENT
<1>1. j \in Places
  <2>1. "QUALIFIEDIDENT" \in RuleNames /\ i \in i .. Len(text)+1 /\ i \in 1 .. Len(text)+1
    BY DEF RuleNames, Places, TextOK
  <2>2. /\ h["QUALIFIEDIDENT"][i] = RulesTo[Nesting]["QUALIFIEDIDENT"][i]
        /\ Answers(RulesTo[Nesting]["QUALIFIEDIDENT"], 1)
    BY <2>1, SolutionIs, DeepestAnswers
  <2>3. j = 0 \/ j \in i .. Len(text)+1
    BY <2>1, <2>2 DEF Answers
  <2> QED
    BY <2>3 DEF Places, TextOK
<1>2. k \in Places /\ ~Fails(Step, k)
  BY <1>1, BlanksAt DEF Fails
<1>3. IDENT[i].end > 0
  <2>1. QUALIFIEDIDENT(h)[i].end = j
    BY SolvedAt
  <2>2. (IDENT & Each(Word(".") && IDENT))[i].end = j
    BY <2>1 DEF QUALIFIEDIDENT
  <2>3. i \in Nat \ {0} /\ i \in i .. Len(text)+1
    BY DEF Places, TextOK
  <2>4. IDENT[i].end = 0 \/ IDENT[i].end \in i+1 .. Len(text)+1
    BY <2>3, IDENTReads DEF Reads
  <2>5. IDENT[i].end # 0
    BY <2>2, FailsFirst DEF Fails, Places, TextOK
  <2> QED
    BY <2>3, <2>4, <2>5
<1>4. i <= Len(text) /\ IsWordPiece(text[i])
  <2>1. ~(i <= Len(text) /\ IsWordPiece(text[i])) => IDENT[i] = Failed
    BY DEF IDENT
  <2> QED
    BY <1>3, <2>1, Ends
<1>5. Fails(INTNUM, i)
  <2>1. text[i] \notin Digits
    BY <1>4 DEF IsWordPiece
  <2>2. INTNUM[i] = Failed
    BY <2>1 DEF INTNUM
  <2> QED
    BY <2>2, Ends DEF Fails
<1>6. Fails(Step, i)
  <2>1. {"+", "-"} \subseteq Punctuation
    BY DEF Punctuation
  <2> QED
    BY <1>4, <2>1, StepsReadAt DEF IsWordPiece
<1>7. \A a : (q && a)[i].end = a[k].end
  <2>1. (q & Blanks)[i].end = k
    BY ThenEnd
  <2>2. k > 0
    BY <1>2 DEF Places, TextOK
  <2>3. \A a : ((q & Blanks) & a)[i].end = a[k].end
    BY <2>1, <2>2, ThenEnd
  <2> QED
    BY <2>3 DEF &&
<1>8. Fails(Call(h), i)
  <2>1. text[k] # "("
    <3>1. "(" # "+" /\ "(" # "-"
      OBVIOUS
    <3> QED
      BY <1>2, <3>1, StepsReadAt
  <2>2. ~ReadsAt(<<"(">>, k)
    BY <1>2, <2>1, ReadsFirst
  <2>3. Fails(Word("("), k)
    BY <1>2, <2>2, LitFails DEF Word
  <2>4. Fails(q && Word("("), i)
    BY <1>7, <2>3 DEF Fails
  <2> QED
    BY <2>4, FailsFirst DEF Call
<1>9. (q && Step)[i].end = Step[k].end
  BY <1>7
<1> DEFINE a == INTNUM | Call(h)
                | Step && Pointed(h) && Step | Step && Pointed(h)
                | Step && q && Step | Step && q
<1>10. Fails(a, i)
  BY <1>5, <1>6, <1>8, FailsFirst
<1>11. OPERAND(h) = a | q && Step | q | Word("(") && h.EXPR && Word(")")
  BY DEF OPERAND
<1> HIDE DEF a, q
<1>12. (a | q && Step)[i] = (q && Step)[i]
  BY <1>10, FirstAlternatives
<1>13. ~Fails(q && Step, i) /\ ~Fails(a | q && Step, i)
  BY <1>9, <1>12 DEF Fails
<1>14. (a | q && Step | q | Word("(") && h.EXPR && Word(")"))[i] = (q && Step)[i]
  BY <1>12, <1>13, FirstAlternatives DEF Fails
<1> QED
  BY <1>9, <1>11, <1>14, SolvedAt

(* A table of literals is whole when none stands before a longer one that  *)
(* begins with it; shorter ones before a longer begin with another piece.  *)
Whole(ops) ==
  \A k, l \in DOMAIN ops :
    l < k /\ Len(ops[l]) < Len(ops[k]) => ops[l][1] # ops[k][1]
LEMMA TablesWhole ==
  /\ Whole(CompareOps) /\ Whole(AssignOps) /\ Whole(OperatorNames)
  /\ Whole(SimpleTypes) /\ Whole(Steps) /\ Whole(UnaryOps)
<1>1. Whole(CompareOps)
  BY CompareOpsAre DEF Whole, CompareOps
<1>2. Whole(AssignOps)
  <2> DEFINE ops == AssignOps
  <2>1. Len(ops[1]) = 1 /\ ops[1][1] = "="
    BY DEF AssignOps
  <2>2. \A k \in 2 .. 6 : Len(ops[k]) = 2 /\ ops[k][1] \in {"+", "-", "*", "/", "%"}
    BY DEF AssignOps
  <2>3. \A k \in 7 .. 8 : Len(ops[k]) = 3 /\ ops[k][1] \in {"<", ">"}
    BY DEF AssignOps
  <2>4. \A k \in 9 .. 11 : Len(ops[k]) = 2 /\ ops[k][1] \in {"&", "^", "|"}
    BY DEF AssignOps
  <2> HIDE DEF ops
  <2>5. DOMAIN ops = 1 .. 11
    BY AssignOpsAre DEF ops
  <2>6. Whole(ops)
    BY <2>1, <2>2, <2>3, <2>4, <2>5 DEF Whole
  <2> QED
    BY <2>6 DEF ops
<1>3. Whole(OperatorNames)
  <2> DEFINE ops == OperatorNames
  <2>1. \A k \in 1 .. 5 : Len(ops[k]) = 2 /\ ops[k][1] \in {"+", "-", "*", "/", "%"}
    BY DEF OperatorNames
  <2>2. \A k \in 6 .. 7 : Len(ops[k]) = 3 /\ ops[k][1] \in {"<", ">"}
    BY DEF OperatorNames
  <2>3. \A k \in 8 .. 17 : Len(ops[k]) = 2
    BY DEF OperatorNames
  <2>4. \A k \in 18 .. 28 : Len(ops[k]) = 1
    BY DEF OperatorNames
  <2> HIDE DEF ops
  <2>5. DOMAIN ops = 1 .. 28
    BY OperatorNamesAre DEF ops
  <2>6. ASSUME NEW k \in 1 .. 28, NEW l \in 1 .. 28, l < k, Len(ops[l]) < Len(ops[k])
        PROVE  ops[l][1] # ops[k][1]
    <3>0. Len(ops[k]) \in Nat /\ Len(ops[l]) \in Nat
      BY OperatorNamesAre DEF ops
    <3> DEFINE m == Len(ops[k])
               n == Len(ops[l])
    <3>1. /\ k \in 18 .. 28 => m = 1
          /\ k \in 8 .. 17 => m = 2
          /\ k \in 6 .. 7 => m = 3 /\ ops[k][1] \in {"<", ">"}
          /\ k \in 1 .. 5 => m = 2
      BY <2>1, <2>2, <2>3, <2>4
    <3>2. /\ l \in 18 .. 28 => n = 1
          /\ l \in 8 .. 17 => n = 2
          /\ l \in 6 .. 7 => n = 3
          /\ l \in 1 .. 5 => n = 2 /\ ops[l][1] \in {"+", "-", "*", "/", "%"}
      BY <2>1, <2>2, <2>3, <2>4
    <3>3. n < m
      BY <2>6
    <3> HIDE DEF m, n
    <3>4. m \in Nat /\ n \in Nat
      BY <3>0 DEF m, n
    <3>5. l \in 1 .. 5 /\ k \in 6 .. 7
      BY <2>6, <3>1, <3>2, <3>3, <3>4
    <3> QED
      BY <3>1, <3>2, <3>5
  <2> QED
    BY <2>5, <2>6 DEF Whole, ops
<1>4. Whole(SimpleTypes)
  <2> DEFINE ops == SimpleTypes
  <2>1. \A k \in 1 .. 4 : Len(ops[k]) = 3
    BY DEF SimpleTypes
  <2>2. \A k \in 5 .. 9 : Len(ops[k]) = 2
    BY DEF SimpleTypes
  <2>3. \A k \in 10 .. 14 : Len(ops[k]) = 1
    BY DEF SimpleTypes
  <2> HIDE DEF ops
  <2>4. DOMAIN ops = 1 .. 14
    BY SimpleTypesAre DEF ops
  <2>5. ASSUME NEW k \in 1 .. 14, NEW l \in 1 .. 14, l < k PROVE ~(Len(ops[l]) < Len(ops[k]))
    <3>0. Len(ops[k]) \in Nat /\ Len(ops[l]) \in Nat
      BY SimpleTypesAre DEF ops
    <3> DEFINE m == Len(ops[k])
               n == Len(ops[l])
    <3>1. /\ k \in 1 .. 4 => m = 3
          /\ k \in 5 .. 9 => m = 2
          /\ k \in 10 .. 14 => m = 1
      BY <2>1, <2>2, <2>3
    <3>2. /\ l \in 1 .. 4 => n = 3
          /\ l \in 5 .. 9 => n = 2
          /\ l \in 10 .. 14 => n = 1
      BY <2>1, <2>2, <2>3
    <3> HIDE DEF m, n
    <3>3. m \in Nat /\ n \in Nat
      BY <3>0 DEF m, n
    <3>4. ~(n < m)
      BY <2>5, <3>1, <3>2, <3>3
    <3> QED
      BY <3>4 DEF m, n
  <2> QED
    BY <2>4, <2>5 DEF Whole, ops
<1>5. Whole(Steps)
  BY StepsAre DEF Whole, Steps
<1>6. Whole(UnaryOps)
  BY UnaryOpsAre DEF Whole, UnaryOps
<1> QED
  BY <1>1, <1>2, <1>3, <1>4, <1>5, <1>6
LEMMA TablesOfSequences ==
  ASSUME NEW ops \in {CompareOps, AssignOps, OperatorNames, SimpleTypes, Steps, UnaryOps},
         NEW k \in DOMAIN ops
  PROVE  1 \in DOMAIN ops[k]
<1>1. \A m \in DOMAIN CompareOps : 1 \in DOMAIN CompareOps[m]
  BY CompareOpsAre DEF CompareOps
<1>2. \A m \in DOMAIN AssignOps : 1 \in DOMAIN AssignOps[m]
  BY AssignOpsAre DEF AssignOps
<1>3. \A m \in DOMAIN OperatorNames : 1 \in DOMAIN OperatorNames[m]
  <2>1. \A m \in 1 .. 9 : 1 \in DOMAIN OperatorNames[m]
    BY DEF OperatorNames
  <2>2. \A m \in 10 .. 18 : 1 \in DOMAIN OperatorNames[m]
    BY DEF OperatorNames
  <2>3. \A m \in 19 .. 28 : 1 \in DOMAIN OperatorNames[m]
    BY DEF OperatorNames
  <2>4. ASSUME NEW m \in 1 .. 28 PROVE 1 \in DOMAIN OperatorNames[m]
    <3>1. m \in 1 .. 9 \/ m \in 10 .. 18 \/ m \in 19 .. 28
      OBVIOUS
    <3> QED
      BY <2>1, <2>2, <2>3, <3>1
  <2> QED
    BY <2>4, OperatorNamesAre
<1>4. \A m \in DOMAIN SimpleTypes : 1 \in DOMAIN SimpleTypes[m]
  BY SimpleTypesAre DEF SimpleTypes
<1>5. \A m \in DOMAIN Steps : 1 \in DOMAIN Steps[m]
  BY StepsAre DEF Steps
<1>6. \A m \in DOMAIN UnaryOps : 1 \in DOMAIN UnaryOps[m]
  BY UnaryOpsAre DEF UnaryOps
<1> QED
  BY <1>1, <1>2, <1>3, <1>4, <1>5, <1>6
LEMMA OperatorsFirst ==
  ASSUME NEW i \in Places, NEW ops, NEW n \in Nat, DOMAIN ops = 1 .. n,
         NEW k \in DOMAIN ops, ReadsAt(ops[k], i)
  PROVE  \E l \in DOMAIN ops : /\ ReadsAt(ops[l], i) /\ l <= k
                               /\ Operators(ops)[i].end = i + Len(ops[l])
<1> DEFINE matching == {l \in DOMAIN ops : ReadsAt(ops[l], i)}
           first == CHOOSE l \in matching : \A m \in matching : l <= m
<1>1. k \in matching /\ matching \in SUBSET Nat
  OBVIOUS
<1>2. Operators(ops)[i] = At(i + Len(ops[first]))
  BY <1>1 DEF Operators
<1>3. \E l \in matching : \A m \in matching : l <= m
  BY <1>1, LeastOf
<1>4. first \in matching /\ \A m \in matching : first <= m
  BY <1>3
<1> HIDE DEF first
<1> QED
  BY <1>1, <1>2, <1>4, Ends

(* The order of literals cuts no operator and no type short (2114, 2497,   *)
(* 2539, 2677, ++ and --): what is taken is never shorter than a literal   *)
(* of the table that can be read.  In a constant expression it does: <=    *)
(* is taken for < there (2613), and never for itself.                      *)
THEOREM OperatorsAreWhole ==
  ASSUME TextOK, NEW i \in Places
  PROVE  /\ \A ops \in {CompareOps, AssignOps, OperatorNames, SimpleTypes, Steps, UnaryOps} :
              \A k \in DOMAIN ops :
                ReadsAt(ops[k], i) => Operators(ops)[i].end >= i + Len(ops[k])
         /\ ReadsAt(<<"<", "=">>, i) => Operators(ConstCompareOps)[i].end = i+1
<1>1. ASSUME NEW ops \in {CompareOps, AssignOps, OperatorNames, SimpleTypes, Steps, UnaryOps},
             NEW k \in DOMAIN ops, ReadsAt(ops[k], i)
      PROVE  Operators(ops)[i].end >= i + Len(ops[k])
  <2>1. Whole(ops)
    BY TablesWhole
  <2>2. \E n \in Nat : DOMAIN ops = 1 .. n /\ \A l \in DOMAIN ops : Len(ops[l]) \in Nat \ {0}
    BY CompareOpsAre, AssignOpsAre, OperatorNamesAre, SimpleTypesAre, StepsAre, UnaryOpsAre
  <2>3. PICK n \in Nat : DOMAIN ops = 1 .. n /\ \A l \in DOMAIN ops : Len(ops[l]) \in Nat \ {0}
    BY <2>2
  <2>4. PICK l \in DOMAIN ops : /\ ReadsAt(ops[l], i) /\ l <= k
                                /\ Operators(ops)[i].end = i + Len(ops[l])
    BY <1>1, <2>3, OperatorsFirst
  <2>5. \A m \in DOMAIN ops : ReadsAt(ops[m], i) => ops[m][1] = text[i]
    <3> SUFFICES ASSUME NEW m \in DOMAIN ops, ReadsAt(ops[m], i) PROVE ops[m][1] = text[i]
      OBVIOUS
    <3>1. 1 \in DOMAIN ops[m]
      BY TablesOfSequences
    <3> QED
      BY <3>1 DEF ReadsAt, Places, TextOK
  <2>6. l = k \/ ~(Len(ops[l]) < Len(ops[k]))
    BY <1>1, <2>1, <2>3, <2>4, <2>5 DEF Whole
  <2> QED
    BY <2>3, <2>4, <2>6 DEF Places, TextOK
<1>2. ASSUME ReadsAt(<<"<", "=">>, i) PROVE Operators(ConstCompareOps)[i].end = i+1
  <2>1. ReadsAt(<<"<">>, i)
    <3>1. text[i] = "<"
      BY <1>2, ReadsFirst
    <3>2. Len(<<"<", "=">>) = 2
      OBVIOUS
    <3> QED
      BY <1>2, <3>1, <3>2, ReadsFirst DEF ReadsAt, Places, TextOK
  <2>2. ConstCompareOps[1] = <<"<">> /\ Len(<<"<">>) = 1
    BY DEF ConstCompareOps
  <2> DEFINE ops == ConstCompareOps
  <2>3. DOMAIN ops = 1 .. 4 /\ 1 \in DOMAIN ops /\ ReadsAt(ops[1], i) /\ Len(ops[1]) = 1
    BY <2>1, <2>2, ConstCompareOpsAre
  <2> HIDE DEF ops
  <2>4. PICK l \in DOMAIN ops : l <= 1 /\ Operators(ops)[i].end = i + Len(ops[l])
    BY <2>3, OperatorsFirst
  <2>5. l = 1
    BY <2>3, <2>4
  <2>6. Operators(ops)[i].end = i+1
    BY <2>3, <2>4, <2>5
  <2> QED
    BY <2>6 DEF ops
<1> QED
  BY <1>1, <1>2
=============================================================================
