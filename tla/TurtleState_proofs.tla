-------------------------- MODULE TurtleState_proofs --------------------------
(***************************************************************************)
(* Theorems about the stacks of State, for documents of any size and with  *)
(* any number of lists under a verb.                                       *)
(***************************************************************************)
EXTENDS TurtleState, SequenceTheorems, TLAPS

-----------------------------------------------------------------------------
(* A stack has its top at the front; its entries are numbered from the      *)
(* bottom, so that pushing and popping changes no number.                   *)

At(stack, i) == stack[Len(stack) + 1 - i]

LEMMA PushedOnto ==
  ASSUME NEW S, NEW stack \in Seq(S), NEW x \in S
  PROVE  /\ Pushed(x, stack) \in Seq(S)
         /\ Len(Pushed(x, stack)) = Len(stack) + 1
         /\ Pushed(x, stack) # <<>>
         /\ Head(Pushed(x, stack)) = x
         /\ Tail(Pushed(x, stack)) = stack
PROOF
  BY DEF Pushed

LEMMA AtPushed ==
  ASSUME NEW S, NEW stack \in Seq(S), NEW x \in S
  PROVE  /\ At(Pushed(x, stack), Len(stack) + 1) = x
         /\ \A i \in 1 .. Len(stack) : At(Pushed(x, stack), i) = At(stack, i)
PROOF
  <1>1. /\ Len(stack) \in Nat
        /\ Len(Pushed(x, stack)) = Len(stack) + 1
        /\ Pushed(x, stack)[1] = x
        /\ \A i \in 1 .. Len(stack) : Pushed(x, stack)[i + 1] = stack[i]
    BY DEF Pushed
  <1>2. At(Pushed(x, stack), Len(stack) + 1) = x
    <2>1. Len(stack) + 1 + 1 - (Len(stack) + 1) = 1
      BY <1>1
    <2> QED
      BY <1>1, <2>1 DEF At
  <1>3. ASSUME NEW i \in 1 .. Len(stack)
        PROVE  At(Pushed(x, stack), i) = At(stack, i)
    <2> DEFINE k == Len(stack) + 1 - i
    <2>1. k \in 1 .. Len(stack) /\ Len(stack) + 1 + 1 - i = k + 1
      BY <1>1
    <2> QED
      BY <1>1, <2>1 DEF At
  <1> QED
    BY <1>2, <1>3

LEMMA AtTail ==
  ASSUME NEW S, NEW stack \in Seq(S), stack # <<>>
  PROVE  /\ Head(stack) \in S /\ Tail(stack) \in Seq(S)
         /\ Len(Tail(stack)) = Len(stack) - 1 /\ Len(stack) \in Nat \ {0}
         /\ stack = Pushed(Head(stack), Tail(stack))
         /\ At(stack, Len(stack)) = Head(stack)
         /\ \A i \in 1 .. Len(stack) - 1 : At(Tail(stack), i) = At(stack, i)
PROOF
  <1>1. /\ Head(stack) \in S /\ Tail(stack) \in Seq(S)
        /\ Len(Tail(stack)) = Len(stack) - 1 /\ Len(stack) \in Nat \ {0}
        /\ Head(stack) = stack[1]
    OBVIOUS
  <1>2. stack = Pushed(Head(stack), Tail(stack))
    <2> DEFINE h == Head(stack)
               r == Tail(stack)
               again == Pushed(h, r)
    <2>1. h \in S /\ r \in Seq(S) /\ Len(r) + 1 = Len(stack)
      BY <1>1
    <2>2. \A i \in 1 .. Len(r) : stack[i + 1] = r[i]
      BY <1>1
    <2>3. stack[1] = h
      BY <1>1
    <2> HIDE DEF h, r
    <2>4. /\ again \in Seq(S) /\ Len(again) = Len(stack) /\ again[1] = h
          /\ \A i \in 1 .. Len(r) : again[i + 1] = r[i]
      BY <2>1 DEF Pushed
    <2> HIDE DEF again
    <2>5. ASSUME NEW i \in 1 .. Len(stack)
          PROVE  stack[i] = again[i]
      <3>1. CASE i = 1
        BY <2>3, <2>4, <3>1
      <3>2. CASE i # 1
        <4> DEFINE k == i - 1
        <4>1. k \in 1 .. Len(r) /\ i = k + 1
          BY <2>1, <3>2
        <4> HIDE DEF k
        <4> QED
          BY <2>2, <2>4, <4>1
      <3> QED
        BY <3>1, <3>2
    <2>6. stack = again
      BY <2>4, <2>5, SeqEqual
    <2> QED
      BY <2>6 DEF again, h, r
  <1>3. At(stack, Len(stack)) = Head(stack)
    <2>1. Len(stack) + 1 - Len(stack) = 1
      BY <1>1
    <2> QED
      BY <1>1, <2>1 DEF At
  <1>4. \A i \in 1 .. Len(Tail(stack)) : At(Pushed(Head(stack), Tail(stack)), i) = At(Tail(stack), i)
    <2> DEFINE h == Head(stack)
               r == Tail(stack)
    <2>1. h \in S /\ r \in Seq(S)
      BY <1>1
    <2> HIDE DEF h, r
    <2>2. \A i \in 1 .. Len(r) : At(Pushed(h, r), i) = At(r, i)
      BY <2>1, AtPushed
    <2> QED
      BY <2>2 DEF h, r
  <1> QED
    BY <1>1, <1>2, <1>3, <1>4


-----------------------------------------------------------------------------
(* What the stacks hold can be read off the rules that are still to be      *)
(* matched.  A shape has a frame for the statement and one for each open    *)
(* bracket: its kind, and how many verbs have been read in the frames up to *)
(* it.                                                                      *)
(*   begun        a statement without a subject                             *)
(*   subject      a statement with its subject, and no verb                 *)
(*   list         a "[", and no verb                                        *)
(*   open         a statement or list, among the objects of a verb          *)
(*   shut         a statement or list, after the objects of a verb          *)
(*   collection   a "("                                                     *)
(*   end          a statement whose triples have been inserted              *)
(* A shape also says whether element_ holds a term that is still to be      *)
(* used, one just read or any other, and which of tripleSeq1 and tripleSeq2 *)
(* has found the subject.                                                   *)

Frames == [kind : {"begun", "subject", "list", "open", "shut", "collection", "end"}, depth : Nat]

Frame(kind, depth) == [kind |-> kind, depth |-> depth]

Shapes == [frames : Seq(Frames), held : {"none", "term", "any"}, seq : 0 .. 2]

Shape(frames, held, seq) == [frames |-> frames, held |-> held, seq |-> seq]

Holding(shape, held) == Shape(shape.frames, held, shape.seq)

Nothing == Shape(<<>>, "none", 0)

Begun == <<Frame("begun", 0)>>

Subject == <<Frame("subject", 0)>>

AfterVerbs == <<Frame("shut", 1)>>

Ended == <<Frame("end", 1)>>

Verbal == {"open", "shut", "end"}

(* The depth of the verbs of a frame.                                       *)
VerbDepth(frame) == IF frame.kind \in Verbal THEN frame.depth ELSE frame.depth + 1

InnerIs(shape, kinds) == shape.frames # <<>> /\ Head(shape.frames).kind \in kinds

(* The frame of a bracket is opened, changed and closed.                    *)
Opened(shape, kind) ==
  Shape(Pushed(Frame(kind, Head(shape.frames).depth), shape.frames), "none", shape.seq)

WithVerb(shape, kind) ==
  Shape(Pushed(Frame(kind, VerbDepth(Head(shape.frames))), Tail(shape.frames)), "none", shape.seq)

ListClosed(frames, seq) ==
  IF frames = Begun THEN Shape(Subject, "any", 2) ELSE Shape(frames, "any", seq)

AtVerb(shape) == InnerIs(shape, {"subject", "list", "shut"})

AtObject(shape) == InnerIs(shape, {"open", "collection"}) /\ shape.held = "none"

AtBracket(shape) == InnerIs(shape, {"open", "collection", "begun"}) /\ shape.held = "none"

(* Matching a rule leads from one shape to another.                         *)
Move(rule, s, t) ==
  CASE rule \in {"turtleDoc", "triplesBlock", "moreStatements", "statement"} ->
         s = Nothing /\ t = Nothing
    [] rule = "beginStatement" -> s = Nothing /\ t = Shape(Begun, "none", 0)
    [] rule \in {"tripleSeq1", "tripleSeq2"} ->
         s = Shape(Begun, "none", 0) /\ t = Shape(Ended, "none", 0)
    [] rule = "clearTripleParameters" -> s = Shape(Ended, "none", 0) /\ t = Nothing
    [] rule = "subject" -> s = Shape(Begun, "none", 0) /\ t = Shape(Subject, "none", 1)
    [] rule = "setSubject" ->
         /\ s \in {Shape(Begun, "term", 0), Shape(Begun, "any", 0)}
         /\ t = Shape(Subject, "none", 1)
    [] rule = "processTripleSeq" -> s = Shape(AfterVerbs, "none", 1) /\ t = Shape(Ended, "none", 0)
    [] rule = "processTripleSeq2" ->
         /\ s \in {Shape(AfterVerbs, "none", 2), Shape(Subject, "any", 2)}
         /\ t = Shape(Ended, "none", 0)
    [] rule \in {"predicateObjectList", "predicateObjectListInner"} ->
         AtVerb(s) /\ t = WithVerb(s, "shut")
    [] rule = "moreVerbs" -> InnerIs(s, {"shut"}) /\ s.held = "none" /\ t = s
    [] rule = "processVerb" -> AtVerb(s) /\ s.held = "term" /\ t = WithVerb(s, "open")
    [] rule \in {"objectList", "moreObjects"} -> InnerIs(s, {"open"}) /\ s.held = "none" /\ t = s
    [] rule = "processPredicateObjectListInner" ->
         InnerIs(s, {"open"}) /\ s.held = "none" /\ t = WithVerb(s, "shut")
    [] rule = "object" -> AtObject(s) /\ t = s
    [] rule = "pushCurrentTerm" ->
         InnerIs(s, {"open", "collection"}) /\ s.held # "none" /\ t = Holding(s, "none")
    [] rule = "collection" -> AtBracket(s) /\ t = Holding(s, "any")
    [] rule = "collectionBegin" -> AtBracket(s) /\ t = Opened(s, "collection")
    [] rule = "items" -> InnerIs(s, {"collection"}) /\ s.held = "none" /\ t = s
    [] rule = "processCollection" ->
         InnerIs(s, {"collection"}) /\ s.held = "none" /\ t = Shape(Tail(s.frames), "any", s.seq)
    [] rule = "blankNodePropertyList" ->
         /\ s = Shape(Begun, "none", 0) \/ AtObject(s)
         /\ t = ListClosed(s.frames, s.seq)
    [] rule = "blankNodePropertyListBegin" -> AtBracket(s) /\ t = Opened(s, "list")
    [] rule = "processBlankNodePropertyList" ->
         /\ InnerIs(s, {"shut"}) /\ Len(s.frames) > 1 /\ s.held = "none"
         /\ t = ListClosed(Tail(s.frames), s.seq)
    [] rule = "term" -> t = Holding(s, "term")
    [] OTHER -> FALSE

(* Matching the rules of a sequence does.                                   *)
Route(sequence, P) ==
  /\ P \in [1 .. Len(sequence) + 1 -> Shapes]
  /\ \A i \in 1 .. Len(sequence) : Move(sequence[i], P[i], P[i + 1])

Runs(sequence, s, t) ==
  \E P : Route(sequence, P) /\ P[1] = s /\ P[Len(sequence) + 1] = t

LEMMA RunsEmpty ==
  ASSUME NEW s \in Shapes
  PROVE  Runs(<<>>, s, s)
PROOF
  <1> DEFINE P == [i \in 1 .. 1 |-> s]
  <1>1. Len(<<>>) = 0 /\ 1 .. 0 = {} /\ 0 + 1 = 1
    OBVIOUS
  <1>2. P \in [1 .. 1 -> Shapes] /\ P[1] = s
    OBVIOUS
  <1> HIDE DEF P
  <1>3. Route(<<>>, P)
    BY <1>1, <1>2 DEF Route
  <1> QED
    BY <1>1, <1>2, <1>3 DEF Runs

LEMMA EmptyRuns ==
  ASSUME NEW s, NEW t, Runs(<<>>, s, t)
  PROVE  s = t
PROOF
  <1>1. Len(<<>>) + 1 = 1
    OBVIOUS
  <1> QED
    BY <1>1 DEF Runs

LEMMA RunsHead ==
  ASSUME NEW S, NEW q \in Seq(S), q # <<>>, NEW s, NEW t, Runs(q, s, t)
  PROVE  s \in Shapes /\ \E u \in Shapes : Move(Head(q), s, u) /\ Runs(Tail(q), u, t)
PROOF
  <1> DEFINE n == Len(q)
             r == Tail(q)
  <1>1. /\ n \in Nat /\ n > 0 /\ r \in Seq(S) /\ Len(r) = n - 1
        /\ Head(q) = q[1] /\ \A i \in 1 .. n - 1 : r[i] = q[i + 1]
    OBVIOUS
  <1>2. PICK P : Route(q, P) /\ P[1] = s /\ P[n + 1] = t
    BY DEF Runs
  <1> HIDE DEF n, r
  <1>3. /\ P \in [1 .. n + 1 -> Shapes]
        /\ \A i \in 1 .. n : Move(q[i], P[i], P[i + 1])
    BY <1>2 DEF Route, n
  <1>4. 1 \in 1 .. n /\ 1 \in 1 .. n + 1 /\ 2 \in 1 .. n + 1 /\ 1 + 1 = 2
    BY <1>1
  <1>5. s \in Shapes /\ P[2] \in Shapes /\ Move(q[1], s, P[2])
    BY <1>2, <1>3, <1>4
  <1> DEFINE Q == [i \in 1 .. n |-> P[i + 1]]
  <1>6. ASSUME NEW i \in 1 .. n
        PROVE  i + 1 \in 1 .. n + 1 /\ Q[i] = P[i + 1]
    BY <1>1
  <1>7. Q \in [1 .. n -> Shapes] /\ n - 1 + 1 = n
    BY <1>1, <1>3, <1>6
  <1>8. Q[1] = P[2] /\ Q[n] = P[n + 1]
    BY <1>1, <1>4, <1>6
  <1> HIDE DEF Q
  <1>9. ASSUME NEW i \in 1 .. n - 1
        PROVE  Move(r[i], Q[i], Q[i + 1])
    <2>1. i \in 1 .. n /\ i + 1 \in 1 .. n
      BY <1>1
    <2>2. r[i] = q[i + 1] /\ Q[i] = P[i + 1] /\ Q[i + 1] = P[i + 1 + 1]
      BY <1>1, <1>6, <2>1 DEF Q
    <2> QED
      BY <1>3, <2>1, <2>2
  <1>10. Route(r, Q)
    BY <1>1, <1>7, <1>9 DEF Route
  <1> QED
    BY <1>1, <1>2, <1>5, <1>7, <1>8, <1>10 DEF Runs, r

LEMMA RunsConcat ==
  ASSUME NEW S, NEW q \in Seq(S), NEW r \in Seq(S), NEW s, NEW u, NEW t,
         Runs(q, s, u), Runs(r, u, t)
  PROVE  Runs(q \o r, s, t)
PROOF
  <1> DEFINE m == Len(q)
             n == Len(r)
             qr == q \o r
  <1>1. /\ m \in Nat /\ n \in Nat /\ Len(qr) = m + n
        /\ \A i \in 1 .. m + n : qr[i] = IF i <= m THEN q[i] ELSE r[i - m]
    OBVIOUS
  <1>2. PICK P : Route(q, P) /\ P[1] = s /\ P[m + 1] = u
    BY DEF Runs
  <1>3. PICK Q : Route(r, Q) /\ Q[1] = u /\ Q[n + 1] = t
    BY DEF Runs
  <1> HIDE DEF m, n, qr
  <1>4. /\ P \in [1 .. m + 1 -> Shapes]
        /\ \A i \in 1 .. m : Move(q[i], P[i], P[i + 1])
    BY <1>2 DEF Route, m
  <1>5. /\ Q \in [1 .. n + 1 -> Shapes]
        /\ \A i \in 1 .. n : Move(r[i], Q[i], Q[i + 1])
    BY <1>3 DEF Route, n
  <1> DEFINE R == [i \in 1 .. m + n + 1 |-> IF i <= m THEN P[i] ELSE Q[i - m]]
  <1>6. ASSUME NEW i \in 1 .. m
        PROVE  i \in 1 .. m + 1 /\ i \in 1 .. m + n /\ i \in 1 .. m + n + 1 /\ R[i] = P[i]
    BY <1>1
  <1>7. ASSUME NEW i \in m + 1 .. m + n + 1
        PROVE  i \in 1 .. m + n + 1 /\ i - m \in 1 .. n + 1 /\ R[i] = Q[i - m]
    BY <1>1
  <1>8. R \in [1 .. m + n + 1 -> Shapes]
    <2>1. ASSUME NEW i \in 1 .. m + n + 1
          PROVE  (IF i <= m THEN P[i] ELSE Q[i - m]) \in Shapes
      <3>1. CASE i <= m
        <4>1. i \in 1 .. m
          BY <1>1, <3>1
        <4> QED
          BY <1>4, <1>6, <3>1, <4>1
      <3>2. CASE ~(i <= m)
        <4>1. i \in m + 1 .. m + n + 1
          BY <1>1, <3>2
        <4> QED
          BY <1>5, <1>7, <3>2, <4>1
      <3> QED
        BY <3>1, <3>2
    <2> QED
      BY <2>1
  <1> HIDE DEF R
  <1>9. R[m + 1] = P[m + 1]
    <2> DEFINE k == m + 1
    <2>1. k \in m + 1 .. m + n + 1 /\ k - m = 1
      BY <1>1
    <2> HIDE DEF k
    <2>2. R[k] = Q[1]
      BY <1>7, <2>1
    <2> QED
      BY <1>2, <1>3, <2>2 DEF k
  <1>10. ASSUME NEW i \in 1 .. m + n
         PROVE  Move(qr[i], R[i], R[i + 1])
    <2>1. CASE i <= m
      <3>1. i \in 1 .. m /\ qr[i] = q[i]
        BY <1>1, <2>1
      <3>2. R[i + 1] = P[i + 1]
        <4>1. CASE i = m
          BY <1>9, <4>1
        <4>2. CASE i # m
          <5>1. i + 1 \in 1 .. m
            BY <1>1, <2>1, <4>2
          <5> QED
            BY <1>6, <5>1
        <4> QED
          BY <4>1, <4>2
      <3> QED
        BY <1>4, <1>6, <3>1, <3>2
    <2>2. CASE ~(i <= m)
      <3>1. qr[i] = r[i - m]
        BY <1>1, <2>2
      <3>2. /\ i \in m + 1 .. m + n + 1 /\ i + 1 \in m + 1 .. m + n + 1
            /\ i - m \in 1 .. n
        BY <1>1, <2>2
      <3>3. R[i] = Q[i - m]
        BY <1>7, <3>2
      <3>4. R[i + 1] = Q[i - m + 1]
        <4> DEFINE k == i + 1
        <4>1. k \in m + 1 .. m + n + 1 /\ k - m = i - m + 1
          BY <1>1, <3>2
        <4> HIDE DEF k
        <4>2. R[k] = Q[i - m + 1]
          BY <1>7, <4>1
        <4> QED
          BY <4>2 DEF k
      <3> QED
        BY <1>5, <3>1, <3>2, <3>3, <3>4
    <2> QED
      BY <2>1, <2>2
  <1>11. Route(qr, R)
    BY <1>1, <1>8, <1>10 DEF Route
  <1>12. R[1] = s
    <2>1. CASE m = 0
      BY <1>2, <1>9, <2>1
    <2>2. CASE m # 0
      <3>1. 1 \in 1 .. m
        BY <1>1, <2>2
      <3> QED
        BY <1>2, <1>6, <3>1
    <2> QED
      BY <2>1, <2>2
  <1>13. R[m + n + 1] = t
    <2> DEFINE k == m + n + 1
    <2>1. k \in m + 1 .. m + n + 1 /\ k - m = n + 1
      BY <1>1
    <2> HIDE DEF k
    <2>2. R[k] = Q[n + 1]
      BY <1>7, <2>1
    <2> QED
      BY <1>3, <2>2 DEF k
  <1> QED
    BY <1>1, <1>11, <1>12, <1>13 DEF Runs, qr

LEMMA RunsOne ==
  ASSUME NEW a, NEW s \in Shapes, NEW t \in Shapes, Move(a, s, t)
  PROVE  Runs(<<a>>, s, t)
PROOF
  <1> DEFINE q == <<a>>
             P == [i \in 1 .. 2 |-> IF i = 1 THEN s ELSE t]
  <1>1. Len(q) = 1 /\ q[1] = a /\ 1 + 1 = 2
    OBVIOUS
  <1>2. P \in [1 .. 2 -> Shapes] /\ P[1] = s /\ P[2] = t
    OBVIOUS
  <1> HIDE DEF P, q
  <1>3. ASSUME NEW i \in 1 .. 1
        PROVE  Move(q[i], P[i], P[i + 1])
    <2>1. i = 1
      OBVIOUS
    <2> QED
      BY <1>1, <1>2, <2>1
  <1>4. Route(q, P)
    BY <1>1, <1>2, <1>3 DEF Route
  <1> QED
    BY <1>1, <1>2, <1>4 DEF Runs, q

(* The same for the sequences of rules that the grammar has.                *)
LEMMA RunsTwo ==
  ASSUME NEW a, NEW b,
         NEW s \in Shapes, NEW u \in Shapes, NEW t \in Shapes,
         Move(a, s, u), Move(b, u, t)
  PROVE  Runs(<<a, b>>, s, t)
PROOF
  <1> DEFINE q == <<a, b>>
             P == [i \in 1 .. 3 |-> IF i = 1 THEN s ELSE IF i = 2 THEN u ELSE t]
  <1>1. Len(q) = 2 /\ q[1] = a /\ q[2] = b
    OBVIOUS
  <1>2. /\ P \in [1 .. 3 -> Shapes]
        /\ P[1] = s /\ P[2] = u /\ P[3] = t
    OBVIOUS
  <1> HIDE DEF P, q
  <1>3. ASSUME NEW i \in 1 .. 2
        PROVE  Move(q[i], P[i], P[i + 1])
    <2>1. i = 1 \/ i = 2
      OBVIOUS
    <2> QED
      BY <1>1, <1>2, <2>1
  <1>4. Route(q, P)
    BY <1>1, <1>2, <1>3 DEF Route
  <1> QED
    BY <1>1, <1>2, <1>4 DEF Runs, q

LEMMA RunsThree ==
  ASSUME NEW a, NEW b, NEW c,
         NEW s \in Shapes, NEW u \in Shapes, NEW v \in Shapes, NEW t \in Shapes,
         Move(a, s, u), Move(b, u, v), Move(c, v, t)
  PROVE  Runs(<<a, b, c>>, s, t)
PROOF
  <1> DEFINE q == <<a, b, c>>
             P == [i \in 1 .. 4 |-> IF i = 1 THEN s ELSE IF i = 2 THEN u ELSE IF i = 3 THEN v ELSE t]
  <1>1. Len(q) = 3 /\ q[1] = a /\ q[2] = b /\ q[3] = c
    OBVIOUS
  <1>2. /\ P \in [1 .. 4 -> Shapes]
        /\ P[1] = s /\ P[2] = u /\ P[3] = v /\ P[4] = t
    OBVIOUS
  <1> HIDE DEF P, q
  <1>3. ASSUME NEW i \in 1 .. 3
        PROVE  Move(q[i], P[i], P[i + 1])
    <2>1. i = 1 \/ i = 2 \/ i = 3
      OBVIOUS
    <2> QED
      BY <1>1, <1>2, <2>1
  <1>4. Route(q, P)
    BY <1>1, <1>2, <1>3 DEF Route
  <1> QED
    BY <1>1, <1>2, <1>4 DEF Runs, q

LEMMA RunsFour ==
  ASSUME NEW a, NEW b, NEW c, NEW d,
         NEW s \in Shapes, NEW u \in Shapes, NEW v \in Shapes, NEW w \in Shapes, NEW t \in Shapes,
         Move(a, s, u), Move(b, u, v), Move(c, v, w), Move(d, w, t)
  PROVE  Runs(<<a, b, c, d>>, s, t)
PROOF
  <1> DEFINE q == <<a, b, c, d>>
             P == [i \in 1 .. 5 |-> IF i = 1 THEN s ELSE IF i = 2 THEN u ELSE IF i = 3 THEN v ELSE IF i = 4 THEN w ELSE t]
  <1>1. Len(q) = 4 /\ q[1] = a /\ q[2] = b /\ q[3] = c /\ q[4] = d
    OBVIOUS
  <1>2. /\ P \in [1 .. 5 -> Shapes]
        /\ P[1] = s /\ P[2] = u /\ P[3] = v /\ P[4] = w /\ P[5] = t
    OBVIOUS
  <1> HIDE DEF P, q
  <1>3. ASSUME NEW i \in 1 .. 4
        PROVE  Move(q[i], P[i], P[i + 1])
    <2>1. i = 1 \/ i = 2 \/ i = 3 \/ i = 4
      OBVIOUS
    <2> QED
      BY <1>1, <1>2, <2>1
  <1>4. Route(q, P)
    BY <1>1, <1>2, <1>3 DEF Route
  <1> QED
    BY <1>1, <1>2, <1>4 DEF Runs, q


LEMMA ShapeFields ==
  /\ \A frames, held, seq : /\ Shape(frames, held, seq).frames = frames
                            /\ Shape(frames, held, seq).held = held
                            /\ Shape(frames, held, seq).seq = seq
  /\ \A frames \in Seq(Frames), held \in {"none", "term", "any"}, seq \in 0 .. 2 :
       Shape(frames, held, seq) \in Shapes
  /\ \A s \in Shapes : /\ s = Shape(s.frames, s.held, s.seq)
                       /\ s.frames \in Seq(Frames) /\ s.held \in {"none", "term", "any"}
                       /\ s.seq \in 0 .. 2
PROOF
  BY DEF Shape, Shapes

LEMMA FrameFields ==
  /\ \A kind, depth : Frame(kind, depth).kind = kind /\ Frame(kind, depth).depth = depth
  /\ \A kind \in {"begun", "subject", "list", "open", "shut", "collection", "end"}, depth \in Nat :
       Frame(kind, depth) \in Frames
  /\ \A f \in Frames : /\ f = Frame(f.kind, f.depth) /\ f.depth \in Nat
                       /\ VerbDepth(f) \in Nat
PROOF
  BY DEF Frame, Frames, VerbDepth

LEMMA HoldingFacts ==
  ASSUME NEW s \in Shapes, NEW held \in {"none", "term", "any"}
  PROVE  /\ Holding(s, held) \in Shapes
         /\ Holding(s, held).frames = s.frames /\ Holding(s, held).held = held
         /\ Holding(s, held).seq = s.seq
         /\ s.held = held => Holding(s, held) = s
PROOF
  BY ShapeFields DEF Holding

LEMMA OpenedFacts ==
  ASSUME NEW s \in Shapes, s.frames # <<>>, NEW kind \in {"list", "collection"}
  PROVE  /\ Opened(s, kind) \in Shapes
         /\ Opened(s, kind).frames = Pushed(Frame(kind, Head(s.frames).depth), s.frames)
         /\ Opened(s, kind).held = "none" /\ Opened(s, kind).seq = s.seq
         /\ Head(Opened(s, kind).frames) = Frame(kind, Head(s.frames).depth)
         /\ Head(Opened(s, kind).frames).kind = kind
         /\ Head(Opened(s, kind).frames).depth = Head(s.frames).depth
         /\ Tail(Opened(s, kind).frames) = s.frames
         /\ Opened(s, kind).frames # <<>>
         /\ Len(Opened(s, kind).frames) = Len(s.frames) + 1
         /\ Frame(kind, Head(s.frames).depth) \in Frames
PROOF
  <1> DEFINE f == Frame(kind, Head(s.frames).depth)
  <1>1. s.frames \in Seq(Frames) /\ Head(s.frames) \in Frames /\ s.seq \in 0 .. 2
    BY ShapeFields
  <1>2. f \in Frames /\ f.kind = kind /\ f.depth = Head(s.frames).depth
    BY <1>1, FrameFields
  <1> HIDE DEF f
  <1>3. /\ Pushed(f, s.frames) \in Seq(Frames) /\ Pushed(f, s.frames) # <<>>
        /\ Head(Pushed(f, s.frames)) = f /\ Tail(Pushed(f, s.frames)) = s.frames
        /\ Len(Pushed(f, s.frames)) = Len(s.frames) + 1
    <2> DEFINE r == s.frames
    <2>1. r \in Seq(Frames)
      BY <1>1
    <2> HIDE DEF r
    <2>2. /\ Pushed(f, r) \in Seq(Frames) /\ Pushed(f, r) # <<>>
          /\ Head(Pushed(f, r)) = f /\ Tail(Pushed(f, r)) = r
          /\ Len(Pushed(f, r)) = Len(r) + 1
      BY <1>2, <2>1, PushedOnto
    <2> QED
      BY <2>2 DEF r
  <1>4. Opened(s, kind) = Shape(Pushed(f, s.frames), "none", s.seq)
    BY DEF Opened, f
  <1>5. /\ Opened(s, kind) \in Shapes
        /\ Opened(s, kind).frames = Pushed(f, s.frames)
        /\ Opened(s, kind).held = "none" /\ Opened(s, kind).seq = s.seq
    BY <1>1, <1>3, <1>4, ShapeFields
  <1> QED
    BY <1>2, <1>3, <1>5 DEF f

LEMMA WithVerbFacts ==
  ASSUME NEW s \in Shapes, s.frames # <<>>, NEW kind \in {"open", "shut"}
  PROVE  LET f == Frame(kind, VerbDepth(Head(s.frames)))
         IN  /\ WithVerb(s, kind) \in Shapes
             /\ WithVerb(s, kind).frames = Pushed(f, Tail(s.frames))
             /\ WithVerb(s, kind).held = "none" /\ WithVerb(s, kind).seq = s.seq
             /\ Head(WithVerb(s, kind).frames) = f /\ f.kind = kind
             /\ f.depth = VerbDepth(Head(s.frames)) /\ VerbDepth(f) = f.depth
             /\ Tail(WithVerb(s, kind).frames) = Tail(s.frames)
             /\ WithVerb(s, kind).frames # <<>>
             /\ Len(WithVerb(s, kind).frames) = Len(s.frames)
             /\ f \in Frames
PROOF
  <1> DEFINE f == Frame(kind, VerbDepth(Head(s.frames)))
             r == Tail(s.frames)
  <1>1. /\ Head(s.frames) \in Frames /\ s.seq \in 0 .. 2
        /\ r \in Seq(Frames) /\ Len(r) + 1 = Len(s.frames)
    BY ShapeFields
  <1>2. /\ f \in Frames /\ VerbDepth(f) = f.depth /\ f.kind = kind
        /\ f.depth = VerbDepth(Head(s.frames))
    <2>1. f \in Frames /\ f.kind = kind /\ f.depth = VerbDepth(Head(s.frames))
      BY <1>1, FrameFields
    <2> HIDE DEF f
    <2> QED
      BY <2>1 DEF VerbDepth, Verbal
  <1>3. WithVerb(s, kind) = Shape(Pushed(f, r), "none", s.seq)
    BY DEF WithVerb
  <1> HIDE DEF f, r
  <1>4. /\ Pushed(f, r) \in Seq(Frames) /\ Pushed(f, r) # <<>>
        /\ Head(Pushed(f, r)) = f /\ Tail(Pushed(f, r)) = r
        /\ Len(Pushed(f, r)) = Len(r) + 1
    BY <1>1, <1>2, PushedOnto
  <1>5. /\ WithVerb(s, kind) \in Shapes
        /\ WithVerb(s, kind).frames = Pushed(f, r)
        /\ WithVerb(s, kind).held = "none" /\ WithVerb(s, kind).seq = s.seq
    BY <1>1, <1>3, <1>4, ShapeFields
  <1> QED
    BY <1>1, <1>2, <1>4, <1>5 DEF f, r

(* Changing the verb of a frame twice is changing it once.                  *)
LEMMA WithVerbTwice ==
  ASSUME NEW s \in Shapes, s.frames # <<>>
  PROVE  WithVerb(WithVerb(s, "open"), "shut") = WithVerb(s, "shut")
PROOF
  <1> DEFINE d == VerbDepth(Head(s.frames))
             u == WithVerb(s, "open")
  <1>1. /\ Head(u.frames) = Frame("open", d) /\ Tail(u.frames) = Tail(s.frames) /\ u.seq = s.seq
        /\ VerbDepth(Frame("open", d)) = Frame("open", d).depth
    BY WithVerbFacts
  <1>2. VerbDepth(Head(u.frames)) = d
    BY <1>1, FrameFields
  <1>3. WithVerb(u, "shut") = Shape(Pushed(Frame("shut", d), Tail(s.frames)), "none", s.seq)
    BY <1>1, <1>2 DEF WithVerb
  <1> QED
    BY <1>3 DEF WithVerb

LEMMA ShutAgain ==
  ASSUME NEW s \in Shapes, InnerIs(s, {"shut"}), s.held = "none"
  PROVE  WithVerb(s, "shut") = s
PROOF
  <1> DEFINE f == Head(s.frames)
  <1>1. /\ f \in Frames /\ s.frames \in Seq(Frames) /\ s.frames # <<>> /\ f.kind = "shut"
        /\ s = Shape(s.frames, "none", s.seq)
    BY ShapeFields DEF InnerIs
  <1>2. f = Frame("shut", VerbDepth(f))
    BY <1>1, FrameFields DEF VerbDepth, Verbal
  <1>3. s.frames = Pushed(f, Tail(s.frames))
    BY <1>1, AtTail
  <1> QED
    BY <1>1, <1>2, <1>3 DEF WithVerb

LEMMA StatementShapes ==
  /\ Nothing \in Shapes
  /\ \A held \in {"none", "term", "any"}, seq \in 0 .. 2 :
       /\ Shape(Begun, held, seq) \in Shapes /\ Shape(Subject, held, seq) \in Shapes
       /\ Shape(AfterVerbs, held, seq) \in Shapes /\ Shape(Ended, held, seq) \in Shapes
PROOF
  <1>1. /\ <<>> \in Seq(Frames) /\ Begun \in Seq(Frames) /\ Subject \in Seq(Frames)
        /\ AfterVerbs \in Seq(Frames) /\ Ended \in Seq(Frames)
    BY FrameFields DEF Begun, Subject, AfterVerbs, Ended
  <1>2. Nothing \in Shapes
    <2>1. <<>> \in Seq(Frames) /\ 0 \in 0 .. 2
      OBVIOUS
    <2> QED
      BY <2>1 DEF Nothing, Shape, Shapes
  <1>3. ASSUME NEW held \in {"none", "term", "any"}, NEW seq \in 0 .. 2
        PROVE  /\ Shape(Begun, held, seq) \in Shapes /\ Shape(Subject, held, seq) \in Shapes
               /\ Shape(AfterVerbs, held, seq) \in Shapes /\ Shape(Ended, held, seq) \in Shapes
    BY <1>1, ShapeFields
  <1> QED
    BY <1>2, <1>3


(* Move, rule by rule.                                                      *)
LEMMA StatementMoves ==
  ASSUME NEW s, NEW t
  PROVE  /\ \A rule \in {"turtleDoc", "triplesBlock", "moreStatements", "statement"} :
              Move(rule, s, t) <=> s = Nothing /\ t = Nothing
         /\ Move("beginStatement", s, t) <=> s = Nothing /\ t = Shape(Begun, "none", 0)
         /\ \A rule \in {"tripleSeq1", "tripleSeq2"} :
              Move(rule, s, t) <=> s = Shape(Begun, "none", 0) /\ t = Shape(Ended, "none", 0)
         /\ Move("clearTripleParameters", s, t) <=> s = Shape(Ended, "none", 0) /\ t = Nothing
         /\ Move("subject", s, t) <=> s = Shape(Begun, "none", 0) /\ t = Shape(Subject, "none", 1)
         /\ Move("setSubject", s, t) <=> /\ s \in {Shape(Begun, "term", 0), Shape(Begun, "any", 0)}
                                         /\ t = Shape(Subject, "none", 1)
         /\ Move("processTripleSeq", s, t) <=> s = Shape(AfterVerbs, "none", 1)
                                               /\ t = Shape(Ended, "none", 0)
         /\ Move("processTripleSeq2", s, t) <=>
              /\ s \in {Shape(AfterVerbs, "none", 2), Shape(Subject, "any", 2)}
              /\ t = Shape(Ended, "none", 0)
PROOF
  BY DEF Move

LEMMA VerbMoves ==
  ASSUME NEW s, NEW t
  PROVE  /\ \A rule \in {"predicateObjectList", "predicateObjectListInner"} :
              Move(rule, s, t) <=> AtVerb(s) /\ t = WithVerb(s, "shut")
         /\ Move("moreVerbs", s, t) <=> InnerIs(s, {"shut"}) /\ s.held = "none" /\ t = s
         /\ Move("processVerb", s, t) <=> AtVerb(s) /\ s.held = "term" /\ t = WithVerb(s, "open")
         /\ \A rule \in {"objectList", "moreObjects"} :
              Move(rule, s, t) <=> InnerIs(s, {"open"}) /\ s.held = "none" /\ t = s
         /\ Move("processPredicateObjectListInner", s, t) <=>
              InnerIs(s, {"open"}) /\ s.held = "none" /\ t = WithVerb(s, "shut")
         /\ Move("term", s, t) <=> t = Holding(s, "term")
PROOF
  BY DEF Move

LEMMA ObjectMoves ==
  ASSUME NEW s, NEW t
  PROVE  /\ Move("object", s, t) <=> AtObject(s) /\ t = s
         /\ Move("pushCurrentTerm", s, t) <=>
              InnerIs(s, {"open", "collection"}) /\ s.held # "none" /\ t = Holding(s, "none")
         /\ Move("collection", s, t) <=> AtBracket(s) /\ t = Holding(s, "any")
         /\ Move("collectionBegin", s, t) <=> AtBracket(s) /\ t = Opened(s, "collection")
         /\ Move("items", s, t) <=> InnerIs(s, {"collection"}) /\ s.held = "none" /\ t = s
         /\ Move("processCollection", s, t) <=>
              /\ InnerIs(s, {"collection"}) /\ s.held = "none"
              /\ t = Shape(Tail(s.frames), "any", s.seq)
         /\ Move("blankNodePropertyList", s, t) <=>
              (s = Shape(Begun, "none", 0) \/ AtObject(s)) /\ t = ListClosed(s.frames, s.seq)
         /\ Move("blankNodePropertyListBegin", s, t) <=> AtBracket(s) /\ t = Opened(s, "list")
         /\ Move("processBlankNodePropertyList", s, t) <=>
              /\ InnerIs(s, {"shut"}) /\ Len(s.frames) > 1 /\ s.held = "none"
              /\ t = ListClosed(Tail(s.frames), s.seq)
PROOF
  BY DEF Move


-----------------------------------------------------------------------------
(* Each alternative of a rule of the grammar leads where the rule does.     *)

RuleNames == {"turtleDoc", "triplesBlock", "moreStatements", "statement", "beginStatement",
              "tripleSeq1", "tripleSeq2", "clearTripleParameters", "subject", "setSubject",
              "processTripleSeq", "processTripleSeq2", "predicateObjectList",
              "predicateObjectListInner", "moreVerbs", "processVerb", "objectList", "moreObjects",
              "processPredicateObjectListInner", "object", "pushCurrentTerm", "collection",
              "collectionBegin", "items", "processCollection", "blankNodePropertyList",
              "blankNodePropertyListBegin", "processBlankNodePropertyList", "term"}

LEMMA StatementAlternatives ==
  ASSUME NEW rule \in {"turtleDoc", "triplesBlock", "moreStatements", "statement", "tripleSeq1",
                       "tripleSeq2", "subject"},
         NEW alternative \in Alternatives[rule], NEW s, NEW t, Move(rule, s, t)
  PROVE  Runs(alternative, s, t)
PROOF
  <1> DEFINE begun == Shape(Begun, "none", 0)
             ended == Shape(Ended, "none", 0)
             found == Shape(Subject, "none", 1)
             list == Shape(Subject, "any", 2)
  <1>1. /\ Nothing \in Shapes /\ begun \in Shapes /\ ended \in Shapes /\ found \in Shapes
        /\ list \in Shapes
    BY StatementShapes
  <1>2. Move("statement", Nothing, Nothing) /\ Move("moreStatements", Nothing, Nothing)
    BY StatementMoves
  <1>3. /\ Move("tripleSeq1", begun, ended) /\ Move("tripleSeq2", begun, ended)
        /\ Move("beginStatement", Nothing, begun) /\ Move("clearTripleParameters", ended, Nothing)
        /\ Move("subject", begun, found)
    BY StatementMoves
  <1>4. ASSUME NEW shape \in {found, list}
        PROVE  Move("predicateObjectList", shape, Shape(AfterVerbs, "none", shape.seq))
    <2>1. shape.frames = Subject
      BY ShapeFields
    <2>2. /\ Subject # <<>> /\ Head(Subject) = Frame("subject", 0) /\ Tail(Subject) = <<>>
          /\ Pushed(Frame("shut", 1), <<>>) = <<Frame("shut", 1)>>
      BY DEF Subject, Pushed
    <2>3. VerbDepth(Frame("subject", 0)) = 1 /\ Frame("subject", 0).kind = "subject"
      BY FrameFields DEF VerbDepth, Verbal
    <2>4. AtVerb(shape)
      BY <2>1, <2>2, <2>3 DEF AtVerb, InnerIs
    <2>5. WithVerb(shape, "shut") = Shape(AfterVerbs, "none", shape.seq)
      BY <2>1, <2>2, <2>3 DEF WithVerb, AfterVerbs
    <2> QED
      BY <2>4, <2>5, VerbMoves
  <1>5. found.seq = 1 /\ list.seq = 2
    BY ShapeFields
  <1>6. Shape(AfterVerbs, "none", 1) \in Shapes /\ Shape(AfterVerbs, "none", 2) \in Shapes
    BY StatementShapes
  <1>7. /\ Move("predicateObjectList", found, Shape(AfterVerbs, "none", 1))
        /\ Move("predicateObjectList", list, Shape(AfterVerbs, "none", 2))
    BY <1>4, <1>5
  <1>8. /\ Move("processTripleSeq", Shape(AfterVerbs, "none", 1), ended)
        /\ Move("processTripleSeq2", Shape(AfterVerbs, "none", 2), ended)
        /\ Move("processTripleSeq2", list, ended)
    BY StatementMoves
  <1>9. Move("blankNodePropertyList", begun, list)
    <2>1. ListClosed(begun.frames, begun.seq) = list
      BY ShapeFields DEF ListClosed
    <2> QED
      BY <2>1, ObjectMoves
  <1>10. /\ Move("term", begun, Shape(Begun, "term", 0))
         /\ Move("collection", begun, Shape(Begun, "any", 0))
         /\ Shape(Begun, "term", 0) \in Shapes /\ Shape(Begun, "any", 0) \in Shapes
    <2>1. Holding(begun, "term") = Shape(Begun, "term", 0)
          /\ Holding(begun, "any") = Shape(Begun, "any", 0)
      BY ShapeFields DEF Holding
    <2>2. AtBracket(begun)
      <3>1. begun.frames = Begun /\ begun.held = "none"
        BY ShapeFields
      <3>2. Begun # <<>> /\ Head(Begun).kind = "begun"
        BY FrameFields DEF Begun
      <3> QED
        BY <3>1, <3>2 DEF AtBracket, InnerIs
    <2> QED
      BY <2>1, <2>2, VerbMoves, ObjectMoves, StatementShapes
  <1>11. /\ Move("setSubject", Shape(Begun, "term", 0), found)
         /\ Move("setSubject", Shape(Begun, "any", 0), found)
    BY StatementMoves
  <1> HIDE DEF begun, ended, found, list
  <1>12. CASE rule \in {"turtleDoc", "triplesBlock", "moreStatements"}
    <2>1. s = Nothing /\ t = Nothing
      BY <1>12, StatementMoves
    <2>2. alternative = <<>> \/ alternative = <<"statement", "moreStatements">>
      BY <1>12 DEF Alternatives
    <2> QED
      BY <1>1, <1>2, <2>1, <2>2, RunsEmpty, RunsTwo
  <1>13. CASE rule = "statement"
    <2>1. s = Nothing /\ t = Nothing
      BY <1>13, StatementMoves
    <2>2. \/ alternative = <<"beginStatement", "tripleSeq1", "clearTripleParameters">>
          \/ alternative = <<"beginStatement", "tripleSeq2", "clearTripleParameters">>
      BY <1>13 DEF Alternatives
    <2> QED
      BY <1>1, <1>3, <2>1, <2>2, RunsThree
  <1>14. CASE rule \in {"tripleSeq1", "tripleSeq2"}
    <2>1. s = begun /\ t = ended
      BY <1>14, StatementMoves DEF begun, ended
    <2>2. \/ alternative = <<"subject", "predicateObjectList", "processTripleSeq">>
          \/ alternative = <<"blankNodePropertyList", "processTripleSeq2">>
          \/ alternative = <<"blankNodePropertyList", "predicateObjectList", "processTripleSeq2">>
      BY <1>14 DEF Alternatives
    <2>3. Runs(<<"subject", "predicateObjectList", "processTripleSeq">>, begun, ended)
      BY <1>1, <1>3, <1>6, <1>7, <1>8, RunsThree
    <2>4. Runs(<<"blankNodePropertyList", "processTripleSeq2">>, begun, ended)
      BY <1>1, <1>8, <1>9, RunsTwo
    <2>5. Runs(<<"blankNodePropertyList", "predicateObjectList", "processTripleSeq2">>, begun, ended)
      BY <1>1, <1>6, <1>7, <1>8, <1>9, RunsThree
    <2> QED
      BY <2>1, <2>2, <2>3, <2>4, <2>5
  <1>15. CASE rule = "subject"
    <2>1. s = begun /\ t = found
      BY <1>15, StatementMoves DEF begun, found
    <2>2. alternative = <<"term", "setSubject">> \/ alternative = <<"collection", "setSubject">>
      BY <1>15 DEF Alternatives
    <2> QED
      BY <1>1, <1>10, <1>11, <2>1, <2>2, RunsTwo
  <1> QED
    BY <1>12, <1>13, <1>14, <1>15

LEMMA VerbAlternatives ==
  ASSUME NEW rule \in {"predicateObjectList", "moreVerbs", "predicateObjectListInner"},
         NEW alternative \in Alternatives[rule],
         NEW s \in Shapes, NEW t \in Shapes, Move(rule, s, t)
  PROVE  Runs(alternative, s, t)
PROOF
  <1> DEFINE shut == WithVerb(s, "shut")
             open == WithVerb(s, "open")
             held == Holding(s, "term")
  <1>1. AtVerb(s) /\ t = shut
    <2>1. CASE rule = "moreVerbs"
      <3>1. InnerIs(s, {"shut"}) /\ s.held = "none" /\ t = s
        BY <2>1, VerbMoves
      <3> QED
        BY <3>1, ShutAgain DEF AtVerb, InnerIs
    <2>2. CASE rule \in {"predicateObjectList", "predicateObjectListInner"}
      BY <2>2, VerbMoves
    <2> QED
      BY <2>1, <2>2
  <1>2. s.frames # <<>> /\ Head(s.frames).kind \in {"subject", "list", "shut"}
    BY <1>1 DEF AtVerb, InnerIs
  <1>3. /\ shut \in Shapes /\ shut.held = "none" /\ InnerIs(shut, {"shut"})
    <2>1. Head(shut.frames).kind = "shut" /\ shut.frames # <<>>
      BY <1>2, WithVerbFacts
    <2> QED
      BY <1>2, <2>1, WithVerbFacts DEF InnerIs
  <1>4. /\ open \in Shapes /\ open.held = "none" /\ InnerIs(open, {"open"})
    <2>1. Head(open.frames).kind = "open" /\ open.frames # <<>>
      BY <1>2, WithVerbFacts
    <2> QED
      BY <1>2, <2>1, WithVerbFacts DEF InnerIs
  <1>5. /\ held \in Shapes /\ held.held = "term" /\ AtVerb(held)
        /\ held.frames = s.frames /\ held.seq = s.seq
    <2>1. held \in Shapes /\ held.held = "term" /\ held.frames = s.frames /\ held.seq = s.seq
      BY HoldingFacts
    <2> HIDE DEF held
    <2> QED
      BY <1>2, <2>1 DEF AtVerb, InnerIs
  <1>6. WithVerb(held, "open") = open
    BY <1>5 DEF WithVerb
  <1>7. WithVerb(open, "shut") = shut
    BY <1>2, WithVerbTwice
  <1>8. /\ Move("term", s, held)
        /\ Move("processVerb", held, open)
        /\ Move("objectList", open, open)
        /\ Move("processPredicateObjectListInner", open, shut)
    <2> HIDE DEF held, open, shut
    <2>1. Move("term", s, held)
      BY VerbMoves DEF held
    <2>2. Move("processVerb", held, open)
      BY <1>5, <1>6, VerbMoves
    <2>3. Move("objectList", open, open)
      BY <1>4, VerbMoves
    <2>4. Move("processPredicateObjectListInner", open, shut)
      BY <1>4, <1>7, VerbMoves
    <2> QED
      BY <2>1, <2>2, <2>3, <2>4
  <1>9. Move("predicateObjectListInner", s, shut) /\ Move("moreVerbs", shut, shut)
    <2> HIDE DEF shut
    <2>1. Move("moreVerbs", shut, shut)
      BY <1>3, VerbMoves
    <2>2. Move("predicateObjectListInner", s, shut)
      BY <1>1, VerbMoves DEF shut
    <2> QED
      BY <2>1, <2>2
  <1>10. alternative = <<>> => rule = "moreVerbs"
    BY DEF Alternatives
  <1>11. \/ alternative = <<>>
         \/ alternative = <<"predicateObjectListInner", "moreVerbs">>
         \/ alternative = <<"term", "processVerb", "objectList", "processPredicateObjectListInner">>
    BY DEF Alternatives
  <1>12. CASE alternative = <<>>
    <2>1. t = s
      BY <1>10, <1>12, VerbMoves
    <2> QED
      BY <1>12, <2>1, RunsEmpty
  <1> HIDE DEF shut, open, held
  <1>13. Runs(<<"predicateObjectListInner", "moreVerbs">>, s, shut)
    BY <1>3, <1>9, RunsTwo
  <1>14. Runs(<<"term", "processVerb", "objectList", "processPredicateObjectListInner">>, s, shut)
    BY <1>3, <1>4, <1>5, <1>8, RunsFour
  <1> QED
    BY <1>1, <1>11, <1>12, <1>13, <1>14

LEMMA ObjectAlternatives ==
  ASSUME NEW rule \in {"objectList", "moreObjects", "object", "items"},
         NEW alternative \in Alternatives[rule],
         NEW s \in Shapes, NEW t \in Shapes, Move(rule, s, t)
  PROVE  Runs(alternative, s, t)
PROOF
  <1>1. t = s /\ AtObject(s)
    <2>1. CASE rule \in {"objectList", "moreObjects"}
      BY <2>1, VerbMoves DEF AtObject, InnerIs
    <2>2. CASE rule \in {"object", "items"}
      BY <2>2, ObjectMoves DEF AtObject, InnerIs
    <2> QED
      BY <2>1, <2>2
  <1>2. Move("object", s, s)
    BY <1>1, ObjectMoves
  <1>3. CASE alternative = <<>>
    BY <1>1, <1>3, RunsEmpty
  <1>4. CASE alternative = <<"object", "moreObjects">>
    <2>1. rule \in {"objectList", "moreObjects"}
      BY <1>4 DEF Alternatives
    <2>2. Move("moreObjects", s, s)
      BY <1>1, <2>1, VerbMoves
    <2> QED
      BY <1>1, <1>2, <1>4, <2>2, RunsTwo
  <1>5. CASE alternative = <<"object", "items">>
    <2>1. rule = "items"
      BY <1>5 DEF Alternatives
    <2>2. Move("items", s, s)
      BY <1>1, <2>1
    <2> QED
      BY <1>1, <1>2, <1>5, <2>2, RunsTwo
  <1>6. CASE rule = "object"
    <2> DEFINE term == Holding(s, "term")
               any == Holding(s, "any")
    <2>1. /\ term \in Shapes /\ term.frames = s.frames /\ term.held = "term" /\ term.seq = s.seq
          /\ any \in Shapes /\ any.frames = s.frames /\ any.held = "any" /\ any.seq = s.seq
      BY HoldingFacts
    <2>2. /\ InnerIs(s, {"open", "collection"}) /\ s.held = "none"
      BY <1>1 DEF AtObject
    <2>3. /\ Holding(term, "none") = s /\ Holding(any, "none") = s
      <3>1. s = Shape(s.frames, "none", s.seq)
        BY <2>2, ShapeFields
      <3> HIDE DEF term, any
      <3> QED
        BY <2>1, <3>1 DEF Holding
    <2>4. Move("term", s, term)
      BY VerbMoves
    <2>5. Move("collection", s, any)
      BY <2>2, ObjectMoves DEF AtBracket, InnerIs
    <2>6. Move("blankNodePropertyList", s, any)
      <3>1. s.frames # Begun
        <4>1. Head(Begun).kind = "begun"
          BY FrameFields DEF Begun
        <4> QED
          BY <2>2, <4>1 DEF InnerIs
      <3>2. ListClosed(s.frames, s.seq) = any
        BY <3>1 DEF ListClosed, Holding
      <3> QED
        BY <1>1, <3>2, ObjectMoves
    <2> HIDE DEF term, any
    <2>7. Move("pushCurrentTerm", term, s) /\ Move("pushCurrentTerm", any, s)
      BY <2>1, <2>2, <2>3, ObjectMoves DEF InnerIs
    <2>8. \/ alternative = <<"term", "pushCurrentTerm">>
          \/ alternative = <<"collection", "pushCurrentTerm">>
          \/ alternative = <<"blankNodePropertyList", "pushCurrentTerm">>
      BY <1>6 DEF Alternatives
    <2> QED
      BY <1>1, <2>1, <2>4, <2>5, <2>6, <2>7, <2>8, RunsTwo
  <1>7. rule # "object" => \/ alternative = <<>>
                           \/ alternative = <<"object", "moreObjects">>
                           \/ alternative = <<"object", "items">>
    BY DEF Alternatives
  <1> QED
    BY <1>3, <1>4, <1>5, <1>6, <1>7


LEMMA CollectionRules ==
  /\ <<"collectionBegin">> \in Seq(RuleNames) /\ <<"processCollection">> \in Seq(RuleNames)
  /\ Items \in Seq(RuleNames)
  /\ <<"collectionBegin">> \o Items \in Seq(RuleNames)
  /\ <<"collectionBegin">> \o Items \o <<"processCollection">> \in Seq(RuleNames)
PROOF
  <1>1. {"collectionBegin", "processCollection", "object", "items"} \subseteq RuleNames
    BY DEF RuleNames
  <1>2. <<"items">> \in Seq(RuleNames) /\ <<"object", "items">> \in Seq(RuleNames)
    BY <1>1
  <1>3. /\ <<"collectionBegin">> \in Seq(RuleNames) /\ <<"processCollection">> \in Seq(RuleNames)
        /\ Items \in Seq(RuleNames)
    BY <1>1, <1>2 DEF Items
  <1> QED
    BY <1>3

LEMMA CollectionAlternatives ==
  ASSUME NEW alternative \in Alternatives["collection"],
         NEW s \in Shapes, NEW t \in Shapes, Move("collection", s, t)
  PROVE  Runs(alternative, s, t)
PROOF
  <1> DEFINE begin == <<"collectionBegin">>
             close == <<"processCollection">>
             inner == Opened(s, "collection")
  <1>1. alternative = begin \o Items \o close
    BY DEF Alternatives
  <1>2. AtBracket(s) /\ t = Holding(s, "any") /\ s.frames # <<>>
    BY ObjectMoves DEF AtBracket, InnerIs
  <1>3. /\ inner \in Shapes /\ inner.held = "none" /\ inner.seq = s.seq
        /\ InnerIs(inner, {"collection"}) /\ Tail(inner.frames) = s.frames
    BY <1>2, OpenedFacts DEF InnerIs
  <1>4. Move("collectionBegin", s, inner)
    BY <1>2, ObjectMoves
  <1> HIDE DEF inner
  <1>5. Move("processCollection", inner, t)
    BY <1>2, <1>3, ObjectMoves DEF Holding
  <1>6. Runs(begin, s, inner) /\ Runs(close, inner, t)
    BY <1>3, <1>4, <1>5, RunsOne
  <1>7. Runs(Items, inner, inner)
    <2>1. Move("items", inner, inner)
      BY <1>3, ObjectMoves
    <2>2. Move("object", inner, inner)
      BY <1>3, ObjectMoves DEF AtObject, InnerIs
    <2>3. Runs(<<"items">>, inner, inner) /\ Runs(<<"object", "items">>, inner, inner)
      BY <1>3, <2>1, <2>2, RunsOne, RunsTwo
    <2> QED
      BY <2>3 DEF Items
  <1>8. /\ begin \in Seq(RuleNames) /\ close \in Seq(RuleNames) /\ Items \in Seq(RuleNames)
        /\ begin \o Items \in Seq(RuleNames)
    BY CollectionRules
  <1> HIDE DEF begin, close
  <1>9. Runs(begin \o Items, s, inner)
    BY <1>6, <1>7, <1>8, RunsConcat
  <1> QED
    BY <1>1, <1>6, <1>8, <1>9, RunsConcat

LEMMA ListAlternatives ==
  ASSUME NEW alternative \in Alternatives["blankNodePropertyList"],
         NEW s \in Shapes, NEW t \in Shapes, Move("blankNodePropertyList", s, t)
  PROVE  Runs(alternative, s, t)
PROOF
  <1> DEFINE begun == Opened(s, "list")
             shut == WithVerb(begun, "shut")
  <1>1. AtBracket(s) /\ t = ListClosed(s.frames, s.seq) /\ s.frames # <<>>
    <2>1. (s = Shape(Begun, "none", 0) \/ AtObject(s)) /\ t = ListClosed(s.frames, s.seq)
      BY ObjectMoves
    <2>2. CASE s = Shape(Begun, "none", 0)
      <3>1. s.frames = Begun /\ s.held = "none"
        BY <2>2, ShapeFields
      <3>2. Begun # <<>> /\ Head(Begun).kind = "begun"
        BY FrameFields DEF Begun
      <3> QED
        BY <2>1, <3>1, <3>2 DEF AtBracket, InnerIs
    <2>3. CASE AtObject(s)
      BY <2>1, <2>3 DEF AtObject, AtBracket, InnerIs
    <2> QED
      BY <2>1, <2>2, <2>3
  <1>2. /\ begun \in Shapes /\ begun.seq = s.seq /\ begun.frames # <<>>
        /\ Head(begun.frames).kind = "list" /\ Tail(begun.frames) = s.frames
        /\ Len(begun.frames) = Len(s.frames) + 1
    BY <1>1, OpenedFacts
  <1>3. Move("blankNodePropertyListBegin", s, begun)
    BY <1>1, ObjectMoves
  <1> HIDE DEF begun
  <1>4. AtVerb(begun)
    BY <1>2 DEF AtVerb, InnerIs
  <1>5. /\ shut \in Shapes /\ shut.seq = s.seq /\ shut.held = "none" /\ shut.frames # <<>>
        /\ Tail(shut.frames) = s.frames /\ Len(shut.frames) = Len(s.frames) + 1
        /\ Head(shut.frames).kind = "shut"
    BY <1>2, WithVerbFacts
  <1>6. Move("predicateObjectList", begun, shut)
    BY <1>4, VerbMoves
  <1> HIDE DEF shut
  <1>7. Len(shut.frames) > 1
    <2>1. s.frames \in Seq(Frames)
      BY ShapeFields
    <2>2. Len(s.frames) \in Nat /\ Len(s.frames) # 0
      BY <1>1, <2>1
    <2> QED
      BY <1>5, <2>2
  <1>8. Move("processBlankNodePropertyList", shut, t)
    BY <1>1, <1>5, <1>7, ObjectMoves DEF InnerIs
  <1>9. alternative =
          <<"blankNodePropertyListBegin", "predicateObjectList", "processBlankNodePropertyList">>
    BY DEF Alternatives
  <1> QED
    BY <1>2, <1>3, <1>5, <1>6, <1>8, <1>9, RunsThree

LEMMA AlternativeRuns ==
  ASSUME NEW rule \in DOMAIN Alternatives, NEW alternative \in Alternatives[rule],
         NEW s \in Shapes, NEW t \in Shapes, Move(rule, s, t)
  PROVE  Runs(alternative, s, t)
PROOF
  <1>1. rule \in {"turtleDoc", "triplesBlock", "moreStatements", "statement", "tripleSeq1",
                  "tripleSeq2", "subject", "predicateObjectList", "moreVerbs",
                  "predicateObjectListInner", "objectList", "moreObjects", "object", "collection",
                  "items", "blankNodePropertyList"}
    BY DEF Alternatives
  <1>2. CASE rule \in {"turtleDoc", "triplesBlock", "moreStatements", "statement", "tripleSeq1",
                       "tripleSeq2", "subject"}
    BY <1>2, StatementAlternatives
  <1>3. CASE rule \in {"predicateObjectList", "moreVerbs", "predicateObjectListInner"}
    BY <1>3, VerbAlternatives
  <1>4. CASE rule \in {"objectList", "moreObjects", "object", "items"}
    BY <1>4, ObjectAlternatives
  <1> QED
    BY <1>1, <1>2, <1>3, <1>4, CollectionAlternatives, ListAlternatives

LEMMA AlternativeType ==
  ASSUME NEW rule \in DOMAIN Alternatives, NEW alternative \in Alternatives[rule]
  PROVE  alternative \in Seq(RuleNames)
PROOF
  <1>1. \/ alternative = <<>>
        \/ alternative = <<"statement", "moreStatements">>
        \/ alternative = <<"beginStatement", "tripleSeq1", "clearTripleParameters">>
        \/ alternative = <<"beginStatement", "tripleSeq2", "clearTripleParameters">>
        \/ alternative = <<"subject", "predicateObjectList", "processTripleSeq">>
        \/ alternative = <<"blankNodePropertyList", "processTripleSeq2">>
        \/ alternative = <<"blankNodePropertyList", "predicateObjectList", "processTripleSeq2">>
        \/ alternative = <<"term", "setSubject">>
        \/ alternative = <<"collection", "setSubject">>
        \/ alternative = <<"predicateObjectListInner", "moreVerbs">>
        \/ alternative = <<"term", "processVerb", "objectList", "processPredicateObjectListInner">>
        \/ alternative = <<"object", "moreObjects">>
        \/ alternative = <<"object", "items">>
        \/ alternative = <<"term", "pushCurrentTerm">>
        \/ alternative = <<"collection", "pushCurrentTerm">>
        \/ alternative = <<"blankNodePropertyList", "pushCurrentTerm">>
        \/ alternative = <<"blankNodePropertyListBegin", "predicateObjectList",
                           "processBlankNodePropertyList">>
        \/ alternative = <<"collectionBegin">> \o Items \o <<"processCollection">>
    BY DEF Alternatives
  <1>2. <<"collectionBegin">> \o Items \o <<"processCollection">> \in Seq(RuleNames)
    BY CollectionRules
  <1> DEFINE sequence == <<"collectionBegin">> \o Items \o <<"processCollection">>
  <1> HIDE DEF sequence
  <1>3. /\ \A a, b \in RuleNames : <<a, b>> \in Seq(RuleNames)
        /\ \A a, b, c \in RuleNames : <<a, b, c>> \in Seq(RuleNames)
        /\ \A a, b, c, d \in RuleNames : <<a, b, c, d>> \in Seq(RuleNames)
    OBVIOUS
  <1> DEFINE names == {"statement", "moreStatements", "beginStatement", "tripleSeq1", "tripleSeq2",
                       "clearTripleParameters", "subject", "setSubject", "processTripleSeq",
                       "processTripleSeq2", "predicateObjectList", "predicateObjectListInner",
                       "moreVerbs", "processVerb", "objectList", "moreObjects",
                       "processPredicateObjectListInner", "object", "pushCurrentTerm",
                       "collection", "items", "blankNodePropertyList",
                       "blankNodePropertyListBegin", "processBlankNodePropertyList", "term"}
  <1>8. names \subseteq RuleNames
    BY DEF RuleNames
  <1>4. /\ <<>> \in Seq(RuleNames)
        /\ <<"statement", "moreStatements">> \in Seq(RuleNames)
        /\ <<"blankNodePropertyList", "processTripleSeq2">> \in Seq(RuleNames)
        /\ <<"term", "setSubject">> \in Seq(RuleNames)
        /\ <<"collection", "setSubject">> \in Seq(RuleNames)
        /\ <<"predicateObjectListInner", "moreVerbs">> \in Seq(RuleNames)
    BY <1>3, <1>8
  <1>5. /\ <<"object", "moreObjects">> \in Seq(RuleNames)
        /\ <<"object", "items">> \in Seq(RuleNames)
        /\ <<"term", "pushCurrentTerm">> \in Seq(RuleNames)
        /\ <<"collection", "pushCurrentTerm">> \in Seq(RuleNames)
        /\ <<"blankNodePropertyList", "pushCurrentTerm">> \in Seq(RuleNames)
    BY <1>3, <1>8
  <1>6. /\ <<"beginStatement", "tripleSeq1", "clearTripleParameters">> \in Seq(RuleNames)
        /\ <<"beginStatement", "tripleSeq2", "clearTripleParameters">> \in Seq(RuleNames)
        /\ <<"subject", "predicateObjectList", "processTripleSeq">> \in Seq(RuleNames)
        /\ <<"blankNodePropertyList", "predicateObjectList", "processTripleSeq2">> \in Seq(RuleNames)
    BY <1>3, <1>8
  <1>7. /\ <<"blankNodePropertyListBegin", "predicateObjectList", "processBlankNodePropertyList">>
             \in Seq(RuleNames)
        /\ <<"term", "processVerb", "objectList", "processPredicateObjectListInner">>
             \in Seq(RuleNames)
    BY <1>3, <1>8
  <1> QED
    BY <1>1, <1>2, <1>4, <1>5, <1>6, <1>7


-----------------------------------------------------------------------------
(* The shapes that occur: the statement is the frame at the bottom, and     *)
(* there are brackets on a frame only among its objects or items, or in     *)
(* place of the subject.                                                    *)

InnerDepth(frames) == IF frames = <<>> THEN 0 ELSE Head(frames).depth

Below(frames, i) == IF i = 1 THEN 0 ELSE At(frames, i - 1).depth

DepthOver(frame, below) == frame.depth = below + (IF frame.kind \in Verbal THEN 1 ELSE 0)

WellFormed(frames) ==
  \A i \in 1 .. Len(frames) :
    /\ At(frames, i).kind \in {"begun", "subject", "end"} => i = 1
    /\ At(frames, i).kind \in {"list", "collection"} => i > 1
    /\ i < Len(frames) => At(frames, i).kind \in {"open", "collection", "begun"}
    /\ DepthOver(At(frames, i), Below(frames, i))
    /\ \A j \in 1 .. i - 1 : At(frames, j).depth <= Below(frames, i)

FitsOn(frame, frames) ==
  /\ frames = <<>> => frame.kind \notin {"list", "collection"}
  /\ frames # <<>> => /\ frame.kind \in {"list", "collection", "open", "shut"}
                      /\ Head(frames).kind \in {"open", "collection", "begun"}
  /\ DepthOver(frame, InnerDepth(frames))

LEMMA WellFormedPushed ==
  ASSUME NEW f \in Frames, NEW r \in Seq(Frames)
  PROVE  WellFormed(Pushed(f, r)) <=> WellFormed(r) /\ FitsOn(f, r)
PROOF
  <1> DEFINE n == Len(r)
             fr == Pushed(f, r)
  <1>1. /\ n \in Nat /\ Len(fr) = n + 1 /\ fr \in Seq(Frames)
        /\ At(fr, n + 1) = f
        /\ \A i \in 1 .. n : At(fr, i) = At(r, i)
    <2>1. n \in Nat
      OBVIOUS
    <2> QED
      BY <2>1, PushedOnto, AtPushed
  <1>2. /\ \A i \in 1 .. n : At(r, i) \in Frames
        /\ r # <<>> => n > 0 /\ At(r, n) = Head(r)
        /\ r = <<>> <=> n = 0
    <2>1. ASSUME NEW i \in 1 .. n PROVE At(r, i) \in Frames
      <3>1. n + 1 - i \in 1 .. n
        BY <1>1
      <3> QED
        BY <3>1 DEF At
    <2>2. r # <<>> => n > 0 /\ At(r, n) = Head(r)
      BY AtTail
    <2> QED
      BY <2>1, <2>2
  <1> HIDE DEF n, fr
  <1>3. Below(fr, n + 1) = InnerDepth(r)
    <2>1. CASE n = 0
      BY <1>2, <2>1 DEF Below, InnerDepth
    <2>2. CASE n # 0
      <3>1. n \in 1 .. n /\ n + 1 # 1 /\ n + 1 - 1 = n
        BY <1>1, <2>2
      <3> QED
        BY <1>1, <1>2, <2>2, <3>1 DEF Below, InnerDepth
    <2> QED
      BY <2>1, <2>2
  <1>4. ASSUME NEW i \in 1 .. n
        PROVE  Below(fr, i) = Below(r, i)
    <2>1. i # 1 => i - 1 \in 1 .. n
      BY <1>1
    <2> QED
      BY <1>1, <2>1 DEF Below
  <1>5. ASSUME WellFormed(fr)
        PROVE  WellFormed(r) /\ FitsOn(f, r)
    <2>1. ASSUME NEW i \in 1 .. n
          PROVE  /\ At(r, i).kind \in {"begun", "subject", "end"} => i = 1
                 /\ At(r, i).kind \in {"list", "collection"} => i > 1
                 /\ At(r, i).kind \in {"open", "collection", "begun"}
                 /\ DepthOver(At(r, i), Below(r, i))
                 /\ \A j \in 1 .. i - 1 : At(r, j).depth <= Below(r, i)
      <3>1. i \in 1 .. Len(fr) /\ i < Len(fr) /\ \A j \in 1 .. i - 1 : j \in 1 .. n
        BY <1>1
      <3> QED
        BY <1>1, <1>4, <1>5, <3>1 DEF WellFormed
    <2>2. WellFormed(r)
      BY <2>1 DEF WellFormed, n
    <2>3. FitsOn(f, r)
      <3>1. n + 1 \in 1 .. Len(fr) /\ (n + 1 = 1 <=> n = 0) /\ (n + 1 > 1 <=> n # 0)
        BY <1>1
      <3>2. /\ f.kind \in {"begun", "subject", "end"} => n = 0
            /\ f.kind \in {"list", "collection"} => n # 0
            /\ DepthOver(f, InnerDepth(r))
        BY <1>1, <1>3, <1>5, <3>1 DEF WellFormed
      <3>3. r # <<>> => Head(r).kind \in {"open", "collection", "begun"}
        <4>1. r # <<>> => n \in 1 .. n
          BY <1>1, <1>2
        <4> QED
          BY <1>2, <2>1, <4>1
      <3> QED
        BY <1>2, <3>2, <3>3 DEF FitsOn, Frames
    <2> QED
      BY <2>2, <2>3
  <1>6. ASSUME WellFormed(r), FitsOn(f, r)
        PROVE  WellFormed(fr)
    <2>1. ASSUME NEW i \in 1 .. n
          PROVE  /\ At(fr, i).kind \in {"begun", "subject", "end"} => i = 1
                 /\ At(fr, i).kind \in {"list", "collection"} => i > 1
                 /\ At(fr, i).kind \in {"open", "collection", "begun"}
                 /\ DepthOver(At(fr, i), Below(fr, i))
                 /\ \A j \in 1 .. i - 1 : At(fr, j).depth <= Below(fr, i)
      <3>1. \A j \in 1 .. i - 1 : j \in 1 .. n
        BY <1>1
      <3>2. At(r, i).kind \in {"open", "collection", "begun"}
        <4>1. CASE i < n
          BY <1>6, <4>1 DEF WellFormed, n
        <4>2. CASE ~(i < n)
          <5>1. i = n /\ r # <<>>
            BY <1>1, <1>2, <4>2
          <5> QED
            BY <1>2, <1>6, <5>1 DEF FitsOn
        <4> QED
          BY <4>1, <4>2
      <3> QED
        BY <1>1, <1>4, <1>6, <3>1, <3>2 DEF WellFormed, n
    <2>2. /\ f.kind \in {"begun", "subject", "end"} => n + 1 = 1
          /\ f.kind \in {"list", "collection"} => n + 1 > 1
          /\ DepthOver(f, Below(fr, n + 1))
      <3>1. /\ f.kind \in {"begun", "subject", "end"} => n = 0
            /\ f.kind \in {"list", "collection"} => n # 0
            /\ DepthOver(f, Below(fr, n + 1))
        BY <1>2, <1>3, <1>6 DEF FitsOn
      <3> QED
        BY <1>1, <3>1
    <2>3. ASSUME NEW j \in 1 .. n
          PROVE  At(fr, j).depth <= Below(fr, n + 1)
      <3>1. n \in 1 .. n /\ r # <<>> /\ Below(fr, n + 1) = At(r, n).depth
        BY <1>1, <1>2, <1>3 DEF InnerDepth
      <3>2. At(r, j).depth \in Nat /\ At(r, n).depth \in Nat
        BY <1>2, <3>1 DEF Frames
      <3>3. CASE j = n
        BY <1>1, <3>1, <3>2, <3>3
      <3>4. CASE j # n
        <4>1. j \in 1 .. n - 1
          BY <1>1, <3>4
        <4>2. At(r, j).depth <= Below(r, n) /\ DepthOver(At(r, n), Below(r, n))
          BY <1>6, <3>1, <4>1 DEF WellFormed, n
        <4>3. Below(r, n) \in Nat
          <5>1. n # 1 => n - 1 \in 1 .. n
            BY <1>1, <3>1
          <5>2. n # 1 => At(r, n - 1).depth \in Nat
            BY <1>2, <5>1 DEF Frames
          <5> QED
            BY <5>2 DEF Below
        <4>4. Below(r, n) <= At(r, n).depth
          BY <3>2, <4>2, <4>3 DEF DepthOver
        <4> QED
          BY <1>1, <3>1, <3>2, <4>2, <4>3, <4>4
      <3> QED
        BY <3>3, <3>4
    <2>4. ASSUME NEW i \in 1 .. Len(fr)
          PROVE  /\ At(fr, i).kind \in {"begun", "subject", "end"} => i = 1
                 /\ At(fr, i).kind \in {"list", "collection"} => i > 1
                 /\ i < Len(fr) => At(fr, i).kind \in {"open", "collection", "begun"}
                 /\ DepthOver(At(fr, i), Below(fr, i))
                 /\ \A j \in 1 .. i - 1 : At(fr, j).depth <= Below(fr, i)
      <3>1. CASE i = n + 1
        <4>1. i - 1 = n /\ ~(i < Len(fr))
          BY <1>1, <3>1
        <4> QED
          BY <1>1, <2>2, <2>3, <3>1, <4>1
      <3>2. CASE i # n + 1
        <4>1. i \in 1 .. n
          BY <1>1, <3>2
        <4> QED
          BY <2>1, <4>1
      <3> QED
        BY <3>1, <3>2
    <2> QED
      BY <2>4 DEF WellFormed
  <1> QED
    BY <1>5, <1>6 DEF fr


LEMMA WellFormedTop ==
  ASSUME NEW frames \in Seq(Frames), frames # <<>>, WellFormed(frames)
  PROVE  /\ WellFormed(Tail(frames)) /\ FitsOn(Head(frames), Tail(frames))
         /\ VerbDepth(Head(frames)) = InnerDepth(Tail(frames)) + 1
         /\ InnerDepth(Tail(frames)) \in Nat
         /\ \A i \in 1 .. Len(frames) - 1 : At(frames, i).depth <= InnerDepth(Tail(frames))
PROOF
  <1> DEFINE f == Head(frames)
             r == Tail(frames)
  <1>1. f \in Frames /\ r \in Seq(Frames) /\ frames = Pushed(f, r)
    BY AtTail
  <1>2. WellFormed(r) /\ FitsOn(f, r)
    BY <1>1, WellFormedPushed
  <1>3. InnerDepth(r) \in Nat
    <2>1. r # <<>> => Head(r) \in Frames
      BY <1>1
    <2> QED
      BY <2>1 DEF InnerDepth, Frames
  <1>4. VerbDepth(f) = InnerDepth(r) + 1
    BY <1>1, <1>2, <1>3 DEF FitsOn, DepthOver, VerbDepth, Frames
  <1>5. ASSUME NEW i \in 1 .. Len(frames) - 1
        PROVE  At(frames, i).depth <= InnerDepth(r)
    <2> DEFINE n == Len(frames)
    <2>1. /\ n \in Nat \ {0} /\ Len(r) = n - 1 /\ n \in 1 .. n /\ n - 1 \in 1 .. n - 1
          /\ \A j \in 1 .. n - 1 : At(r, j) = At(frames, j)
      <3>1. n \in Nat \ {0} /\ Len(r) = n - 1 /\ \A j \in 1 .. n - 1 : At(r, j) = At(frames, j)
        BY AtTail
      <3> QED
        BY <3>1
    <2>2. At(frames, i).depth <= Below(frames, n)
      BY <2>1 DEF WellFormed
    <2>3. r # <<>> /\ n # 1
      <3>1. Len(r) # 0 /\ n # 1
        BY <2>1
      <3> HIDE DEF r
      <3> QED
        BY <3>1
    <2>4. At(r, n - 1) = Head(r)
      BY <1>1, <2>1, <2>3, AtTail
    <2> QED
      BY <2>1, <2>2, <2>3, <2>4 DEF Below, InnerDepth
  <1> QED
    BY <1>2, <1>3, <1>4, <1>5

LEMMA WellFormedStatement ==
  /\ WellFormed(<<>>) /\ WellFormed(Begun) /\ WellFormed(Subject) /\ WellFormed(AfterVerbs)
  /\ WellFormed(Ended)
PROOF
  <1>1. WellFormed(<<>>)
    BY DEF WellFormed
  <1>2. ASSUME NEW kind \in {"begun", "subject", "shut", "end"}, NEW depth \in Nat,
               DepthOver(Frame(kind, depth), 0)
        PROVE  WellFormed(<<Frame(kind, depth)>>)
    <2>1. Frame(kind, depth) \in Frames /\ Frame(kind, depth).kind = kind
      BY FrameFields
    <2>2. FitsOn(Frame(kind, depth), <<>>)
      BY <1>2, <2>1 DEF FitsOn, InnerDepth
    <2>3. <<>> \in Seq(Frames)
      OBVIOUS
    <2>4. WellFormed(Pushed(Frame(kind, depth), <<>>))
      BY <1>1, <2>1, <2>2, <2>3, WellFormedPushed
    <2>5. Pushed(Frame(kind, depth), <<>>) = <<Frame(kind, depth)>>
      BY DEF Pushed
    <2> QED
      BY <2>4, <2>5
  <1>3. /\ DepthOver(Frame("begun", 0), 0) /\ DepthOver(Frame("subject", 0), 0)
        /\ DepthOver(Frame("shut", 1), 0) /\ DepthOver(Frame("end", 1), 0)
    BY DEF DepthOver, Frame, Verbal
  <1> QED
    BY <1>1, <1>2, <1>3 DEF Begun, Subject, AfterVerbs, Ended

LEMMA WellFormedVerb ==
  ASSUME NEW s \in Shapes, s.frames # <<>>, WellFormed(s.frames), NEW kind \in {"open", "shut"}
  PROVE  WellFormed(WithVerb(s, kind).frames)
PROOF
  <1> DEFINE f == Frame(kind, VerbDepth(Head(s.frames)))
             r == Tail(s.frames)
  <1>1. s.frames \in Seq(Frames)
    BY ShapeFields
  <1>2. WellFormed(r) /\ FitsOn(Head(s.frames), r) /\ f.depth = InnerDepth(r) + 1
        /\ f.kind = kind /\ f \in Frames /\ r \in Seq(Frames)
    <2>1. WellFormed(r) /\ FitsOn(Head(s.frames), r)
          /\ VerbDepth(Head(s.frames)) = InnerDepth(r) + 1
      BY <1>1, WellFormedTop
    <2>2. r \in Seq(Frames)
      BY <1>1, AtTail
    <2>3. f.kind = kind /\ f.depth = VerbDepth(Head(s.frames)) /\ f \in Frames
      BY WithVerbFacts
    <2> QED
      BY <2>1, <2>2, <2>3
  <1>3. WithVerb(s, kind).frames = Pushed(f, r)
    BY WithVerbFacts
  <1> HIDE DEF f, r
  <1>4. FitsOn(f, r)
    BY <1>2 DEF FitsOn, DepthOver, Verbal
  <1> QED
    BY <1>2, <1>3, <1>4, WellFormedPushed

LEMMA WellFormedOpened ==
  ASSUME NEW s \in Shapes, AtBracket(s), WellFormed(s.frames), NEW kind \in {"list", "collection"}
  PROVE  WellFormed(Opened(s, kind).frames)
PROOF
  <1> DEFINE f == Frame(kind, Head(s.frames).depth)
  <1>1. s.frames # <<>> /\ Head(s.frames).kind \in {"open", "collection", "begun"}
    BY DEF AtBracket, InnerIs
  <1>2. /\ Opened(s, kind).frames = Pushed(f, s.frames) /\ f \in Frames /\ f.kind = kind
        /\ f.depth = Head(s.frames).depth
    BY <1>1, OpenedFacts
  <1>3. s.frames \in Seq(Frames) /\ Head(s.frames).depth \in Nat
    <2>1. s.frames \in Seq(Frames)
      BY ShapeFields
    <2>2. Head(s.frames) \in Frames
      BY <1>1, <2>1, AtTail
    <2> QED
      BY <2>1, <2>2 DEF Frames
  <1> HIDE DEF f
  <1>4. FitsOn(f, s.frames)
    BY <1>1, <1>2, <1>3 DEF FitsOn, DepthOver, Verbal, InnerDepth
  <1> QED
    BY <1>2, <1>3, <1>4, WellFormedPushed

LEMMA WellFormedClosed ==
  ASSUME NEW s \in Shapes, s.frames # <<>>, WellFormed(s.frames), NEW seq \in 0 .. 2
  PROVE  /\ WellFormed(Tail(s.frames))
         /\ WellFormed(Shape(Tail(s.frames), "any", seq).frames)
         /\ WellFormed(ListClosed(Tail(s.frames), seq).frames)
PROOF
  <1>1. WellFormed(Tail(s.frames))
    BY ShapeFields, WellFormedTop
  <1> QED
    BY <1>1, ShapeFields, WellFormedStatement DEF ListClosed

(* Every step of the grammar's actions keeps the shape one that occurs.     *)
LEMMA WellFormedMove ==
  ASSUME NEW rule, rule \notin DOMAIN Alternatives, NEW s \in Shapes, NEW t,
         WellFormed(s.frames), Move(rule, s, t)
  PROVE  WellFormed(t.frames)
PROOF
  <1>1. rule \in {"term", "pushCurrentTerm", "beginStatement", "clearTripleParameters", "setSubject",
                  "processTripleSeq", "processTripleSeq2", "processVerb",
                  "processPredicateObjectListInner", "collectionBegin",
                  "blankNodePropertyListBegin", "processCollection", "processBlankNodePropertyList"}
    BY DEF Move, Alternatives
  <1>2. CASE rule \in {"term", "pushCurrentTerm"}
    <2>1. t.frames = s.frames
      BY <1>2, VerbMoves, ObjectMoves, ShapeFields DEF Holding
    <2> QED
      BY <2>1
  <1>3. CASE rule \in {"beginStatement", "clearTripleParameters", "setSubject", "processTripleSeq",
                       "processTripleSeq2"}
    <2>1. t.frames \in {<<>>, Begun, Subject, Ended}
      BY <1>3, StatementMoves, ShapeFields DEF Nothing
    <2> QED
      BY <2>1, WellFormedStatement
  <1>4. CASE rule = "processVerb"
    BY <1>4, VerbMoves, WellFormedVerb DEF AtVerb, InnerIs
  <1>5. CASE rule = "processPredicateObjectListInner"
    BY <1>5, VerbMoves, WellFormedVerb DEF InnerIs
  <1>6. CASE rule = "collectionBegin"
    BY <1>6, ObjectMoves, WellFormedOpened
  <1>7. CASE rule = "blankNodePropertyListBegin"
    BY <1>7, ObjectMoves, WellFormedOpened
  <1>8. CASE rule = "processCollection"
    BY <1>8, ObjectMoves, WellFormedClosed, ShapeFields DEF InnerIs
  <1>9. CASE rule = "processBlankNodePropertyList"
    BY <1>9, ObjectMoves, WellFormedClosed, ShapeFields DEF InnerIs
  <1> QED
    BY <1>1, <1>2, <1>3, <1>4, <1>5, <1>6, <1>7, <1>8, <1>9


-----------------------------------------------------------------------------
(* How deep the stacks are in a shape: verb_stack has a verb for each depth *)
(* but for that of a verb whose objects have been read.                     *)

Depth(shape) == InnerDepth(shape.frames)

Verbs(shape) == IF InnerIs(shape, {"shut", "end"}) THEN Depth(shape) - 1 ELSE Depth(shape)

Before(n) == IF n = 0 THEN 0 ELSE n - 1

LEMMA BeforeFacts ==
  \A n \in Nat : /\ Before(n) \in Nat /\ Before(n) <= n /\ Before(n + 1) = n
                 /\ n > 0 => Before(n) = n - 1
                 /\ n > 1 => Before(n - 1) = n - 2
PROOF
  BY DEF Before

LEMMA BeforeInner ==
  \A n \in Nat : n > 1 => Before(n) = n - 1 /\ Before(n) > 0 /\ Before(n - 1) = n - 2
PROOF
  BY DEF Before

LEMMA DepthFacts ==
  ASSUME NEW s \in Shapes, WellFormed(s.frames)
  PROVE  /\ Depth(s) \in Nat /\ Verbs(s) \in Nat /\ Len(s.frames) \in Nat
         /\ s.frames # <<>> => Len(s.frames) > 0
         /\ Before(Depth(s)) <= Verbs(s)
         /\ InnerIs(s, {"shut", "open", "end"}) => Depth(s) > 0
PROOF
  <1>1. s.frames \in Seq(Frames)
    BY ShapeFields
  <1>2. Len(s.frames) \in Nat /\ (s.frames # <<>> => Len(s.frames) > 0)
    BY <1>1
  <1>3. CASE s.frames = <<>>
    BY <1>2, <1>3 DEF Depth, Verbs, InnerDepth, InnerIs, Before
  <1>4. CASE s.frames # <<>>
    <2> DEFINE f == Head(s.frames)
    <2>1. f \in Frames /\ FitsOn(f, Tail(s.frames)) /\ InnerDepth(Tail(s.frames)) \in Nat
      BY <1>1, <1>4, WellFormedTop, AtTail
    <2>2. f.depth \in Nat /\ (f.kind \in Verbal => f.depth > 0) /\ Depth(s) = f.depth
      BY <1>4, <2>1 DEF Frames, FitsOn, DepthOver, Depth, InnerDepth
    <2>3. InnerIs(s, {"shut", "end"}) => f.kind \in Verbal
      BY DEF InnerIs, Verbal
    <2>4. InnerIs(s, {"shut", "open", "end"}) => f.kind \in Verbal
      BY DEF InnerIs, Verbal
    <2> HIDE DEF f
    <2> QED
      BY <1>2, <2>2, <2>3, <2>4 DEF Verbs, Before
  <1> QED
    BY <1>3, <1>4

LEMMA StatementSizes ==
  /\ Len(Nothing.frames) = 0 /\ Depth(Nothing) = 0 /\ Verbs(Nothing) = 0
  /\ \A held, seq : /\ Len(Shape(Begun, held, seq).frames) = 1
                    /\ Depth(Shape(Begun, held, seq)) = 0 /\ Verbs(Shape(Begun, held, seq)) = 0
                    /\ Len(Shape(Subject, held, seq).frames) = 1
                    /\ Depth(Shape(Subject, held, seq)) = 0 /\ Verbs(Shape(Subject, held, seq)) = 0
                    /\ Len(Shape(AfterVerbs, held, seq).frames) = 1
                    /\ Depth(Shape(AfterVerbs, held, seq)) = 1
                    /\ Verbs(Shape(AfterVerbs, held, seq)) = 0
                    /\ Len(Shape(Ended, held, seq).frames) = 1
                    /\ Depth(Shape(Ended, held, seq)) = 1 /\ Verbs(Shape(Ended, held, seq)) = 0
PROOF
  <1>1. Nothing.frames = <<>> /\ Len(<<>>) = 0
    BY ShapeFields DEF Nothing
  <1>2. Depth(Nothing) = 0 /\ Verbs(Nothing) = 0
    BY <1>1 DEF Depth, Verbs, InnerDepth, InnerIs
  <1>3. ASSUME NEW kind, NEW depth, NEW held, NEW seq
        PROVE  LET s == Shape(<<Frame(kind, depth)>>, held, seq)
               IN  /\ Len(s.frames) = 1 /\ Depth(s) = depth
                   /\ Verbs(s) = IF kind \in {"shut", "end"} THEN depth - 1 ELSE depth
    <2> DEFINE frames == <<Frame(kind, depth)>>
    <2>1. frames # <<>> /\ Len(frames) = 1 /\ Head(frames).kind = kind /\ Head(frames).depth = depth
      BY FrameFields
    <2> HIDE DEF frames
    <2>2. Shape(frames, held, seq).frames = frames
      BY ShapeFields
    <2> QED
      BY <2>1, <2>2 DEF Depth, Verbs, InnerDepth, InnerIs, frames
  <1> QED
    BY <1>1, <1>2, <1>3 DEF Begun, Subject, AfterVerbs, Ended

LEMMA VerbSizes ==
  ASSUME NEW s \in Shapes, AtVerb(s), WellFormed(s.frames)
  PROVE  /\ Len(WithVerb(s, "open").frames) = Len(s.frames)
         /\ Depth(WithVerb(s, "open")) = Verbs(s) + 1 /\ Verbs(WithVerb(s, "open")) = Verbs(s) + 1
PROOF
  <1> DEFINE f == Head(s.frames)
             t == WithVerb(s, "open")
  <1>1. /\ s.frames # <<>> /\ f.kind \in {"subject", "list", "shut"} /\ Depth(s) = f.depth
        /\ Verbs(s) = IF f.kind = "shut" THEN f.depth - 1 ELSE f.depth
    BY DEF AtVerb, InnerIs, Depth, Verbs, InnerDepth
  <1>2. /\ Len(t.frames) = Len(s.frames) /\ t.frames # <<>> /\ Head(t.frames).kind = "open"
        /\ Head(t.frames).depth = VerbDepth(f)
    BY <1>1, WithVerbFacts
  <1>3. f.depth \in Nat
    BY <1>1, DepthFacts
  <1>4. VerbDepth(f) = Verbs(s) + 1
    BY <1>1, <1>3 DEF VerbDepth, Verbal
  <1> HIDE DEF f, t
  <1>5. Depth(t) = Verbs(s) + 1 /\ Verbs(t) = Verbs(s) + 1
    BY <1>2, <1>4 DEF Depth, Verbs, InnerDepth, InnerIs
  <1> QED
    BY <1>2, <1>5 DEF t

LEMMA ShutSizes ==
  ASSUME NEW s \in Shapes, InnerIs(s, {"open"}), WellFormed(s.frames)
  PROVE  /\ Len(WithVerb(s, "shut").frames) = Len(s.frames)
         /\ Depth(WithVerb(s, "shut")) = Depth(s) /\ Verbs(WithVerb(s, "shut")) = Verbs(s) - 1
         /\ Verbs(s) = Depth(s) /\ Verbs(s) > 0
PROOF
  <1> DEFINE f == Head(s.frames)
             t == WithVerb(s, "shut")
  <1>1. /\ s.frames # <<>> /\ f.kind = "open" /\ Depth(s) = f.depth
        /\ Verbs(s) = f.depth /\ VerbDepth(f) = f.depth
    BY DEF InnerIs, Depth, Verbs, InnerDepth, VerbDepth, Verbal
  <1>2. /\ Len(t.frames) = Len(s.frames) /\ t.frames # <<>> /\ Head(t.frames).kind = "shut"
        /\ Head(t.frames).depth = VerbDepth(f)
    BY <1>1, WithVerbFacts
  <1>3. Depth(s) > 0
    BY DepthFacts DEF InnerIs
  <1> HIDE DEF f, t
  <1>4. Depth(t) = Depth(s) /\ Verbs(t) = Verbs(s) - 1
    BY <1>1, <1>2 DEF Depth, Verbs, InnerDepth, InnerIs
  <1> QED
    BY <1>1, <1>2, <1>3, <1>4 DEF t

LEMMA OpenedSizes ==
  ASSUME NEW s \in Shapes, AtBracket(s), NEW kind \in {"list", "collection"}
  PROVE  /\ Len(Opened(s, kind).frames) = Len(s.frames) + 1 /\ s.frames # <<>>
         /\ Depth(Opened(s, kind)) = Depth(s) /\ Verbs(Opened(s, kind)) = Verbs(s)
         /\ Verbs(s) = Depth(s)
PROOF
  <1> DEFINE t == Opened(s, kind)
  <1>1. /\ s.frames # <<>> /\ Head(s.frames).kind \in {"open", "collection", "begun"}
        /\ Depth(s) = Head(s.frames).depth /\ Verbs(s) = Depth(s)
    BY DEF AtBracket, InnerIs, Depth, Verbs, InnerDepth
  <1>2. /\ Len(t.frames) = Len(s.frames) + 1 /\ t.frames # <<>> /\ Head(t.frames).kind = kind
        /\ Head(t.frames).depth = Head(s.frames).depth
    BY <1>1, OpenedFacts
  <1> HIDE DEF t
  <1>3. Depth(t) = Depth(s) /\ Verbs(t) = Verbs(s)
    BY <1>1, <1>2 DEF Depth, Verbs, InnerDepth, InnerIs
  <1> QED
    BY <1>1, <1>2, <1>3 DEF t

(* What is left when a bracket is closed.                                   *)
LEMMA ClosedSizes ==
  ASSUME NEW s \in Shapes, WellFormed(s.frames), NEW held, NEW seq,
         InnerIs(s, {"collection"}) \/ (InnerIs(s, {"shut"}) /\ Len(s.frames) > 1)
  PROVE  LET t == Shape(Tail(s.frames), held, seq)
         IN  /\ Len(t.frames) = Len(s.frames) - 1 /\ t.frames # <<>>
             /\ InnerIs(t, {"open", "collection", "begun"})
             /\ Depth(t) = Verbs(s) /\ Verbs(t) = Verbs(s)
             /\ Depth(s) = IF InnerIs(s, {"collection"}) THEN Depth(t) ELSE Depth(t) + 1
PROOF
  <1> DEFINE f == Head(s.frames)
             r == Tail(s.frames)
             t == Shape(r, held, seq)
  <1>1. /\ s.frames \in Seq(Frames) /\ s.frames # <<>> /\ f.kind \in {"collection", "shut"}
        /\ InnerIs(s, {"collection"}) <=> f.kind = "collection"
        /\ InnerIs(s, {"shut", "end"}) <=> f.kind = "shut"
        /\ Depth(s) = f.depth
    BY ShapeFields DEF InnerIs, Depth, InnerDepth
  <1>2. /\ FitsOn(f, r) /\ InnerDepth(r) \in Nat /\ r \in Seq(Frames)
        /\ Len(r) = Len(s.frames) - 1 /\ Len(s.frames) \in Nat
    BY <1>1, WellFormedTop, AtTail
  <1>3. r # <<>>
    <2>1. CASE f.kind = "collection"
      BY <1>2, <2>1 DEF FitsOn
    <2>2. CASE f.kind # "collection"
      <3>1. Len(s.frames) > 1
        BY <1>1, <2>2
      <3> DEFINE n == Len(s.frames)
                 m == Len(r)
      <3>2. m = n - 1 /\ n \in Nat /\ n > 1
        BY <1>2, <3>1
      <3> HIDE DEF r
      <3>3. r = <<>> => m = 0
        OBVIOUS
      <3> HIDE DEF m, n
      <3> QED
        BY <3>2, <3>3
    <2> QED
      BY <2>1, <2>2
  <1>4. t.frames = r
    BY ShapeFields
  <1> HIDE DEF f, r, t
  <1>5. Head(r).kind \in {"open", "collection", "begun"} /\ InnerDepth(r) = Head(r).depth
    BY <1>2, <1>3 DEF FitsOn, InnerDepth
  <1>6. Depth(t) = InnerDepth(r) /\ Verbs(t) = InnerDepth(r)
        /\ InnerIs(t, {"open", "collection", "begun"})
    BY <1>3, <1>4, <1>5 DEF Depth, Verbs, InnerIs
  <1>7. /\ Depth(s) = IF f.kind = "shut" THEN InnerDepth(r) + 1 ELSE InnerDepth(r)
        /\ Verbs(s) = InnerDepth(r)
    <2>1. f.depth = IF f.kind = "shut" THEN InnerDepth(r) + 1 ELSE InnerDepth(r)
      BY <1>1, <1>2 DEF FitsOn, DepthOver, Verbal
    <2> QED
      BY <1>1, <1>2, <2>1 DEF Verbs
  <1> QED
    BY <1>1, <1>2, <1>3, <1>4, <1>6, <1>7 DEF t, r

LEMMA ListClosedSizes ==
  ASSUME NEW s \in Shapes, WellFormed(s.frames), InnerIs(s, {"shut"}), Len(s.frames) > 1
  PROVE  LET t == ListClosed(Tail(s.frames), s.seq)
         IN  /\ Len(t.frames) = Len(s.frames) - 1
             /\ Depth(t) = Verbs(s) /\ Verbs(t) = Verbs(s) /\ Depth(s) = Verbs(s) + 1
PROOF
  <1> DEFINE u == Shape(Tail(s.frames), "any", s.seq)
  <1>1. /\ Len(u.frames) = Len(s.frames) - 1 /\ Depth(u) = Verbs(s) /\ Verbs(u) = Verbs(s)
        /\ Depth(s) = Verbs(s) + 1
    <2>1. ~InnerIs(s, {"collection"})
      BY DEF InnerIs
    <2>2. /\ Len(u.frames) = Len(s.frames) - 1 /\ Depth(u) = Verbs(s) /\ Verbs(u) = Verbs(s)
          /\ Depth(s) = IF InnerIs(s, {"collection"}) THEN Depth(u) ELSE Depth(u) + 1
      BY ClosedSizes
    <2> QED
      BY <2>1, <2>2
  <1>2. CASE Tail(s.frames) = Begun
    <2>1. ListClosed(Tail(s.frames), s.seq) = Shape(Subject, "any", 2)
      BY <1>2 DEF ListClosed
    <2>2. Len(u.frames) = 1 /\ Depth(u) = 0 /\ Verbs(u) = 0
      BY <1>2, StatementSizes
    <2> HIDE DEF u
    <2> QED
      BY <1>1, <2>1, <2>2, StatementSizes
  <1>3. CASE Tail(s.frames) # Begun
    BY <1>1, <1>3 DEF ListClosed
  <1> QED
    BY <1>2, <1>3


-----------------------------------------------------------------------------
(* The inductive invariant.                                                 *)

Values == {Term(n) : n \in Nat} \cup {BNode(n) : n \in Nat} \cup {None}

Pairs == Values \X Values

TypeInv ==
  /\ rules \in Seq(RuleNames)
  /\ terms \in Nat
  /\ latest_BN_label \in Nat
  /\ element_ \in Values
  /\ verb_stack \in Seq(Values)
  /\ verb_stack_one_step_pre_size \in Nat
  /\ bnpl_collection_list \in Seq(Values)
  /\ bnpl_collection_list_stack \in Seq(Seq(Values))
  /\ verb_object_pair_list \in Seq(Pairs)
  /\ verb_object_pair_list_stack \in Seq(Seq(Pairs))

(* When the test in processVerb puts pairs aside, there is a verb for which *)
(* none have been put aside yet.                                            *)
VerbInv ==
  /\ Len(verb_stack) <= verb_stack_one_step_pre_size + 1
  /\ Len(verb_stack) = verb_stack_one_step_pre_size + 1 =>
       Len(verb_object_pair_list_stack) < Len(verb_stack)

(* The stacks are as deep as the shape says, and no more pairs are put      *)
(* aside than there are verbs around the inner one.                         *)
Fits(shape) ==
  /\ WellFormed(shape.frames)
  /\ Len(bnpl_collection_list_stack) = Before(Len(shape.frames))
  /\ Len(verb_object_pair_list_stack) <= Before(Depth(shape))
  /\ Len(verb_stack) = Verbs(shape)

(* What is still to be matched leads from the shape to no shape at all.     *)
Ahead(shape) == Runs(rules, shape, Nothing)

StackInv == TypeInv /\ VerbInv /\ \E s \in Shapes : Ahead(s) /\ Fits(s)

LEMMA InitStack ==
  ASSUME Init
  PROVE  TypeInv /\ VerbInv /\ Ahead(Nothing) /\ Fits(Nothing) /\ Nothing \in Shapes
PROOF
  <1> DEFINE start == IF sparqlQuery THEN "triplesBlock" ELSE "turtleDoc"
  <1>1. start \in {"triplesBlock", "turtleDoc"} /\ start \in RuleNames
    BY DEF RuleNames
  <1>2. Nothing \in Shapes
    BY StatementShapes
  <1>3. rules = <<start>>
    BY DEF Init
  <1> HIDE DEF start
  <1>4. Ahead(Nothing)
    <2>1. Move(start, Nothing, Nothing)
      BY <1>1, StatementMoves
    <2> QED
      BY <1>2, <1>3, <2>1, RunsOne DEF Ahead
  <1>5. TypeInv
    <2>1. rules \in Seq(RuleNames)
      BY <1>1, <1>3
    <2> QED
      BY <2>1 DEF Init, TypeInv, Values
  <1>6. Len(verb_stack) = 0 /\ Len(bnpl_collection_list_stack) = 0
        /\ Len(verb_object_pair_list_stack) = 0 /\ verb_stack_one_step_pre_size = 0
    BY DEF Init
  <1>7. Fits(Nothing)
    <2>1. WellFormed(Nothing.frames)
      BY WellFormedStatement, ShapeFields DEF Nothing
    <2> QED
      BY <1>6, <2>1, StatementSizes DEF Fits, Before
  <1>8. VerbInv
    BY <1>6 DEF VerbInv
  <1> QED
    BY <1>2, <1>4, <1>5, <1>7, <1>8

(* When a rule is matched, the shape moves.                                 *)
LEMMA MatchedShape ==
  ASSUME TypeInv, NEW s \in Shapes, Ahead(s), NEW rule, Matched(rule)
  PROVE  /\ rules' \in Seq(RuleNames)
         /\ \E t \in Shapes : Move(rule, s, t) /\ Ahead(t)'
PROOF
  <1>1. /\ rules \in Seq(RuleNames) /\ rules # <<>> /\ Head(rules) = rule
        /\ rules' = Tail(rules)
    BY DEF TypeInv, Matched
  <1>2. rules' \in Seq(RuleNames)
    BY <1>1
  <1>3. PICK t \in Shapes : Move(rule, s, t) /\ Runs(Tail(rules), t, Nothing)
    BY <1>1, RunsHead DEF Ahead
  <1> QED
    BY <1>1, <1>2, <1>3 DEF Ahead

(* A rule of the grammar changes no shape.                                  *)
LEMMA MatchRuleStep ==
  ASSUME TypeInv, VerbInv, NEW s \in Shapes, Ahead(s), Fits(s), MatchRule
  PROVE  TypeInv' /\ VerbInv' /\ Ahead(s)' /\ Fits(s)'
PROOF
  <1>1. /\ rules \in Seq(RuleNames) /\ rules # <<>> /\ Tail(rules) \in Seq(RuleNames)
        /\ Head(rules) \in DOMAIN Alternatives
    BY DEF TypeInv, MatchRule
  <1>2. PICK alternative \in Alternatives[Head(rules)] : rules' = alternative \o Tail(rules)
    BY DEF MatchRule
  <1>3. UNCHANGED <<terms, latest_BN_label, element_, verbVars, listVars, pairVars>>
    BY DEF MatchRule, docVars
  <1>4. PICK t \in Shapes : Move(Head(rules), s, t) /\ Runs(Tail(rules), t, Nothing)
    BY <1>1, RunsHead DEF Ahead
  <1>5. alternative \in Seq(RuleNames) /\ Runs(alternative, s, t)
    BY <1>1, <1>4, AlternativeType, AlternativeRuns
  <1>6. Runs(rules', s, Nothing)
    BY <1>1, <1>2, <1>4, <1>5, RunsConcat
  <1>7. rules' \in Seq(RuleNames)
    BY <1>1, <1>2, <1>5
  <1>8. TypeInv'
    BY <1>3, <1>7 DEF TypeInv, verbVars, listVars, pairVars
  <1>9. VerbInv' /\ Fits(s)'
    BY <1>3 DEF VerbInv, Fits, verbVars, listVars, pairVars
  <1> QED
    BY <1>6, <1>8, <1>9 DEF Ahead

(* The actions that leave the three stacks alone.                           *)
PlainRules == {"term", "pushCurrentTerm", "beginStatement", "setSubject", "processTripleSeq",
               "processTripleSeq2", "clearTripleParameters"}

LEMMA PlainSizes ==
  ASSUME NEW rule \in PlainRules, NEW s \in Shapes, NEW t \in Shapes, Move(rule, s, t)
  PROVE  /\ Before(Len(t.frames)) = Before(Len(s.frames))
         /\ Before(Depth(t)) = Before(Depth(s)) /\ Verbs(t) = Verbs(s)
PROOF
  <1>1. CASE rule \in {"term", "pushCurrentTerm"}
    <2>1. t.frames = s.frames
      BY <1>1, VerbMoves, ObjectMoves, ShapeFields DEF Holding
    <2> QED
      BY <2>1 DEF Depth, Verbs, InnerIs
  <1>2. CASE rule \in {"beginStatement", "setSubject", "processTripleSeq", "processTripleSeq2",
                       "clearTripleParameters"}
    <2> DEFINE shapes == {Nothing, Shape(Begun, "none", 0), Shape(Begun, "term", 0),
                          Shape(Begun, "any", 0), Shape(Subject, "none", 1),
                          Shape(Subject, "any", 2), Shape(AfterVerbs, "none", 1),
                          Shape(AfterVerbs, "none", 2), Shape(Ended, "none", 0)}
    <2>1. s \in shapes /\ t \in shapes
      <3>1. CASE rule = "beginStatement"
        BY <3>1, StatementMoves
      <3>2. CASE rule = "setSubject"
        BY <3>2, StatementMoves
      <3>3. CASE rule = "processTripleSeq"
        BY <3>3, StatementMoves
      <3>4. CASE rule = "processTripleSeq2"
        BY <3>4, StatementMoves
      <3>5. CASE rule = "clearTripleParameters"
        BY <3>5, StatementMoves
      <3> QED
        BY <1>2, <3>1, <3>2, <3>3, <3>4, <3>5
    <2>2. ASSUME NEW u \in shapes
          PROVE  Before(Len(u.frames)) = 0 /\ Before(Depth(u)) = 0 /\ Verbs(u) = 0
      BY StatementSizes DEF Before
    <2> QED
      BY <2>1, <2>2
  <1> QED
    BY <1>1, <1>2 DEF PlainRules

LEMMA PlainStep ==
  ASSUME VerbInv, NEW s \in Shapes, NEW t \in Shapes, Fits(s), NEW rule \in PlainRules,
         Move(rule, s, t),
         UNCHANGED <<verb_stack, bnpl_collection_list_stack, verb_object_pair_list_stack>>,
         verb_stack_one_step_pre_size' = verb_stack_one_step_pre_size \/ Len(verb_stack) = 0,
         TypeInv'
  PROVE  VerbInv' /\ Fits(t)'
PROOF
  <1>1. WellFormed(t.frames)
    <2>1. rule \notin DOMAIN Alternatives
      BY DEF PlainRules, Alternatives
    <2> QED
      BY <2>1, WellFormedMove DEF Fits
  <1>2. Fits(t)'
    BY <1>1, PlainSizes DEF Fits
  <1>3. VerbInv'
    <2>1. CASE verb_stack_one_step_pre_size' = verb_stack_one_step_pre_size
      BY <2>1 DEF VerbInv
    <2>2. CASE Len(verb_stack) = 0
      <3>1. Len(verb_stack') = 0 /\ verb_stack_one_step_pre_size' \in Nat
        BY <2>2 DEF TypeInv
      <3>2. \A n \in Nat : 0 <= n + 1 /\ 0 # n + 1
        OBVIOUS
      <3> QED
        BY <3>1, <3>2 DEF VerbInv
    <2> QED
      BY <2>1, <2>2
  <1> QED
    BY <1>2, <1>3


LEMMA PlainActionStep ==
  ASSUME TypeInv, VerbInv, NEW s \in Shapes, NEW t \in Shapes, Fits(s),
         NEW rule, Matched(rule), Move(rule, s, t), rules' \in Seq(RuleNames),
         \/ ReadTerm \/ BeginStatement \/ setSubject \/ pushCurrentTermIntoBnpl_collection_list
         \/ processTripleSeq \/ clearTripleParameters
  PROVE  TypeInv' /\ VerbInv' /\ Fits(t)'
PROOF
  <1>1. CASE ReadTerm
    <2>1. rule = "term"
      BY <1>1 DEF ReadTerm, Matched
    <2>2. /\ UNCHANGED <<latest_BN_label, verbVars, listVars, pairVars>>
          /\ terms' = terms + 1 /\ element_' = Term(terms + 1)
      BY <1>1 DEF ReadTerm
    <2>3. TypeInv'
      <3>1. terms + 1 \in Nat
        BY DEF TypeInv
      <3>2. Term(terms + 1) \in Values
        BY <3>1 DEF Values
      <3> QED
        BY <2>2, <3>1, <3>2 DEF TypeInv, verbVars, listVars, pairVars
    <2> QED
      BY <2>1, <2>2, <2>3, PlainStep DEF PlainRules, verbVars, listVars, pairVars
  <1>2. CASE BeginStatement
    <2>1. rule = "beginStatement"
      BY <1>2 DEF BeginStatement, Matched
    <2>2. UNCHANGED <<terms, latest_BN_label, element_, verbVars, listVars, pairVars>>
      BY <1>2 DEF BeginStatement, docVars
    <2>3. TypeInv'
      BY <2>2 DEF TypeInv, verbVars, listVars, pairVars
    <2> QED
      BY <2>1, <2>2, <2>3, PlainStep DEF PlainRules, verbVars, listVars, pairVars
  <1>3. CASE setSubject
    <2>1. rule = "setSubject"
      BY <1>3 DEF setSubject, Matched
    <2>2. UNCHANGED <<terms, latest_BN_label, element_, verbVars, listVars, pairVars>>
      BY <1>3 DEF setSubject, docVars
    <2>3. TypeInv'
      BY <2>2 DEF TypeInv, verbVars, listVars, pairVars
    <2> QED
      BY <2>1, <2>2, <2>3, PlainStep DEF PlainRules, verbVars, listVars, pairVars
  <1>4. CASE pushCurrentTermIntoBnpl_collection_list
    <2>1. rule = "pushCurrentTerm"
      BY <1>4 DEF pushCurrentTermIntoBnpl_collection_list, Matched
    <2>2. /\ UNCHANGED <<terms, latest_BN_label, element_, verbVars, bnpl_collection_list_stack,
                         pairVars>>
          /\ bnpl_collection_list' = Append(bnpl_collection_list, element_)
      BY <1>4 DEF pushCurrentTermIntoBnpl_collection_list, docVars
    <2>3. TypeInv'
      BY <2>2 DEF TypeInv, verbVars, pairVars
    <2> QED
      BY <2>1, <2>2, <2>3, PlainStep DEF PlainRules, verbVars, pairVars
  <1>5. CASE processTripleSeq
    <2>1. rule \in {"processTripleSeq", "processTripleSeq2"}
      BY <1>5 DEF processTripleSeq, Matched
    <2>2. UNCHANGED <<terms, latest_BN_label, element_, verbVars, listVars, pairVars>>
      BY <1>5 DEF processTripleSeq, docVars
    <2>3. TypeInv'
      BY <2>2 DEF TypeInv, verbVars, listVars, pairVars
    <2> QED
      BY <2>1, <2>2, <2>3, PlainStep DEF PlainRules, verbVars, listVars, pairVars
  <1>6. CASE clearTripleParameters
    <2>1. rule = "clearTripleParameters"
      BY <1>6 DEF clearTripleParameters, Matched
    <2>2. /\ UNCHANGED <<terms, latest_BN_label, element_, verb_stack, bnpl_collection_list_stack,
                         verb_object_pair_list_stack>>
          /\ verb_stack_one_step_pre_size' = 0
          /\ bnpl_collection_list' = <<>> /\ verb_object_pair_list' = <<>>
      BY <1>6 DEF clearTripleParameters, docVars
    <2>3. TypeInv'
      BY <2>2 DEF TypeInv
    <2>4. Len(verb_stack) = 0
      BY <2>1, StatementMoves, StatementSizes DEF Fits
    <2> QED
      BY <2>1, <2>2, <2>3, <2>4, PlainStep DEF PlainRules
  <1> QED
    BY <1>1, <1>2, <1>3, <1>4, <1>5, <1>6

LEMMA ProcessVerbStep ==
  ASSUME TypeInv, VerbInv, NEW s \in Shapes, NEW t \in Shapes, Fits(s),
         Move("processVerb", s, t), rules' \in Seq(RuleNames), processVerb
  PROVE  TypeInv' /\ VerbInv' /\ Fits(t)'
PROOF
  <1> DEFINE verbs == Len(verb_stack)
             aside == Len(verb_object_pair_list_stack)
  <1>1. /\ verb_stack_one_step_pre_size' = verbs
        /\ verb_stack' = Pushed(element_, verb_stack)
        /\ UNCHANGED <<terms, latest_BN_label, element_, listVars>>
    BY DEF processVerb
  <1>2. \/ /\ OpensList
           /\ verb_object_pair_list_stack' =
                Pushed(verb_object_pair_list, verb_object_pair_list_stack)
           /\ verb_object_pair_list' = <<>>
        \/ ~OpensList /\ UNCHANGED pairVars
    BY DEF processVerb
  <1>3. AtVerb(s) /\ t = WithVerb(s, "open")
    BY VerbMoves
  <1>4. verb_stack' \in Seq(Values) /\ Len(verb_stack') = verbs + 1
    BY <1>1, PushedOnto DEF TypeInv
  <1>5. /\ verb_object_pair_list_stack' \in Seq(Seq(Pairs)) /\ verb_object_pair_list' \in Seq(Pairs)
        /\ Len(verb_object_pair_list_stack') = IF OpensList THEN aside + 1 ELSE aside
    <2>1. CASE OpensList
      <3>1. /\ verb_object_pair_list_stack' \in Seq(Seq(Pairs))
            /\ Len(verb_object_pair_list_stack') = aside + 1
        BY <1>2, <2>1, PushedOnto DEF TypeInv
      <3>2. verb_object_pair_list' \in Seq(Pairs)
        BY <1>2, <2>1
      <3> QED
        BY <2>1, <3>1, <3>2
    <2>2. CASE ~OpensList
      BY <1>2, <2>2 DEF TypeInv, pairVars
    <2> QED
      BY <2>1, <2>2
  <1>6. verbs \in Nat /\ aside \in Nat /\ verb_stack_one_step_pre_size \in Nat
    BY DEF TypeInv
  <1>7. TypeInv'
    BY <1>1, <1>4, <1>5, <1>6 DEF TypeInv, listVars
  <1>8. /\ aside <= Before(Depth(s)) /\ verbs = Verbs(s) /\ WellFormed(s.frames)
    BY DEF Fits
  <1>9. /\ Before(Depth(s)) <= Verbs(s) /\ Before(Depth(s)) \in Nat
    BY <1>8, DepthFacts DEF Before
  <1>10. /\ Len(t.frames) = Len(s.frames) /\ Depth(t) = Verbs(s) + 1 /\ Verbs(t) = Verbs(s) + 1
    BY <1>3, <1>8, VerbSizes
  <1> HIDE DEF verbs, aside
  <1>11. Len(verb_object_pair_list_stack') <= verbs
    <2>1. CASE OpensList
      <3>1. verbs + 1 = verb_stack_one_step_pre_size + 2
        BY <2>1 DEF OpensList, verbs
      <3>2. verbs = verb_stack_one_step_pre_size + 1
        BY <1>6, <3>1
      <3>3. aside < verbs
        BY <3>2 DEF VerbInv, verbs, aside
      <3> QED
        BY <1>5, <1>6, <2>1, <3>3
    <2>2. CASE ~OpensList
      BY <1>5, <1>6, <1>8, <1>9, <2>2
    <2> QED
      BY <2>1, <2>2
  <1>12. Fits(t)'
    <2>1. WellFormed(t.frames)
      BY <1>8, WellFormedMove DEF Alternatives
    <2>2. Before(Depth(t)) = verbs
      BY <1>6, <1>8, <1>10 DEF Before
    <2>3. Len(bnpl_collection_list_stack') = Before(Len(t.frames))
      BY <1>1, <1>10 DEF Fits, listVars
    <2> QED
      BY <1>4, <1>8, <1>10, <1>11, <2>1, <2>2, <2>3 DEF Fits
  <1>13. VerbInv'
    BY <1>1, <1>4, <1>5, <1>6, <1>11 DEF VerbInv
  <1> QED
    BY <1>7, <1>12, <1>13

LEMMA MoveListStep ==
  ASSUME TypeInv, VerbInv, NEW s \in Shapes, NEW t \in Shapes, Fits(s),
         NEW rule, Matched(rule), Move(rule, s, t), rules' \in Seq(RuleNames),
         moveBnpl_collection_listIntoStack
  PROVE  TypeInv' /\ VerbInv' /\ Fits(t)'
PROOF
  <1>1. /\ bnpl_collection_list_stack' = Pushed(bnpl_collection_list, bnpl_collection_list_stack)
        /\ bnpl_collection_list' = <<>>
        /\ UNCHANGED <<terms, latest_BN_label, element_, verbVars, pairVars>>
        /\ rule \in {"collectionBegin", "blankNodePropertyListBegin"}
    BY DEF moveBnpl_collection_listIntoStack, Matched
  <1>2. /\ bnpl_collection_list_stack' \in Seq(Seq(Values))
        /\ Len(bnpl_collection_list_stack') = Len(bnpl_collection_list_stack) + 1
    BY <1>1, PushedOnto DEF TypeInv
  <1>3. TypeInv' /\ VerbInv'
    BY <1>1, <1>2 DEF TypeInv, VerbInv, verbVars, pairVars
  <1>4. PICK kind \in {"list", "collection"} : AtBracket(s) /\ t = Opened(s, kind)
    BY <1>1, ObjectMoves
  <1>5. /\ Len(t.frames) = Len(s.frames) + 1 /\ s.frames # <<>>
        /\ Depth(t) = Depth(s) /\ Verbs(t) = Verbs(s)
    BY <1>4, OpenedSizes
  <1>6. WellFormed(t.frames)
    <2>1. rule \notin DOMAIN Alternatives
      BY <1>1 DEF Alternatives
    <2> QED
      BY <2>1, WellFormedMove DEF Fits
  <1>7. Len(s.frames) \in Nat /\ Len(s.frames) > 0
    BY <1>5, DepthFacts DEF Fits
  <1>8. Len(bnpl_collection_list_stack') = Before(Len(t.frames))
    BY <1>2, <1>5, <1>7 DEF Fits, Before
  <1>9. Fits(t)'
    BY <1>1, <1>5, <1>6, <1>8 DEF Fits, verbVars, pairVars
  <1> QED
    BY <1>3, <1>9

LEMMA ProcessPairsStep ==
  ASSUME TypeInv, VerbInv, NEW s \in Shapes, NEW t \in Shapes, Fits(s),
         Move("processPredicateObjectListInner", s, t), rules' \in Seq(RuleNames),
         processPredicateObjectListInner
  PROVE  TypeInv' /\ VerbInv' /\ Fits(t)'
PROOF
  <1> DEFINE added == [i \in 1 .. Len(bnpl_collection_list) |->
                        <<Head(verb_stack), bnpl_collection_list[i]>>]
  <1>1. /\ verb_stack' = Tail(verb_stack)
        /\ verb_object_pair_list' = verb_object_pair_list \o added
        /\ bnpl_collection_list' = <<>>
        /\ UNCHANGED <<terms, latest_BN_label, element_, verb_stack_one_step_pre_size,
                       bnpl_collection_list_stack, verb_object_pair_list_stack>>
    BY DEF processPredicateObjectListInner
  <1>2. InnerIs(s, {"open"}) /\ t = WithVerb(s, "shut")
    BY VerbMoves
  <1>3. /\ Len(t.frames) = Len(s.frames) /\ Depth(t) = Depth(s) /\ Verbs(t) = Verbs(s) - 1
        /\ Verbs(s) > 0
    BY <1>2, ShutSizes DEF Fits
  <1>4. /\ verb_stack # <<>> /\ Head(verb_stack) \in Values
        /\ verb_stack' \in Seq(Values) /\ Len(verb_stack') = Len(verb_stack) - 1
        /\ Len(verb_stack) \in Nat
    <2>1. verb_stack \in Seq(Values) /\ Len(verb_stack) = Verbs(s)
      BY DEF TypeInv, Fits
    <2>2. verb_stack # <<>>
      <3>1. verb_stack = <<>> => Len(verb_stack) = 0
        OBVIOUS
      <3> QED
        BY <1>3, <2>1, <3>1
    <2> QED
      BY <1>1, <2>1, <2>2, AtTail
  <1>5. added \in Seq(Pairs)
    <2>1. Len(bnpl_collection_list) \in Nat
      BY DEF TypeInv
    <2>2. ASSUME NEW i \in 1 .. Len(bnpl_collection_list)
          PROVE  <<Head(verb_stack), bnpl_collection_list[i]>> \in Pairs
      BY <1>4 DEF TypeInv, Pairs
    <2> QED
      BY <2>1, <2>2
  <1> HIDE DEF added
  <1>6. TypeInv'
    <2>1. verb_object_pair_list' \in Seq(Pairs)
      BY <1>1, <1>5 DEF TypeInv
    <2>2. <<>> \in Seq(Values)
      OBVIOUS
    <2> QED
      BY <1>1, <1>4, <2>1, <2>2 DEF TypeInv
  <1>7. Fits(t)'
    <2>1. WellFormed(t.frames)
      BY WellFormedMove DEF Alternatives, Fits
    <2> QED
      BY <1>1, <1>3, <1>4, <2>1 DEF Fits
  <1>8. VerbInv'
    <2>1. /\ verb_stack_one_step_pre_size \in Nat
          /\ verb_stack_one_step_pre_size' = verb_stack_one_step_pre_size
          /\ Len(verb_stack) <= verb_stack_one_step_pre_size + 1
          /\ Len(verb_stack) \in Nat /\ Len(verb_stack') = Len(verb_stack) - 1
      BY <1>1, <1>4 DEF TypeInv, VerbInv
    <2>2. /\ Len(verb_stack') <= verb_stack_one_step_pre_size' + 1
          /\ Len(verb_stack') # verb_stack_one_step_pre_size' + 1
      BY <2>1
    <2> QED
      BY <2>2 DEF VerbInv
  <1> QED
    BY <1>6, <1>7, <1>8

(* What closing a bracket takes from bnpl_collection_list_stack.            *)
LEMMA RestoreFacts ==
  ASSUME TypeInv, NEW s \in Shapes, Fits(s), Len(s.frames) > 1, RestoreList
  PROVE  /\ bnpl_collection_list' \in Seq(Values)
         /\ bnpl_collection_list_stack' \in Seq(Seq(Values))
         /\ bnpl_collection_list_stack # <<>>
         /\ Len(bnpl_collection_list_stack') = Before(Len(s.frames) - 1)
PROOF
  <1>1. Len(s.frames) \in Nat
    BY DepthFacts DEF Fits
  <1>2. Len(bnpl_collection_list_stack) = Len(s.frames) - 1
        /\ Before(Len(s.frames) - 1) = Len(s.frames) - 2
    <2>1. Len(bnpl_collection_list_stack) = Before(Len(s.frames))
      BY DEF Fits
    <2>2. Before(Len(s.frames)) = Len(s.frames) - 1
          /\ Before(Len(s.frames) - 1) = Len(s.frames) - 2
      BY <1>1, BeforeInner
    <2> QED
      BY <2>1, <2>2
  <1>3. bnpl_collection_list_stack \in Seq(Seq(Values)) /\ bnpl_collection_list_stack # <<>>
    <2>1. bnpl_collection_list_stack = <<>> => Len(bnpl_collection_list_stack) = 0
      OBVIOUS
    <2>2. Len(bnpl_collection_list_stack) > 0
      BY <1>1, BeforeInner DEF Fits
    <2> QED
      BY <2>1, <2>2 DEF TypeInv
  <1>4. /\ bnpl_collection_list' \in Seq(Values)
        /\ bnpl_collection_list_stack' \in Seq(Seq(Values))
        /\ Len(bnpl_collection_list_stack') = Len(bnpl_collection_list_stack) - 1
    BY <1>3 DEF RestoreList
  <1> QED
    BY <1>1, <1>2, <1>3, <1>4


LEMMA ProcessCollectionStep ==
  ASSUME TypeInv, VerbInv, NEW s \in Shapes, NEW t \in Shapes, Fits(s),
         Move("processCollection", s, t), rules' \in Seq(RuleNames), processCollection
  PROVE  TypeInv' /\ VerbInv' /\ Fits(t)'
PROOF
  <1> DEFINE nodes == IF bnpl_collection_list = <<>> THEN 1 ELSE Len(bnpl_collection_list)
  <1>1. /\ latest_BN_label' = latest_BN_label + nodes
        /\ element_' = BNode(latest_BN_label' - 1)
        /\ RestoreList
        /\ UNCHANGED <<terms, verbVars, pairVars>>
    BY DEF processCollection, docVars
  <1>2. /\ InnerIs(s, {"collection"}) /\ t = Shape(Tail(s.frames), "any", s.seq)
        /\ WellFormed(s.frames)
    BY ObjectMoves DEF Fits
  <1>3. /\ Len(t.frames) = Len(s.frames) - 1 /\ t.frames # <<>>
        /\ Depth(t) = Depth(s) /\ Verbs(t) = Verbs(s)
    BY <1>2, ClosedSizes
  <1>4. WellFormed(t.frames)
    BY <1>2, WellFormedMove DEF Alternatives
  <1>5. Len(s.frames) > 1
    <2>1. Len(t.frames) > 0 /\ Len(s.frames) \in Nat
      BY <1>2, <1>3, <1>4, DepthFacts
    <2> QED
      BY <1>3, <2>1
  <1>6. /\ bnpl_collection_list' \in Seq(Values)
        /\ bnpl_collection_list_stack' \in Seq(Seq(Values))
        /\ Len(bnpl_collection_list_stack') = Before(Len(t.frames))
    BY <1>1, <1>3, <1>5, RestoreFacts
  <1>7. latest_BN_label' \in Nat /\ latest_BN_label' - 1 \in Nat
    <2>1. nodes \in Nat /\ nodes > 0
      BY DEF TypeInv
    <2>2. latest_BN_label \in Nat
      BY DEF TypeInv
    <2> HIDE DEF nodes
    <2> QED
      BY <1>1, <2>1, <2>2
  <1>8. TypeInv'
    <2>1. element_' \in Values
      BY <1>1, <1>7 DEF Values
    <2> QED
      BY <1>1, <1>6, <1>7, <2>1 DEF TypeInv, verbVars, pairVars
  <1>9. VerbInv'
    BY <1>1 DEF VerbInv, verbVars, pairVars
  <1>10. Fits(t)'
    BY <1>1, <1>3, <1>4, <1>6 DEF Fits, verbVars, pairVars
  <1> QED
    BY <1>8, <1>9, <1>10

LEMMA ProcessListStep ==
  ASSUME TypeInv, VerbInv, NEW s \in Shapes, NEW t \in Shapes, Fits(s),
         Move("processBlankNodePropertyList", s, t), rules' \in Seq(RuleNames),
         processBlankNodePropertyList
  PROVE  TypeInv' /\ VerbInv' /\ Fits(t)'
PROOF
  <1> DEFINE verbs == Len(verb_stack)
             aside == Len(verb_object_pair_list_stack)
  <1>1. /\ latest_BN_label' = latest_BN_label + 1
        /\ element_' = BNode(latest_BN_label)
        /\ RestoreList
        /\ UNCHANGED <<terms, verbVars>>
    BY DEF processBlankNodePropertyList, docVars
  <1>2. /\ InnerIs(s, {"shut"}) /\ Len(s.frames) > 1 /\ t = ListClosed(Tail(s.frames), s.seq)
        /\ WellFormed(s.frames)
    BY ObjectMoves DEF Fits
  <1>3. /\ Len(t.frames) = Len(s.frames) - 1
        /\ Depth(t) = Verbs(s) /\ Verbs(t) = Verbs(s) /\ Depth(s) = Verbs(s) + 1
    BY <1>2, ListClosedSizes
  <1>4. WellFormed(t.frames)
    BY <1>2, WellFormedMove DEF Alternatives
  <1>5. /\ bnpl_collection_list' \in Seq(Values)
        /\ bnpl_collection_list_stack' \in Seq(Seq(Values))
        /\ Len(bnpl_collection_list_stack') = Before(Len(t.frames))
    BY <1>1, <1>2, <1>3, RestoreFacts
  <1>6. /\ verb_object_pair_list' \in Seq(Pairs)
        /\ verb_object_pair_list_stack' \in Seq(Seq(Pairs))
        /\ Len(verb_object_pair_list_stack') = Before(aside)
    <2>1. CASE verb_object_pair_list_stack # <<>>
      <3>1. /\ verb_object_pair_list' = Head(verb_object_pair_list_stack)
            /\ verb_object_pair_list_stack' = Tail(verb_object_pair_list_stack)
        BY <2>1 DEF processBlankNodePropertyList
      <3>2. verb_object_pair_list_stack \in Seq(Seq(Pairs))
        BY DEF TypeInv
      <3>3. /\ aside \in Nat /\ aside # 0
            /\ verb_object_pair_list_stack' \in Seq(Seq(Pairs))
            /\ Len(verb_object_pair_list_stack') = aside - 1
            /\ verb_object_pair_list' \in Seq(Pairs)
        BY <2>1, <3>1, <3>2
      <3> QED
        BY <3>3 DEF Before
    <2>2. CASE verb_object_pair_list_stack = <<>>
      <3>1. /\ verb_object_pair_list' = <<>>
            /\ verb_object_pair_list_stack' = <<>>
        BY <2>2 DEF processBlankNodePropertyList
      <3> QED
        BY <2>2, <3>1 DEF Before
    <2> QED
      BY <2>1, <2>2
  <1>7. verbs \in Nat /\ aside \in Nat /\ verb_stack_one_step_pre_size \in Nat
    BY DEF TypeInv
  <1>8. TypeInv'
    <2>1. latest_BN_label \in Nat /\ latest_BN_label' \in Nat
      BY <1>1 DEF TypeInv
    <2>2. element_' \in Values
      BY <1>1, <2>1 DEF Values
    <2> QED
      BY <1>1, <1>5, <1>6, <2>1, <2>2 DEF TypeInv, verbVars
  <1>9. aside <= Before(Depth(s)) /\ verbs = Verbs(s)
    BY DEF Fits
  <1> HIDE DEF verbs, aside
  <1>10. Before(aside) <= Before(verbs) /\ Before(aside) <= aside /\ Before(aside) \in Nat
    <2>1. Before(Depth(s)) = verbs
      BY <1>3, <1>7, <1>9, BeforeFacts
    <2>2. aside <= verbs
      BY <1>9, <2>1
    <2> QED
      BY <1>7, <2>2 DEF Before
  <1>11. Fits(t)'
    <2>1. Len(verb_object_pair_list_stack') <= Before(Depth(t))
      BY <1>3, <1>6, <1>9, <1>10
    <2>2. Len(verb_stack') = Verbs(t)
      BY <1>1, <1>3, <1>9 DEF verbVars, verbs
    <2> QED
      BY <1>4, <1>5, <2>1, <2>2 DEF Fits
  <1>12. VerbInv'
    <2>1. verb_stack' = verb_stack /\ verb_stack_one_step_pre_size' = verb_stack_one_step_pre_size
      BY <1>1 DEF verbVars
    <2>2. /\ verbs <= verb_stack_one_step_pre_size + 1
          /\ verbs = verb_stack_one_step_pre_size + 1 => aside < verbs
      BY DEF VerbInv, verbs, aside
    <2>3. aside < verbs => Before(aside) < verbs
      BY <1>7, <1>10
    <2> QED
      BY <1>6, <2>1, <2>2, <2>3 DEF VerbInv, verbs
  <1> QED
    BY <1>8, <1>11, <1>12

(* Every action of State takes the stacks where the shape goes.             *)
LEMMA ActionStep ==
  ASSUME TypeInv, VerbInv, NEW s \in Shapes, NEW t \in Shapes, Fits(s),
         NEW rule, Matched(rule), Move(rule, s, t), rules' \in Seq(RuleNames),
         Next, ~MatchRule
  PROVE  TypeInv' /\ VerbInv' /\ Fits(t)'
PROOF
  <1>1. CASE \/ ReadTerm \/ BeginStatement \/ setSubject \/ pushCurrentTermIntoBnpl_collection_list
             \/ processTripleSeq \/ clearTripleParameters
    BY <1>1, PlainActionStep
  <1>2. CASE processVerb
    <2>1. rule = "processVerb"
      BY <1>2 DEF processVerb, Matched
    <2> QED
      BY <1>2, <2>1, ProcessVerbStep
  <1>3. CASE moveBnpl_collection_listIntoStack
    BY <1>3, MoveListStep
  <1>4. CASE processPredicateObjectListInner
    <2>1. rule = "processPredicateObjectListInner"
      BY <1>4 DEF processPredicateObjectListInner, Matched
    <2> QED
      BY <1>4, <2>1, ProcessPairsStep
  <1>5. CASE processCollection
    <2>1. rule = "processCollection"
      BY <1>5 DEF processCollection, Matched
    <2> QED
      BY <1>5, <2>1, ProcessCollectionStep
  <1>6. CASE processBlankNodePropertyList
    <2>1. rule = "processBlankNodePropertyList"
      BY <1>6 DEF processBlankNodePropertyList, Matched
    <2> QED
      BY <1>6, <2>1, ProcessListStep
  <1>7. ~Done
    BY DEF Done, Matched
  <1> QED
    BY <1>1, <1>2, <1>3, <1>4, <1>5, <1>6, <1>7 DEF Next

(* A step that is neither a rule of the grammar nor a stutter matches the   *)
(* rule of an action.                                                       *)
LEMMA ActionMatches ==
  ASSUME Next, ~MatchRule, rules # <<>>
  PROVE  Matched(Head(rules)) /\ Head(rules) \notin DOMAIN Alternatives
PROOF
  <1>1. \E rule \in {"term", "beginStatement", "setSubject", "processVerb", "pushCurrentTerm",
                     "collectionBegin", "blankNodePropertyListBegin",
                     "processPredicateObjectListInner", "processCollection",
                     "processBlankNodePropertyList", "processTripleSeq", "processTripleSeq2",
                     "clearTripleParameters"} : Matched(rule)
    BY DEF Next, Done, ReadTerm, BeginStatement, setSubject, processVerb,
           pushCurrentTermIntoBnpl_collection_list, moveBnpl_collection_listIntoStack,
           processPredicateObjectListInner, processCollection, processBlankNodePropertyList,
           processTripleSeq, clearTripleParameters
  <1> QED
    BY <1>1 DEF Matched, Alternatives

(* A step of the grammar or a stutter changes no shape, and an action moves  *)
(* it.                                                                      *)
Still(s, t) == t = s /\ (MatchRule \/ UNCHANGED vars)

Acted(s, t) ==
  /\ Next /\ ~MatchRule
  /\ \E rule : rule \notin DOMAIN Alternatives /\ Matched(rule) /\ Move(rule, s, t)

LEMMA ShapeStep ==
  ASSUME TypeInv, VerbInv, NEW s \in Shapes, Ahead(s), Fits(s), [Next]_vars
  PROVE  /\ TypeInv' /\ VerbInv'
         /\ \E t \in Shapes : Ahead(t)' /\ Fits(t)' /\ (Still(s, t) \/ Acted(s, t))
PROOF
  <1>1. CASE MatchRule
    BY <1>1, MatchRuleStep DEF Still
  <1>2. CASE UNCHANGED vars
    <2>1. UNCHANGED <<rules, terms, latest_BN_label, element_, verbVars, listVars, pairVars>>
      BY <1>2 DEF vars, docVars
    <2>2. TypeInv' /\ VerbInv' /\ Ahead(s)' /\ Fits(s)'
      BY <2>1 DEF TypeInv, VerbInv, Ahead, Fits, verbVars, listVars, pairVars
    <2> QED
      BY <1>2, <2>2 DEF Still
  <1>3. CASE Next /\ ~MatchRule /\ ~UNCHANGED vars
    <2>1. rules # <<>>
      BY <1>3 DEF Next, Done, ReadTerm, BeginStatement, setSubject, processVerb,
            pushCurrentTermIntoBnpl_collection_list, moveBnpl_collection_listIntoStack,
            processPredicateObjectListInner, processCollection, processBlankNodePropertyList,
            processTripleSeq, clearTripleParameters, Matched
    <2>2. Matched(Head(rules)) /\ Head(rules) \notin DOMAIN Alternatives
      BY <1>3, <2>1, ActionMatches
    <2>3. rules' \in Seq(RuleNames)
          /\ \E t \in Shapes : Move(Head(rules), s, t) /\ Ahead(t)'
      BY <2>2, MatchedShape
    <2>4. PICK t \in Shapes : Move(Head(rules), s, t) /\ Ahead(t)'
      BY <2>3
    <2>5. TypeInv' /\ VerbInv' /\ Fits(t)'
      BY <1>3, <2>2, <2>3, <2>4, ActionStep
    <2>6. Acted(s, t)
      BY <1>3, <2>2, <2>4 DEF Acted
    <2> QED
      BY <2>4, <2>5, <2>6
  <1> QED
    BY <1>1, <1>2, <1>3

(* The stacks of State are as deep as what is still to be matched needs     *)
(* them.                                                                    *)
THEOREM StackInvariant == Spec => []StackInv
PROOF
  <1>1. Init => StackInv
    BY InitStack DEF StackInv
  <1>2. StackInv /\ [Next]_vars => StackInv'
    <2>1. SUFFICES ASSUME StackInv, [Next]_vars
                   PROVE  StackInv'
      OBVIOUS
    <2>2. PICK s \in Shapes : Ahead(s) /\ Fits(s)
      BY <2>1 DEF StackInv
    <2> QED
      BY <2>1, <2>2, ShapeStep DEF StackInv
  <1> QED
    BY <1>1, <1>2, PTL DEF Spec

(* Each top that an action takes from a stack has been pushed: no document  *)
(* makes State read or pop an empty stack.                                  *)
THEOREM EveryPopHasItsPush == Spec => []NoPopOfEmptyStack
PROOF
  <1>1. StackInv => NoPopOfEmptyStack
    <2> SUFFICES ASSUME StackInv, rules # <<>>
                 PROVE  /\ Head(rules) = "processPredicateObjectListInner" => verb_stack # <<>>
                        /\ Head(rules) \in {"processCollection", "processBlankNodePropertyList"} =>
                             bnpl_collection_list_stack # <<>>
      BY DEF NoPopOfEmptyStack
    <2>1. PICK s \in Shapes : Ahead(s) /\ Fits(s)
      BY DEF StackInv
    <2>2. PICK t \in Shapes : Move(Head(rules), s, t)
      BY <2>1, RunsHead DEF StackInv, TypeInv, Ahead
    <2>3. Head(rules) = "processPredicateObjectListInner" => Len(verb_stack) > 0
      BY <2>1, <2>2, VerbMoves, ShutSizes DEF Fits
    <2>4. Head(rules) \in {"processCollection", "processBlankNodePropertyList"} =>
            Len(bnpl_collection_list_stack) > 0
      <3>1. CASE Head(rules) = "processCollection"
        <4> DEFINE n == Len(s.frames)
                   u == Shape(Tail(s.frames), "any", s.seq)
        <4>1. InnerIs(s, {"collection"})
          BY <2>2, <3>1, ObjectMoves
        <4>2. Len(u.frames) = n - 1 /\ u.frames # <<>> /\ n \in Nat
          BY <2>1, <4>1, ClosedSizes, DepthFacts DEF Fits
        <4>3. u.frames \in Seq(Frames)
          BY <4>1, AtTail, ShapeFields DEF InnerIs
        <4>4. Len(u.frames) > 0
          BY <4>2, <4>3
        <4> HIDE DEF u
        <4> QED
          BY <2>1, <4>2, <4>4, BeforeInner DEF Fits
      <3>2. CASE Head(rules) = "processBlankNodePropertyList"
        <4>1. Len(s.frames) > 1 /\ Len(s.frames) \in Nat
          BY <2>1, <2>2, <3>2, ObjectMoves, DepthFacts DEF Fits
        <4> QED
          BY <2>1, <4>1, BeforeInner DEF Fits
      <3> QED
        BY <3>1, <3>2
    <2>5. Len(<<>>) = 0
      OBVIOUS
    <2> QED
      BY <2>3, <2>4, <2>5
  <1> QED
    BY <1>1, StackInvariant, PTL

(* A statement of any size leaves all three stacks empty, though            *)
(* clearTripleParameters does not clear them: the next statement begins as  *)
(* the first did.                                                           *)
THEOREM StatementsLeaveNothing == Spec => []NothingLeftBehind
PROOF
  <1>1. StackInv => NothingLeftBehind
    <2> SUFFICES ASSUME StackInv, BetweenStatements
                 PROVE  /\ verb_stack = <<>> /\ bnpl_collection_list_stack = <<>>
                        /\ verb_object_pair_list_stack = <<>>
      BY DEF NothingLeftBehind
    <2>1. PICK s \in Shapes : Ahead(s) /\ Fits(s)
      BY DEF StackInv
    <2>2. s = Nothing
      <3>1. CASE rules = <<>>
        BY <2>1, <3>1, EmptyRuns DEF Ahead
      <3>2. CASE rules # <<>> /\ Head(rules) = "moreStatements"
        <4>1. PICK t \in Shapes : Move("moreStatements", s, t)
          BY <2>1, <3>2, RunsHead DEF StackInv, TypeInv, Ahead
        <4> QED
          BY <4>1, StatementMoves
      <3> QED
        BY <3>1, <3>2 DEF BetweenStatements
    <2>3. /\ Len(verb_stack) = 0 /\ Len(bnpl_collection_list_stack) = 0
          /\ Len(verb_object_pair_list_stack) <= 0
      BY <2>1, <2>2, StatementSizes DEF Fits, Before
    <2>4. Len(verb_object_pair_list_stack) = 0
      BY <2>3 DEF StackInv, TypeInv
    <2> QED
      BY <2>3, <2>4 DEF StackInv, TypeInv
  <1> QED
    BY <1>1, StackInvariant, PTL

=============================================================================
