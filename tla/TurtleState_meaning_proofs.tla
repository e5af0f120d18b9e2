---------------------- MODULE TurtleState_meaning_proofs ----------------------
(***************************************************************************)
(* Theorems about the triples that State inserts: each of them once, and    *)
(* those that the document means.                                          *)
(***************************************************************************)
EXTENDS TurtleState_proofs

LEMMA Concatenated ==
  ASSUME NEW S, NEW a \in Seq(S), NEW b \in Seq(S)
  PROVE  /\ a \o b \in Seq(S) /\ Len(a \o b) = Len(a) + Len(b)
         /\ Len(a) \in Nat /\ Len(b) \in Nat
         /\ \A j \in 1 .. Len(a) : j \in 1 .. Len(a \o b) /\ (a \o b)[j] = a[j]
         /\ \A j \in 1 .. Len(b) : Len(a) + j \in 1 .. Len(a \o b) /\ (a \o b)[Len(a) + j] = b[j]
         /\ \A j \in 1 .. Len(a \o b) : j \in 1 .. Len(a) \/ \E k \in 1 .. Len(b) : j = Len(a) + k
PROOF
  <1> DEFINE m == Len(a)
             n == Len(b)
             ab == a \o b
  <1>1. /\ ab \in Seq(S) /\ Len(ab) = m + n /\ m \in Nat /\ n \in Nat
        /\ \A j \in 1 .. m + n : ab[j] = IF j <= m THEN a[j] ELSE b[j - m]
    OBVIOUS
  <1> HIDE DEF m, n, ab
  <1>2. \A j \in 1 .. m : j \in 1 .. m + n /\ ab[j] = a[j]
    BY <1>1
  <1>3. ASSUME NEW j \in 1 .. n
        PROVE  m + j \in 1 .. m + n /\ ab[m + j] = b[j]
    <2>1. m + j \in 1 .. m + n /\ ~(m + j <= m) /\ m + j - m = j
      BY <1>1
    <2> QED
      BY <1>1, <2>1
  <1>4. ASSUME NEW j \in 1 .. m + n
        PROVE  j \in 1 .. m \/ \E k \in 1 .. n : j = m + k
    <2>1. j \in 1 .. m \/ (j - m \in 1 .. n /\ j = m + (j - m))
      BY <1>1
    <2> QED
      BY <2>1
  <1> QED
    BY <1>1, <1>2, <1>3, <1>4 DEF m, n, ab

-----------------------------------------------------------------------------
(* The terms read and the nodes made so far.                                *)

TermsRead == {Term(n) : n \in 1 .. terms}

NodesMade == {BNode(n) : n \in 0 .. latest_BN_label - 1}

Known == TermsRead \cup NodesMade

KnownPairs == TermsRead \X Known

(* The triples that have been inserted are of these two kinds.              *)
StatedTriples == Known \X TermsRead \X Known

CollectionNodes == NodesMade \X {first, rest} \X (Known \cup {nil})

LEMMA ValueFacts ==
  /\ \A i, j : Term(i) = Term(j) => i = j
  /\ \A i, j : BNode(i) = BNode(j) => i = j
  /\ \A i, j : Term(i) # BNode(j)
  /\ \A i : Term(i) \notin {None, first, rest, nil} /\ BNode(i) \notin {None, first, rest, nil}
  /\ first # rest /\ first # nil /\ rest # nil /\ None \notin {first, rest, nil}
PROOF
  BY DEF Term, BNode, None, first, rest, nil

LEMMA KnownFacts ==
  ASSUME TypeInv
  PROVE  /\ Known \subseteq Values /\ TermsRead \subseteq Known /\ NodesMade \subseteq Known
         /\ \A x \in TermsRead : x \notin NodesMade
         /\ \A x \in Known : x \notin {None, first, rest, nil}
         /\ \A k : Term(k) \notin NodesMade /\ BNode(k) \notin TermsRead
         /\ Term(terms + 1) \notin Known
         /\ \A k \in Nat : BNode(latest_BN_label + k) \notin Known
PROOF
  <1>1. TermsRead \subseteq Values /\ NodesMade \subseteq Values
    BY DEF TypeInv, TermsRead, NodesMade, Values
  <1>2. \A k : Term(k) \notin NodesMade /\ BNode(k) \notin TermsRead
    BY ValueFacts DEF TermsRead, NodesMade
  <1>3. Term(terms + 1) \notin TermsRead
    BY ValueFacts DEF TermsRead, TypeInv
  <1>4. \A k \in Nat : BNode(latest_BN_label + k) \notin NodesMade
    BY ValueFacts DEF NodesMade, TypeInv
  <1>5. \A x \in Known : x \notin {None, first, rest, nil}
    BY ValueFacts DEF Known, TermsRead, NodesMade
  <1>6. \A x \in TermsRead : x \notin NodesMade
    BY <1>2 DEF TermsRead
  <1> QED
    BY <1>1, <1>2, <1>3, <1>4, <1>5, <1>6 DEF Known

(* Nothing that is known is forgotten.                                      *)
LEMMA KnownGrows ==
  ASSUME TypeInv, TypeInv', terms <= terms', latest_BN_label <= latest_BN_label'
  PROVE  /\ TermsRead \subseteq TermsRead' /\ NodesMade \subseteq NodesMade' /\ Known \subseteq Known'
         /\ KnownPairs \subseteq KnownPairs' /\ StatedTriples \subseteq StatedTriples'
         /\ CollectionNodes \subseteq CollectionNodes'
PROOF
  <1>1. TermsRead \subseteq TermsRead'
    BY DEF TermsRead, TypeInv
  <1>2. NodesMade \subseteq NodesMade'
    <2>1. latest_BN_label \in Nat /\ latest_BN_label' \in Nat
      BY DEF TypeInv
    <2>2. \A m, n \in Nat : m <= n => \A i \in 0 .. m - 1 : i \in 0 .. n - 1
      OBVIOUS
    <2>3. \A i \in 0 .. latest_BN_label - 1 : i \in 0 .. latest_BN_label' - 1
      BY <2>1, <2>2
    <2> QED
      BY <2>3 DEF NodesMade
  <1> QED
    BY <1>1, <1>2 DEF Known, KnownPairs, StatedTriples, CollectionNodes

LEMMA NodesKnown ==
  ASSUME TypeInv'
  PROVE  \A i \in Nat : i < latest_BN_label' => BNode(i) \in NodesMade' /\ BNode(i) \in Known'
PROOF
  BY DEF TypeInv, NodesMade, Known

LEMMA SequencesGrow ==
  ASSUME NEW S, NEW T, S \subseteq T
  PROVE  Seq(S) \subseteq Seq(T) /\ Seq(Seq(S)) \subseteq Seq(Seq(T))
PROOF
  <1>1. Seq(S) \subseteq Seq(T)
    BY SeqMonotonic
  <1> QED
    BY <1>1, SeqMonotonic

LEMMA SequencesKept ==
  ASSUME TypeInv, TypeInv', terms <= terms', latest_BN_label <= latest_BN_label'
  PROVE  /\ Seq(Known) \subseteq Seq(Known') /\ Seq(Seq(Known)) \subseteq Seq(Seq(Known'))
         /\ Seq(TermsRead) \subseteq Seq(TermsRead')
         /\ Seq(KnownPairs) \subseteq Seq(KnownPairs')
         /\ Seq(Seq(KnownPairs)) \subseteq Seq(Seq(KnownPairs'))
         /\ Seq(StatedTriples \cup CollectionNodes) \subseteq
              Seq((StatedTriples \cup CollectionNodes)')
PROOF
  <1>1. /\ TermsRead \subseteq TermsRead' /\ Known \subseteq Known' /\ KnownPairs \subseteq KnownPairs'
        /\ (StatedTriples \cup CollectionNodes) \subseteq (StatedTriples \cup CollectionNodes)'
    BY KnownGrows
  <1> QED
    BY <1>1, SequencesGrow

(* The frame of a statement with no bracket open.                           *)
LEMMA LoneFrame ==
  ASSUME NEW kind \in {"begun", "subject", "shut", "end"}, NEW depth \in Nat
  PROVE  LET frames == <<Frame(kind, depth)>>
         IN  /\ frames \in Seq(Frames) /\ frames # <<>> /\ Len(frames) = 1 /\ Tail(frames) = <<>>
             /\ frames = Pushed(Frame(kind, depth), <<>>)
             /\ Head(frames) = Frame(kind, depth)
             /\ Head(frames).kind = kind /\ Head(frames).depth = depth
PROOF
  <1> DEFINE f == Frame(kind, depth)
  <1>1. f.kind = kind /\ f.depth = depth /\ f \in Frames
    BY FrameFields
  <1> HIDE DEF f
  <1>2. <<f>> \in Seq(Frames) /\ <<f>> # <<>> /\ Len(<<f>>) = 1 /\ Head(<<f>>) = f
        /\ Tail(<<f>>) = <<>>
    BY <1>1
  <1>3. <<f>> = Pushed(f, <<>>)
    BY DEF Pushed
  <1> QED
    BY <1>1, <1>2, <1>3 DEF f

LEMMA StatementFrames ==
  /\ Head(Begun).kind = "begun" /\ Head(Begun).depth = 0
  /\ Head(Subject).kind = "subject" /\ Head(Subject).depth = 0
  /\ Head(AfterVerbs).kind = "shut" /\ Head(AfterVerbs).depth = 1
  /\ Head(Ended).kind = "end" /\ Head(Ended).depth = 1
  /\ \A frames \in {Begun, Subject, AfterVerbs, Ended} :
       /\ frames \in Seq(Frames) /\ frames # <<>> /\ Len(frames) = 1 /\ Tail(frames) = <<>>
       /\ frames = Pushed(Head(frames), <<>>)
PROOF
  BY LoneFrame DEF Begun, Subject, AfterVerbs, Ended

-----------------------------------------------------------------------------
(* The triples that the actions insert.                                     *)

LEMMA TriplesFacts ==
  ASSUME NEW P, verb_object_pair_list \in Seq(P), NEW subject, NEW S,
         \A pair \in P : <<subject, pair[1], pair[2]>> \in S
  PROVE  /\ Triples(subject) \in Seq(S)
         /\ Len(Triples(subject)) = Len(verb_object_pair_list)
         /\ \A i \in 1 .. Len(verb_object_pair_list) :
              Triples(subject)[i] = <<subject, verb_object_pair_list[i][1], verb_object_pair_list[i][2]>>
PROOF
  <1> DEFINE n == Len(verb_object_pair_list)
  <1>1. n \in Nat /\ \A i \in 1 .. n : verb_object_pair_list[i] \in P
    OBVIOUS
  <1>2. Triples(subject) = [i \in 1 .. n |->
                              <<subject, verb_object_pair_list[i][1], verb_object_pair_list[i][2]>>]
    BY DEF Triples
  <1> HIDE DEF n
  <1>3. Triples(subject) \in [1 .. n -> S]
    BY <1>1, <1>2
  <1> QED
    BY <1>1, <1>2, <1>3 DEF n

LEMMA Halves ==
  /\ \A k \in Nat : k > 0 => (2 * k - 1 + 1) \div 2 = k /\ (2 * k - 1) % 2 = 1
                           /\ (2 * k + 1) \div 2 = k /\ (2 * k) % 2 = 0
  /\ \A n \in Nat : \A j \in 1 .. 2 * n :
       LET k == (j + 1) \div 2 IN k \in 1 .. n /\ (j = 2 * k - 1 \/ j = 2 * k)
PROOF
  OBVIOUS

LEMMA CollectionTriplesFacts ==
  ASSUME TypeInv, bnpl_collection_list # <<>>
  PROVE  LET n == Len(bnpl_collection_list)
         IN  /\ n \in Nat \ {0} /\ Len(CollectionTriples) = 2 * n
             /\ CollectionTriples = [j \in 1 .. 2 * n |-> CollectionTriples[j]]
             /\ \A k \in 1 .. n :
                  /\ 2 * k - 1 \in 1 .. 2 * n /\ 2 * k \in 1 .. 2 * n
                  /\ CollectionTriples[2 * k - 1] =
                       <<BNode(latest_BN_label + k - 1), rest,
                         IF k = 1 THEN nil ELSE BNode(latest_BN_label + k - 2)>>
                  /\ CollectionTriples[2 * k] =
                       <<BNode(latest_BN_label + k - 1), first, bnpl_collection_list[n + 1 - k]>>
             /\ \A j \in 1 .. 2 * n : \E k \in 1 .. n : j = 2 * k - 1 \/ j = 2 * k
PROOF
  <1> DEFINE n == Len(bnpl_collection_list)
             node(k) == BNode(latest_BN_label + k - 1)
             T(j) == LET k == (j + 1) \div 2
                     IN  IF j % 2 = 1
                           THEN <<node(k), rest, IF k = 1 THEN nil ELSE node(k - 1)>>
                           ELSE <<node(k), first, bnpl_collection_list[n + 1 - k]>>
  <1>1. n \in Nat \ {0} /\ latest_BN_label \in Nat
    BY DEF TypeInv
  <1>2. CollectionTriples = [j \in 1 .. 2 * n |-> T(j)]
    BY DEF CollectionTriples, ItemNode
  <1> HIDE DEF n
  <1>3. Len(CollectionTriples) = 2 * n
    BY <1>1, <1>2
  <1>4. \A j \in 1 .. 2 * n : CollectionTriples[j] = T(j)
    BY <1>2
  <1>5. CollectionTriples = [j \in 1 .. 2 * n |-> CollectionTriples[j]]
    BY <1>2, <1>4
  <1>6. ASSUME NEW k \in 1 .. n
        PROVE  /\ 2 * k - 1 \in 1 .. 2 * n /\ 2 * k \in 1 .. 2 * n
               /\ CollectionTriples[2 * k - 1] =
                    <<BNode(latest_BN_label + k - 1), rest,
                      IF k = 1 THEN nil ELSE BNode(latest_BN_label + k - 2)>>
               /\ CollectionTriples[2 * k] =
                    <<BNode(latest_BN_label + k - 1), first, bnpl_collection_list[n + 1 - k]>>
    <2>1. 2 * k - 1 \in 1 .. 2 * n /\ 2 * k \in 1 .. 2 * n
      BY <1>1
    <2>2. /\ (2 * k - 1 + 1) \div 2 = k /\ (2 * k - 1) % 2 = 1
          /\ (2 * k + 1) \div 2 = k /\ (2 * k) % 2 = 0
      BY <1>1, Halves
    <2>3. latest_BN_label + (k - 1) - 1 = latest_BN_label + k - 2
      BY <1>1
    <2>4. T(2 * k - 1) = <<BNode(latest_BN_label + k - 1), rest,
                           IF k = 1 THEN nil ELSE BNode(latest_BN_label + k - 2)>>
      BY <2>2, <2>3
    <2>5. T(2 * k) = <<BNode(latest_BN_label + k - 1), first, bnpl_collection_list[n + 1 - k]>>
      BY <2>2
    <2> HIDE DEF T
    <2> QED
      BY <1>4, <2>1, <2>4, <2>5
  <1>7. ASSUME NEW j \in 1 .. 2 * n
        PROVE  \E k \in 1 .. n : j = 2 * k - 1 \/ j = 2 * k
    BY <1>1, Halves
  <1> HIDE DEF T, node
  <1> QED
    BY <1>1, <1>3, <1>5, <1>6, <1>7 DEF n

-----------------------------------------------------------------------------
(* All that State holds is known.                                           *)

KnownInv(shape) ==
  /\ bnpl_collection_list \in Seq(Known)
  /\ bnpl_collection_list_stack \in Seq(Seq(Known))
  /\ verb_stack \in Seq(TermsRead)
  /\ verb_object_pair_list \in Seq(KnownPairs)
  /\ verb_object_pair_list_stack \in Seq(Seq(KnownPairs))
  /\ parsed \in Seq(StatedTriples \cup CollectionNodes)
  /\ shape.held # "none" => element_ \in Known
  /\ shape.held = "term" => element_ \in TermsRead
  /\ shape.seq = 1 => subject_ \in Known
  /\ shape.seq = 2 => first_BNPL \in Known

(* Where element_ comes to hold a term, and where the subject is found.     *)
LEMMA HeldMoves ==
  ASSUME NEW s \in Shapes, NEW t \in Shapes, NEW rule, rule \notin DOMAIN Alternatives,
         Move(rule, s, t)
  PROVE  /\ t.held # "none" => rule \in {"term", "processCollection", "processBlankNodePropertyList"}
         /\ t.held = "term" => rule = "term"
         /\ t.seq = 1 => s.seq = 1 \/ rule = "setSubject"
         /\ t.seq = 2 => s.seq = 2 \/ (rule = "processBlankNodePropertyList"
                                         /\ Tail(s.frames) = Begun)
         /\ rule = "setSubject" => s.held # "none"
PROOF
  <1>1. CASE rule \in {"beginStatement", "clearTripleParameters", "setSubject", "processTripleSeq",
                       "processTripleSeq2"}
    BY <1>1, StatementMoves, ShapeFields DEF Nothing
  <1>2. CASE rule \in {"processVerb", "processPredicateObjectListInner"}
    BY <1>2, VerbMoves, ShapeFields DEF WithVerb
  <1>3. CASE rule = "term"
    BY <1>3, VerbMoves, ShapeFields DEF Holding
  <1>4. CASE rule \in {"pushCurrentTerm", "collectionBegin", "blankNodePropertyListBegin"}
    BY <1>4, ObjectMoves, ShapeFields DEF Holding, Opened
  <1>5. CASE rule = "processCollection"
    BY <1>5, ObjectMoves, ShapeFields
  <1>6. CASE rule = "processBlankNodePropertyList"
    BY <1>6, ObjectMoves, ShapeFields DEF ListClosed
  <1> QED
    BY <1>1, <1>2, <1>3, <1>4, <1>5, <1>6 DEF Move, Alternatives

(* What an action leaves alone stays known.                                 *)
StillKnown(t, rule) ==
  /\ UNCHANGED bnpl_collection_list => bnpl_collection_list' \in Seq(Known')
  /\ UNCHANGED bnpl_collection_list_stack => bnpl_collection_list_stack' \in Seq(Seq(Known'))
  /\ UNCHANGED verb_stack => verb_stack' \in Seq(TermsRead')
  /\ UNCHANGED verb_object_pair_list => verb_object_pair_list' \in Seq(KnownPairs')
  /\ UNCHANGED verb_object_pair_list_stack =>
       verb_object_pair_list_stack' \in Seq(Seq(KnownPairs'))
  /\ UNCHANGED parsed => parsed' \in Seq((StatedTriples \cup CollectionNodes)')
  /\ UNCHANGED subject_ /\ rule # "setSubject" => (t.seq = 1 => subject_' \in Known')
  /\ UNCHANGED first_BNPL /\ rule # "processBlankNodePropertyList" =>
       (t.seq = 2 => first_BNPL' \in Known')
  /\ rule \notin {"term", "processCollection", "processBlankNodePropertyList"} => t.held = "none"
  /\ rule # "term" => t.held # "term"

LEMMA KnownKept ==
  ASSUME TypeInv, TypeInv', terms <= terms', latest_BN_label <= latest_BN_label',
         NEW s \in Shapes, NEW t \in Shapes, KnownInv(s), NEW rule, rule \notin DOMAIN Alternatives,
         Move(rule, s, t)
  PROVE  StillKnown(t, rule)
PROOF
  <1>1. /\ bnpl_collection_list \in Seq(Known') /\ bnpl_collection_list_stack \in Seq(Seq(Known'))
        /\ verb_stack \in Seq(TermsRead') /\ verb_object_pair_list \in Seq(KnownPairs')
        /\ verb_object_pair_list_stack \in Seq(Seq(KnownPairs'))
        /\ parsed \in Seq((StatedTriples \cup CollectionNodes)')
    BY SequencesKept DEF KnownInv
  <1>2. /\ t.seq = 1 => s.seq = 1 \/ rule = "setSubject"
        /\ t.seq = 2 => s.seq = 2 \/ rule = "processBlankNodePropertyList"
        /\ t.held # "none" => rule \in {"term", "processCollection", "processBlankNodePropertyList"}
        /\ t.held = "term" => rule = "term"
    BY HeldMoves
  <1>3. /\ s.seq = 1 => subject_ \in Known'
        /\ s.seq = 2 => first_BNPL \in Known'
    BY KnownGrows DEF KnownInv
  <1> QED
    BY <1>1, <1>2, <1>3 DEF StillKnown

LEMMA KnownPlainStep ==
  ASSUME TypeInv, TypeInv', NEW s \in Shapes, NEW t \in Shapes, KnownInv(s),
         NEW rule, Matched(rule), Move(rule, s, t), rule \notin DOMAIN Alternatives,
         ReadTerm \/ BeginStatement \/ setSubject \/ pushCurrentTermIntoBnpl_collection_list
           \/ clearTripleParameters
  PROVE  KnownInv(t)'
PROOF
  <1>1. CASE ReadTerm
    <2>1. /\ terms' = terms + 1 /\ element_' = Term(terms + 1)
          /\ UNCHANGED <<latest_BN_label, subject_, verb_stack, bnpl_collection_list,
                        bnpl_collection_list_stack, verb_object_pair_list,
                        verb_object_pair_list_stack, first_BNPL, parsed>>
          /\ rule = "term" /\ terms \in Nat /\ latest_BN_label \in Nat
      BY <1>1 DEF ReadTerm, Matched, verbVars, listVars, pairVars, TypeInv
    <2>2. element_' \in TermsRead' /\ element_' \in Known'
      BY <2>1 DEF TermsRead, Known
    <2>3. terms <= terms' /\ latest_BN_label <= latest_BN_label'
      BY <2>1
    <2>4. StillKnown(t, rule)
      BY <2>3, KnownKept
    <2> QED
      BY <2>1, <2>2, <2>4 DEF KnownInv, StillKnown
  <1>2. CASE ~ReadTerm
    <2>1. UNCHANGED <<terms, latest_BN_label, element_, verb_stack, bnpl_collection_list_stack,
                      verb_object_pair_list_stack, first_BNPL, parsed>>
          /\ rule # "term" /\ rule # "processCollection" /\ rule # "processBlankNodePropertyList"
          /\ terms \in Nat /\ latest_BN_label \in Nat
      BY <1>2 DEF BeginStatement, setSubject, pushCurrentTermIntoBnpl_collection_list,
                  clearTripleParameters, Matched, docVars, verbVars, listVars, pairVars, TypeInv
    <2>2. terms <= terms' /\ latest_BN_label <= latest_BN_label'
      BY <2>1
    <2>3. \/ UNCHANGED bnpl_collection_list
          \/ bnpl_collection_list' = <<>>
          \/ rule = "pushCurrentTerm" /\ bnpl_collection_list' = Append(bnpl_collection_list, element_)
      BY <1>2 DEF BeginStatement, setSubject, pushCurrentTermIntoBnpl_collection_list,
                  clearTripleParameters, Matched, listVars
    <2>4. verb_object_pair_list' = verb_object_pair_list \/ verb_object_pair_list' = <<>>
      BY <1>2 DEF BeginStatement, setSubject, pushCurrentTermIntoBnpl_collection_list,
                  clearTripleParameters, pairVars
    <2>5. subject_' = IF rule = "setSubject" THEN element_ ELSE subject_
      BY <1>2 DEF BeginStatement, setSubject, pushCurrentTermIntoBnpl_collection_list,
                  clearTripleParameters, Matched
    <2>6. StillKnown(t, rule)
      BY <2>2, KnownKept
    <2>7. rule \in {"setSubject", "pushCurrentTerm"} => element_ \in Known'
      <3>1. rule \in {"setSubject", "pushCurrentTerm"} => s.held # "none"
        BY HeldMoves, ObjectMoves
      <3> QED
        BY <2>2, <3>1, KnownGrows DEF KnownInv
    <2>8. bnpl_collection_list' \in Seq(Known')
      <3>1. bnpl_collection_list \in Seq(Known')
        BY <2>2, SequencesKept DEF KnownInv
      <3>2. <<>> \in Seq(Known')
        OBVIOUS
      <3>3. rule = "pushCurrentTerm" => Append(bnpl_collection_list, element_) \in Seq(Known')
        BY <2>7, <3>1
      <3> QED
        BY <2>3, <3>1, <3>2, <3>3
    <2>9. verb_object_pair_list' \in Seq(KnownPairs')
      <3>1. <<>> \in Seq(KnownPairs')
        OBVIOUS
      <3> QED
        BY <2>4, <2>6, <3>1 DEF StillKnown
    <2>10. t.seq = 1 => subject_' \in Known'
      <3>1. CASE subject_' = subject_ /\ rule # "setSubject"
        BY <2>6, <3>1 DEF StillKnown
      <3>2. CASE rule = "setSubject"
        <4>1. subject_' = element_
          BY <2>5, <3>2
        <4> QED
          BY <2>7, <3>2, <4>1
      <3> QED
        BY <2>5, <3>1, <3>2
    <2> QED
      BY <2>1, <2>6, <2>8, <2>9, <2>10 DEF KnownInv, StillKnown
  <1> QED
    BY <1>1, <1>2

LEMMA KnownVerbStep ==
  ASSUME TypeInv, TypeInv', NEW s \in Shapes, NEW t \in Shapes, Fits(s), KnownInv(s),
         NEW rule, Matched(rule), Move(rule, s, t), rule \notin DOMAIN Alternatives,
         processVerb \/ moveBnpl_collection_listIntoStack \/ processPredicateObjectListInner
  PROVE  KnownInv(t)'
PROOF
  <1>1. /\ UNCHANGED <<terms, latest_BN_label, element_, subject_, first_BNPL, parsed>>
        /\ rule \notin {"term", "setSubject", "processCollection", "processBlankNodePropertyList"}
        /\ terms <= terms' /\ latest_BN_label <= latest_BN_label'
    <2>1. UNCHANGED <<terms, latest_BN_label, element_, subject_, first_BNPL, parsed>>
      BY DEF processVerb, moveBnpl_collection_listIntoStack, processPredicateObjectListInner, docVars
    <2>2. rule \notin {"term", "setSubject", "processCollection", "processBlankNodePropertyList"}
      BY DEF processVerb, moveBnpl_collection_listIntoStack, processPredicateObjectListInner, Matched
    <2>3. terms <= terms' /\ latest_BN_label <= latest_BN_label'
      BY <2>1 DEF TypeInv
    <2> QED
      BY <2>1, <2>2, <2>3
  <1>2. StillKnown(t, rule)
    BY <1>1, KnownKept
  <1>3. /\ bnpl_collection_list \in Seq(Known') /\ bnpl_collection_list_stack \in Seq(Seq(Known'))
        /\ verb_stack \in Seq(TermsRead') /\ verb_object_pair_list \in Seq(KnownPairs')
        /\ verb_object_pair_list_stack \in Seq(Seq(KnownPairs'))
        /\ <<>> \in Seq(Known') /\ <<>> \in Seq(KnownPairs')
    BY <1>1, SequencesKept DEF KnownInv
  <1>4. CASE processVerb
    <2>1. /\ verb_stack' = Pushed(element_, verb_stack) /\ UNCHANGED listVars
          /\ \/ UNCHANGED pairVars
             \/ /\ verb_object_pair_list_stack' =
                       Pushed(verb_object_pair_list, verb_object_pair_list_stack)
                /\ verb_object_pair_list' = <<>>
          /\ rule = "processVerb"
      BY <1>4 DEF processVerb, Matched
    <2>2. element_ \in TermsRead'
      BY <1>1, <2>1, VerbMoves, KnownGrows DEF KnownInv
    <2>3. verb_stack' \in Seq(TermsRead')
      BY <1>3, <2>1, <2>2, PushedOnto
    <2>4. verb_object_pair_list' \in Seq(KnownPairs')
          /\ verb_object_pair_list_stack' \in Seq(Seq(KnownPairs'))
      <3>1. Pushed(verb_object_pair_list, verb_object_pair_list_stack) \in Seq(Seq(KnownPairs'))
        BY <1>3, PushedOnto
      <3> QED
        BY <1>2, <1>3, <2>1, <3>1 DEF StillKnown, pairVars
    <2> QED
      BY <1>1, <1>2, <2>1, <2>3, <2>4 DEF KnownInv, StillKnown, listVars
  <1>5. CASE moveBnpl_collection_listIntoStack
    <2>1. /\ bnpl_collection_list_stack' = Pushed(bnpl_collection_list, bnpl_collection_list_stack)
          /\ bnpl_collection_list' = <<>> /\ UNCHANGED <<verbVars, pairVars>>
      BY <1>5 DEF moveBnpl_collection_listIntoStack
    <2>2. bnpl_collection_list_stack' \in Seq(Seq(Known'))
      BY <1>3, <2>1, PushedOnto
    <2> QED
      BY <1>1, <1>2, <1>3, <2>1, <2>2 DEF KnownInv, StillKnown, verbVars, pairVars
  <1>6. CASE processPredicateObjectListInner
    <2> DEFINE l == bnpl_collection_list
               v == Head(verb_stack)
               added == [i \in 1 .. Len(l) |-> <<v, l[i]>>]
    <2>1. /\ verb_stack' = Tail(verb_stack) /\ verb_object_pair_list' = verb_object_pair_list \o added
          /\ bnpl_collection_list' = <<>>
          /\ UNCHANGED <<bnpl_collection_list_stack, verb_object_pair_list_stack>>
          /\ rule = "processPredicateObjectListInner"
      BY <1>6 DEF processPredicateObjectListInner, Matched
    <2>2. verb_stack # <<>>
      <3>1. Len(verb_stack) > 0
        BY <2>1, VerbMoves, ShutSizes DEF Fits
      <3>2. Len(<<>>) = 0
        OBVIOUS
      <3> QED
        BY <3>1, <3>2
    <2>3. v \in TermsRead' /\ verb_stack' \in Seq(TermsRead')
      BY <1>3, <2>1, <2>2
    <2> HIDE DEF v
    <2>4. added \in Seq(KnownPairs')
      <3>1. ASSUME NEW i \in 1 .. Len(l)
            PROVE  <<v, l[i]>> \in KnownPairs'
        BY <1>3, <2>3 DEF KnownPairs
      <3>2. Len(l) \in Nat
        BY <1>3
      <3> QED
        BY <3>1, <3>2
    <2> HIDE DEF added
    <2>5. verb_object_pair_list' \in Seq(KnownPairs')
      BY <1>3, <2>1, <2>4, ConcatProperties
    <2> QED
      BY <1>1, <1>2, <1>3, <2>1, <2>3, <2>5 DEF KnownInv, StillKnown
  <1> QED
    BY <1>4, <1>5, <1>6

(* A bracket that is closed has a frame around it.                          *)
LEMMA ClosingFacts ==
  ASSUME TypeInv, NEW s \in Shapes, NEW t \in Shapes, Fits(s),
         NEW rule \in {"processCollection", "processBlankNodePropertyList"}, Move(rule, s, t)
  PROVE  /\ Len(s.frames) \in Nat /\ Len(s.frames) > 1 /\ s.frames # <<>>
         /\ Tail(s.frames) \in Seq(Frames) /\ Tail(s.frames) # <<>> /\ WellFormed(Tail(s.frames))
         /\ Head(Tail(s.frames)).kind \in {"open", "collection", "begun"}
         /\ bnpl_collection_list_stack # <<>>
         /\ rule = "processCollection" => /\ Head(s.frames).kind = "collection"
                                          /\ t = Shape(Tail(s.frames), "any", s.seq)
         /\ rule = "processBlankNodePropertyList" => /\ Head(s.frames).kind = "shut"
                                                     /\ t = ListClosed(Tail(s.frames), s.seq)
PROOF
  <1> DEFINE u == Shape(Tail(s.frames), "any", s.seq)
  <1>1. /\ rule = "processCollection" =>
             InnerIs(s, {"collection"}) /\ t = Shape(Tail(s.frames), "any", s.seq)
        /\ rule = "processBlankNodePropertyList" =>
             /\ InnerIs(s, {"shut"}) /\ Len(s.frames) > 1
             /\ t = ListClosed(Tail(s.frames), s.seq)
    BY ObjectMoves
  <1>2. WellFormed(s.frames) /\ s.frames \in Seq(Frames) /\ s.frames # <<>>
    BY <1>1, ShapeFields DEF Fits, InnerIs
  <1>3. /\ Len(u.frames) = Len(s.frames) - 1 /\ u.frames # <<>>
        /\ InnerIs(u, {"open", "collection", "begun"})
    BY <1>1, <1>2, ClosedSizes
  <1>4. u.frames = Tail(s.frames)
    BY ShapeFields
  <1>5. /\ Tail(s.frames) \in Seq(Frames) /\ Tail(s.frames) # <<>>
        /\ Head(Tail(s.frames)).kind \in {"open", "collection", "begun"}
        /\ Len(s.frames) \in Nat /\ Len(s.frames) = Len(Tail(s.frames)) + 1
    <2>1. /\ Tail(s.frames) \in Seq(Frames) /\ Len(s.frames) \in Nat
          /\ Len(Tail(s.frames)) = Len(s.frames) - 1
      BY <1>2, AtTail
    <2>2. Len(s.frames) = Len(Tail(s.frames)) + 1
      BY <2>1
    <2> HIDE DEF u
    <2> QED
      BY <1>3, <1>4, <2>1, <2>2 DEF InnerIs
  <1>6. WellFormed(Tail(s.frames))
    BY <1>2, WellFormedTop
  <1>7. Len(s.frames) > 1
    <2>1. Len(Tail(s.frames)) > 0
      BY <1>5
    <2> QED
      BY <1>5, <2>1
  <1>8. bnpl_collection_list_stack # <<>>
    <2>1. Len(bnpl_collection_list_stack) > 0
      BY <1>5, <1>7, BeforeInner DEF Fits
    <2>2. Len(<<>>) = 0
      OBVIOUS
    <2> QED
      BY <2>1, <2>2
  <1>9. InnerIs(s, {"collection"}) => Head(s.frames).kind = "collection"
    BY DEF InnerIs
  <1>10. InnerIs(s, {"shut"}) => Head(s.frames).kind = "shut"
    BY DEF InnerIs
  <1> HIDE DEF u
  <1> QED
    BY <1>1, <1>2, <1>5, <1>6, <1>7, <1>8, <1>9, <1>10

(* The triples of a collection describe new nodes, each in its own way.      *)
LEMMA CollectionTriplesNew ==
  ASSUME TypeInv, TypeInv', bnpl_collection_list \in Seq(Known), processCollection
  PROVE  /\ CollectionTriples \in Seq(CollectionNodes')
         /\ \A i \in 1 .. Len(CollectionTriples) : CollectionTriples[i][1] \notin Known
         /\ \A i, j \in 1 .. Len(CollectionTriples) :
              CollectionTriples[i] = CollectionTriples[j] => i = j
PROOF
  <1> DEFINE l == bnpl_collection_list
             n == Len(l)
             new == CollectionTriples
             T == CollectionNodes'
  <1>1. /\ latest_BN_label' = latest_BN_label + (IF l = <<>> THEN 1 ELSE n)
        /\ terms' = terms
    BY DEF processCollection, docVars
  <1>2. latest_BN_label \in Nat /\ latest_BN_label' \in Nat /\ n \in Nat
    BY DEF TypeInv
  <1>3. \A i \in Nat : i < latest_BN_label' => BNode(i) \in NodesMade'
    BY <1>2 DEF NodesMade
  <1>4. \A k \in Nat : BNode(latest_BN_label + k) \notin Known
    BY KnownFacts
  <1>5. CASE l = <<>>
    <2>1. latest_BN_label + 1 - 1 = latest_BN_label /\ latest_BN_label + 0 = latest_BN_label
          /\ latest_BN_label < latest_BN_label'
      BY <1>1, <1>2, <1>5
    <2>2. new = <<<<BNode(latest_BN_label), first, nil>>>>
      BY <1>5, <2>1 DEF CollectionTriples, ItemNode
    <2>3. BNode(latest_BN_label) \in NodesMade' /\ BNode(latest_BN_label) \notin Known
      BY <1>2, <1>3, <1>4, <2>1
    <2>4. <<BNode(latest_BN_label), first, nil>> \in T
      BY <2>3 DEF CollectionNodes
    <2> HIDE DEF T
    <2>5. new \in Seq(T) /\ Len(new) = 1 /\ new[1] = <<BNode(latest_BN_label), first, nil>>
      BY <2>2, <2>4
    <2> HIDE DEF new
    <2>6. \A i \in 1 .. Len(new) : i = 1
      BY <2>5
    <2>7. \A i \in 1 .. Len(new) : new[i][1] \notin Known
      BY <2>3, <2>5, <2>6
    <2> QED
      BY <2>5, <2>6, <2>7 DEF new, T
  <1>6. CASE l # <<>>
    <2>1. /\ n \in Nat \ {0} /\ Len(new) = 2 * n
          /\ new = [j \in 1 .. 2 * n |-> new[j]]
          /\ \A j \in 1 .. 2 * n : \E k \in 1 .. n : j = 2 * k - 1 \/ j = 2 * k
          /\ latest_BN_label' = latest_BN_label + n
      BY <1>1, <1>6, CollectionTriplesFacts
    <2> DEFINE node(k) == BNode(latest_BN_label + k - 1)
    <2>2. ASSUME NEW k \in 1 .. n
          PROVE  /\ new[2 * k - 1] \in T /\ new[2 * k] \in T
                 /\ node(k) \notin Known
                 /\ new[2 * k - 1][1] = node(k) /\ new[2 * k - 1][2] = rest
                 /\ new[2 * k][1] = node(k) /\ new[2 * k][2] = first
      <3>1. /\ new[2 * k - 1] = <<node(k), rest,
                                  IF k = 1 THEN nil ELSE BNode(latest_BN_label + k - 2)>>
            /\ new[2 * k] = <<node(k), first, l[n + 1 - k]>>
        BY <1>6, CollectionTriplesFacts
      <3>2. /\ latest_BN_label + k - 1 \in Nat /\ latest_BN_label + k - 1 < latest_BN_label'
            /\ k # 1 => latest_BN_label + k - 2 \in Nat /\ latest_BN_label + k - 2 < latest_BN_label'
            /\ n + 1 - k \in 1 .. n
        <4>1. n \in Nat \ {0} /\ k \in 1 .. n /\ latest_BN_label' = latest_BN_label + n
          BY <2>1
        <4> HIDE DEF new, n, l, T
        <4> QED
          BY <1>2, <4>1
      <3>3. l[n + 1 - k] \in Known'
        <4>1. terms <= terms' /\ latest_BN_label <= latest_BN_label'
          <5>1. terms' = terms /\ terms \in Nat
            BY <1>1 DEF TypeInv
          <5> HIDE DEF n, l, new, T
          <5> QED
            BY <1>2, <2>1, <5>1
        <4>2. l \in Seq(Known')
          BY <4>1, SequencesKept
        <4> QED
          BY <3>2, <4>2
      <3>4. node(k) \in NodesMade' /\ (k # 1 => BNode(latest_BN_label + k - 2) \in NodesMade')
        BY <1>3, <3>2
      <3>5. node(k) \notin Known
        <4>1. k - 1 \in Nat /\ latest_BN_label + (k - 1) = latest_BN_label + k - 1
          BY <1>2
        <4> QED
          BY <1>4, <4>1
      <3> HIDE DEF new, n, node
      <3>6. new[2 * k - 1] \in T /\ new[2 * k] \in T
        BY <3>1, <3>3, <3>4 DEF CollectionNodes, Known
      <3> QED
        BY <3>1, <3>5, <3>6
    <2>3. \A j, k \in 1 .. n : node(j) = node(k) => j = k
      <3>1. \A j, k \in 1 .. n : latest_BN_label + j - 1 = latest_BN_label + k - 1 => j = k
        BY <1>2
      <3> QED
        BY <3>1, ValueFacts
    <2> HIDE DEF T, new, n, node
    <2>4. ASSUME NEW j \in 1 .. 2 * n
          PROVE  new[j] \in T /\ new[j][1] \notin Known
      <3>1. PICK k \in 1 .. n : j = 2 * k - 1 \/ j = 2 * k
        BY <2>1
      <3>2. /\ new[2 * k - 1] \in T /\ new[2 * k] \in T /\ node(k) \notin Known
            /\ new[2 * k - 1][1] = node(k) /\ new[2 * k][1] = node(k)
        BY <2>2
      <3> QED
        BY <3>1, <3>2
    <2>5. new \in Seq(T)
      <3> DEFINE m == 2 * n
      <3>1. m \in Nat
        BY <2>1
      <3> HIDE DEF m
      <3>2. [j \in 1 .. m |-> new[j]] \in Seq(T)
        BY <2>4, <3>1 DEF m
      <3> QED
        BY <2>1, <3>2 DEF m
    <2>6. \A i, j \in 1 .. Len(new) : new[i] = new[j] => i = j
      <3>1. SUFFICES ASSUME NEW i \in 1 .. 2 * n, NEW j \in 1 .. 2 * n, new[i] = new[j]
                     PROVE  i = j
        BY <2>1
      <3>2. PICK k \in 1 .. n : i = 2 * k - 1 \/ i = 2 * k
        BY <2>1
      <3>3. PICK r \in 1 .. n : j = 2 * r - 1 \/ j = 2 * r
        BY <2>1
      <3>4. k = r
        <4>1. new[i][1] = node(k)
          BY <2>2, <3>2
        <4>2. new[j][1] = node(r)
          BY <2>2, <3>3
        <4> QED
          BY <2>3, <3>1, <4>1, <4>2
      <3>5. /\ i = 2 * k - 1 => new[i][2] = rest /\ new[i][2] # first
            /\ i = 2 * k => new[i][2] = first
            /\ j = 2 * k - 1 => new[j][2] = rest /\ new[j][2] # first
            /\ j = 2 * k => new[j][2] = first
        BY <2>2, <3>4, ValueFacts
      <3> QED
        BY <3>1, <3>2, <3>3, <3>4, <3>5
    <2> QED
      BY <2>1, <2>4, <2>5, <2>6 DEF new, T
  <1> QED
    BY <1>5, <1>6

LEMMA KnownCollectionStep ==
  ASSUME TypeInv, TypeInv', NEW s \in Shapes, NEW t \in Shapes, Fits(s), KnownInv(s),
         Move("processCollection", s, t), processCollection
  PROVE  KnownInv(t)'
PROOF
  <1> DEFINE l == bnpl_collection_list
             new == CollectionTriples
             T == (StatedTriples \cup CollectionNodes)'
  <1>1. /\ latest_BN_label' = latest_BN_label + (IF l = <<>> THEN 1 ELSE Len(l))
        /\ element_' = BNode(latest_BN_label' - 1) /\ parsed' = parsed \o new
        /\ bnpl_collection_list' = Head(bnpl_collection_list_stack)
        /\ bnpl_collection_list_stack' = Tail(bnpl_collection_list_stack)
        /\ UNCHANGED <<terms, subject_, verb_stack, verb_object_pair_list,
                      verb_object_pair_list_stack, first_BNPL>>
    BY DEF processCollection, RestoreList, docVars, verbVars, pairVars
  <1>2. /\ latest_BN_label \in Nat /\ Len(l) \in Nat /\ latest_BN_label' > latest_BN_label
        /\ latest_BN_label' \in Nat
    <2>1. latest_BN_label \in Nat /\ Len(l) \in Nat /\ latest_BN_label' \in Nat
      BY DEF TypeInv
    <2>2. l # <<>> => Len(l) > 0
      BY DEF TypeInv
    <2> QED
      BY <1>1, <2>1, <2>2
  <1>3. terms <= terms' /\ latest_BN_label <= latest_BN_label'
    BY <1>1, <1>2 DEF TypeInv
  <1>4. StillKnown(t, "processCollection")
    BY <1>3, KnownKept DEF Alternatives
  <1>5. \A i \in Nat : i < latest_BN_label' => BNode(i) \in NodesMade'
    BY <1>2 DEF NodesMade
  <1>6. element_' \in Known'
    <2>1. \A m, n \in Nat : n > m => n - 1 \in Nat /\ n - 1 < n
      OBVIOUS
    <2>2. latest_BN_label' - 1 \in Nat /\ latest_BN_label' - 1 < latest_BN_label'
      BY <1>2, <2>1
    <2> QED
      BY <1>1, <1>5, <2>2 DEF Known
  <1>7. bnpl_collection_list' \in Seq(Known') /\ bnpl_collection_list_stack' \in Seq(Seq(Known'))
    <2>1. bnpl_collection_list_stack \in Seq(Seq(Known')) /\ bnpl_collection_list_stack # <<>>
      BY <1>3, SequencesKept, ClosingFacts DEF KnownInv
    <2> QED
      BY <1>1, <2>1, AtTail
  <1>8. new \in Seq(T)
    <2>1. new \in Seq(CollectionNodes') /\ CollectionNodes' \subseteq T
      BY CollectionTriplesNew DEF KnownInv
    <2> HIDE DEF new, T
    <2> QED
      BY <2>1, SequencesGrow
  <1>9. parsed' \in Seq(T)
    <2>1. parsed \in Seq(T)
      BY <1>3, SequencesKept DEF KnownInv
    <2> HIDE DEF T, new
    <2> QED
      BY <1>1, <1>8, <2>1, ConcatProperties
  <1> HIDE DEF new
  <1> QED
    BY <1>1, <1>4, <1>6, <1>7, <1>9 DEF KnownInv, StillKnown

LEMMA KnownListStep ==
  ASSUME TypeInv, TypeInv', NEW s \in Shapes, NEW t \in Shapes, Fits(s), KnownInv(s),
         Move("processBlankNodePropertyList", s, t), processBlankNodePropertyList
  PROVE  KnownInv(t)'
PROOF
  <1> DEFINE node == BNode(latest_BN_label)
             new == Triples(node)
             T == (StatedTriples \cup CollectionNodes)'
             pairs == verb_object_pair_list
             stack == verb_object_pair_list_stack
  <1>1. /\ latest_BN_label' = latest_BN_label + 1 /\ element_' = node /\ parsed' = parsed \o new
        /\ bnpl_collection_list' = Head(bnpl_collection_list_stack)
        /\ bnpl_collection_list_stack' = Tail(bnpl_collection_list_stack)
        /\ IF stack # <<>>
             THEN pairs' = Head(stack) /\ stack' = Tail(stack) /\ UNCHANGED first_BNPL
             ELSE pairs' = <<>> /\ first_BNPL' = node /\ UNCHANGED stack
        /\ UNCHANGED <<terms, subject_, verb_stack>>
    BY DEF processBlankNodePropertyList, RestoreList, docVars, verbVars
  <1>2. terms <= terms' /\ latest_BN_label <= latest_BN_label' /\ node \in Known'
    <2>1. terms <= terms' /\ latest_BN_label <= latest_BN_label'
          /\ latest_BN_label \in Nat /\ latest_BN_label < latest_BN_label'
      BY <1>1 DEF TypeInv
    <2>2. \A i \in Nat : i < latest_BN_label' => BNode(i) \in Known'
      BY NodesKnown
    <2> QED
      BY <2>1, <2>2
  <1>3. StillKnown(t, "processBlankNodePropertyList")
    BY <1>2, KnownKept DEF Alternatives
  <1>4. bnpl_collection_list' \in Seq(Known') /\ bnpl_collection_list_stack' \in Seq(Seq(Known'))
    <2>1. bnpl_collection_list_stack \in Seq(Seq(Known')) /\ bnpl_collection_list_stack # <<>>
      BY <1>2, SequencesKept, ClosingFacts DEF KnownInv
    <2> QED
      BY <1>1, <2>1, AtTail
  <1>5. pairs' \in Seq(KnownPairs') /\ stack' \in Seq(Seq(KnownPairs'))
    <2>1. stack \in Seq(Seq(KnownPairs')) /\ <<>> \in Seq(KnownPairs')
      BY <1>2, SequencesKept DEF KnownInv
    <2>2. CASE stack # <<>>
      <3>1. pairs' = Head(stack) /\ stack' = Tail(stack)
        BY <1>1, <2>2
      <3>2. Head(stack) \in Seq(KnownPairs') /\ Tail(stack) \in Seq(Seq(KnownPairs'))
        <4> HIDE DEF stack
        <4> QED
          BY <2>1, <2>2, AtTail
      <3> QED
        BY <3>1, <3>2
    <2>3. CASE stack = <<>>
      BY <1>1, <2>1, <2>3
    <2> QED
      BY <2>2, <2>3
  <1>6. parsed' \in Seq(T)
    <2>1. parsed \in Seq(T) /\ pairs \in Seq(KnownPairs')
      BY <1>2, SequencesKept DEF KnownInv
    <2>2. \A pair \in KnownPairs' : <<node, pair[1], pair[2]>> \in T
      BY <1>2 DEF KnownPairs, StatedTriples
    <2> HIDE DEF T, node
    <2>3. new \in Seq(T)
      BY <2>1, <2>2, TriplesFacts
    <2> HIDE DEF new
    <2> QED
      BY <1>1, <2>1, <2>3, ConcatProperties
  <1>7. t.seq = 2 => first_BNPL' \in Known'
    <2>1. CASE stack = <<>>
      BY <1>1, <1>2, <2>1
    <2>2. CASE stack # <<>>
      <3>1. Tail(s.frames) # Begun
        <4>1. SUFFICES ASSUME Tail(s.frames) = Begun
                       PROVE  stack = <<>>
          BY <2>2
        <4>2. WellFormed(s.frames) /\ s.frames \in Seq(Frames) /\ s.frames # <<>>
              /\ Head(s.frames).kind = "shut"
          BY ClosingFacts, ShapeFields DEF Fits
        <4>3. Depth(s) = 1
          <5>1. FitsOn(Head(s.frames), Begun)
            BY <4>1, <4>2, WellFormedTop
          <5>2. InnerDepth(Begun) = 0
            BY StatementFrames DEF InnerDepth
          <5> QED
            BY <4>2, <5>1, <5>2 DEF FitsOn, DepthOver, Verbal, Depth, InnerDepth
        <4>4. Before(1) = 0
          BY DEF Before
        <4>5. Len(stack) <= 0 /\ Len(stack) \in Nat
          BY <4>3, <4>4 DEF Fits, TypeInv
        <4> QED
          BY <4>5 DEF TypeInv
      <3>2. t.seq = 2 => s.seq = 2
        BY <3>1, HeldMoves DEF Alternatives
      <3> QED
        BY <1>1, <1>2, <2>2, <3>2, KnownGrows DEF KnownInv
    <2> QED
      BY <2>1, <2>2
  <1> HIDE DEF new
  <1> QED
    BY <1>1, <1>2, <1>3, <1>4, <1>5, <1>6, <1>7 DEF KnownInv, StillKnown

LEMMA KnownStatementStep ==
  ASSUME TypeInv, TypeInv', NEW s \in Shapes, NEW t \in Shapes, Fits(s), KnownInv(s),
         NEW rule, Matched(rule), Move(rule, s, t), rule \notin DOMAIN Alternatives,
         processTripleSeq
  PROVE  KnownInv(t)'
PROOF
  <1> DEFINE T == (StatedTriples \cup CollectionNodes)'
  <1>1. /\ \/ rule = "processTripleSeq" /\ UNCHANGED subject_
           \/ rule = "processTripleSeq2" /\ subject_' = first_BNPL
        /\ parsed' = parsed \o Triples(subject_')
        /\ UNCHANGED <<terms, latest_BN_label, verb_stack, bnpl_collection_list,
                      bnpl_collection_list_stack, verb_object_pair_list,
                      verb_object_pair_list_stack, first_BNPL>>
    BY DEF processTripleSeq, Matched, docVars, verbVars, listVars, pairVars
  <1>2. terms <= terms' /\ latest_BN_label <= latest_BN_label'
    BY <1>1 DEF TypeInv
  <1>3. StillKnown(t, rule)
    BY <1>2, KnownKept
  <1>4. subject_' \in Known' /\ t.seq = 0
    <2>1. /\ rule = "processTripleSeq" => s.seq = 1
          /\ rule = "processTripleSeq2" => s.seq = 2
          /\ t.seq = 0
      BY <1>1, StatementMoves, ShapeFields
    <2> QED
      BY <1>1, <1>2, <2>1, KnownGrows DEF KnownInv
  <1>5. parsed' \in Seq(T)
    <2> DEFINE x == subject_'
    <2>1. parsed \in Seq(T) /\ verb_object_pair_list \in Seq(KnownPairs')
      BY <1>2, SequencesKept DEF KnownInv
    <2>2. \A pair \in KnownPairs' : <<x, pair[1], pair[2]>> \in T
      BY <1>4 DEF KnownPairs, StatedTriples
    <2> HIDE DEF T
    <2>3. Triples(x) \in Seq(T)
      <3> HIDE DEF x
      <3> QED
        BY <2>1, <2>2, TriplesFacts
    <2> QED
      BY <1>1, <2>1, <2>3, ConcatProperties
  <1> QED
    BY <1>1, <1>3, <1>4, <1>5 DEF KnownInv, StillKnown

LEMMA KnownStep ==
  ASSUME TypeInv, TypeInv', NEW s \in Shapes, NEW t \in Shapes, Fits(s), KnownInv(s),
         NEW rule, Matched(rule), Move(rule, s, t), rule \notin DOMAIN Alternatives, Next, ~MatchRule
  PROVE  KnownInv(t)'
PROOF
  <1>1. rules # <<>>
    BY DEF Matched
  <1>2. processCollection => rule = "processCollection"
    BY DEF processCollection, Matched
  <1>3. processBlankNodePropertyList => rule = "processBlankNodePropertyList"
    BY DEF processBlankNodePropertyList, Matched
  <1> QED
    BY <1>1, <1>2, <1>3, KnownPlainStep, KnownVerbStep, KnownCollectionStep, KnownListStep,
       KnownStatementStep DEF Next, Done

-----------------------------------------------------------------------------
(* Each object that has been read lies in one place: in a list, in a list   *)
(* of pairs, in a triple, or it is free, being held or not there yet.  A     *)
(* place is the number of the list on its stack and the place in the list.   *)

Lists == Pushed(bnpl_collection_list, bnpl_collection_list_stack)

PairLists == Pushed(verb_object_pair_list, verb_object_pair_list_stack)

Place(kind, height, index) == [kind |-> kind, height |-> height, index |-> index]

Free == Place("free", 0, 0)

Object(kind, entry) == IF kind = "pair" THEN entry[2] ELSE entry

InPlaces(O, kind, stack) ==
  \A i \in 1 .. Len(stack) : \A j \in 1 .. Len(At(stack, i)) :
    O[Object(kind, At(stack, i)[j])] = Place(kind, i, j)

LEMMA PlaceFields ==
  \A kind, height, index : /\ Place(kind, height, index).kind = kind
                           /\ Place(kind, height, index).height = height
                           /\ Place(kind, height, index).index = index
PROOF
  BY DEF Place

LEMMA InPlacesPushed ==
  ASSUME NEW S, NEW stack \in Seq(S), NEW list \in S, NEW O, NEW kind
  PROVE  InPlaces(O, kind, Pushed(list, stack)) <=>
           /\ InPlaces(O, kind, stack)
           /\ \A j \in 1 .. Len(list) : O[Object(kind, list[j])] = Place(kind, Len(stack) + 1, j)
PROOF
  <1> DEFINE n == Len(stack)
             all == Pushed(list, stack)
  <1>1. n \in Nat /\ Len(all) = n + 1
    BY PushedOnto
  <1>2. At(all, n + 1) = list /\ \A i \in 1 .. n : At(all, i) = At(stack, i)
    BY AtPushed
  <1> HIDE DEF n, all
  <1>3. \A i \in 1 .. n + 1 : i = n + 1 \/ i \in 1 .. n
    BY <1>1
  <1>4. n + 1 \in 1 .. n + 1 /\ \A i \in 1 .. n : i \in 1 .. n + 1
    BY <1>1
  <1>5. ASSUME InPlaces(O, kind, all)
        PROVE  /\ InPlaces(O, kind, stack)
               /\ \A j \in 1 .. Len(list) : O[Object(kind, list[j])] = Place(kind, n + 1, j)
    BY <1>1, <1>2, <1>4, <1>5 DEF InPlaces, n
  <1>6. ASSUME InPlaces(O, kind, stack),
               \A j \in 1 .. Len(list) : O[Object(kind, list[j])] = Place(kind, n + 1, j)
        PROVE  InPlaces(O, kind, all)
    BY <1>1, <1>2, <1>3, <1>6 DEF InPlaces, n
  <1> QED
    BY <1>5, <1>6 DEF n, all

LEMMA InPlacesKept ==
  ASSUME NEW S, NEW V, NEW stack \in Seq(Seq(S)), NEW kind, \A entry \in S : Object(kind, entry) \in V,
         NEW O, InPlaces(O, kind, stack), NEW Q,
         \A x \in V : O[x].kind = kind /\ O[x].height \in 1 .. Len(stack) => Q[x] = O[x]
  PROVE  InPlaces(Q, kind, stack)
PROOF
  <1>1. SUFFICES ASSUME NEW i \in 1 .. Len(stack), NEW j \in 1 .. Len(At(stack, i))
                 PROVE  Q[Object(kind, At(stack, i)[j])] = Place(kind, i, j)
    BY DEF InPlaces
  <1>2. At(stack, i) \in Seq(S)
    <2>1. Len(stack) + 1 - i \in 1 .. Len(stack)
      OBVIOUS
    <2> QED
      BY <2>1 DEF At
  <1> DEFINE x == Object(kind, At(stack, i)[j])
  <1>3. x \in V
    BY <1>2
  <1>4. O[x] = Place(kind, i, j)
    BY DEF InPlaces
  <1> HIDE DEF x
  <1>5. O[x].kind = kind /\ O[x].height \in 1 .. Len(stack)
    BY <1>4, PlaceFields
  <1>6. Q[x] = Place(kind, i, j)
    BY <1>3, <1>4, <1>5
  <1> QED
    BY <1>6 DEF x

LEMMA EmptyInPlaces ==
  ASSUME NEW S, NEW stack \in Seq(Seq(S)), NEW O, NEW kind, InPlaces(O, kind, stack)
  PROVE  InPlaces(O, kind, Pushed(<<>>, stack))
PROOF
  <1>1. <<>> \in Seq(S) /\ 1 .. Len(<<>>) = {}
    OBVIOUS
  <1> QED
    BY <1>1, InPlacesPushed

LEMMA PlacesKept ==
  ASSUME NEW O, NEW Q
  PROVE  /\ \A stack \in Seq(Seq(Known)) :
              /\ InPlaces(O, "list", stack)
              /\ \A x \in Known : O[x].kind = "list" /\ O[x].height \in 1 .. Len(stack) => Q[x] = O[x]
              => InPlaces(Q, "list", stack)
         /\ \A stack \in Seq(Seq(KnownPairs)) :
              /\ InPlaces(O, "pair", stack)
              /\ \A x \in Known : O[x].kind = "pair" /\ O[x].height \in 1 .. Len(stack) => Q[x] = O[x]
              => InPlaces(Q, "pair", stack)
PROOF
  <1>1. \A entry \in Known : Object("list", entry) \in Known
    BY DEF Object
  <1>2. \A entry \in KnownPairs : Object("pair", entry) \in Known
    BY DEF Object, KnownPairs
  <1>3. ASSUME NEW stack \in Seq(Seq(Known)), InPlaces(O, "list", stack),
               \A x \in Known : O[x].kind = "list" /\ O[x].height \in 1 .. Len(stack) => Q[x] = O[x]
        PROVE  InPlaces(Q, "list", stack)
    BY <1>1, <1>3, InPlacesKept
  <1>4. ASSUME NEW stack \in Seq(Seq(KnownPairs)), InPlaces(O, "pair", stack),
               \A x \in Known : O[x].kind = "pair" /\ O[x].height \in 1 .. Len(stack) => Q[x] = O[x]
        PROVE  InPlaces(Q, "pair", stack)
    BY <1>2, <1>4, InPlacesKept
  <1> QED
    BY <1>3, <1>4

(* O says where the objects lie.                                            *)
Placed(O, shape) ==
  /\ InPlaces(O, "list", Lists)
  /\ ~InnerIs(shape, {"end"}) => InPlaces(O, "pair", PairLists)
  /\ \A i \in 1 .. Len(parsed) : parsed[i] \in StatedTriples => O[parsed[i][3]] = Place("triple", i, 0)
  /\ shape.held # "none" => O[element_] = Free
  /\ \A x \in Values : x \notin Known => O[x] = Free

OnceInv(shape) ==
  /\ \E O : Placed(O, shape)
  /\ \A i, j \in 1 .. Len(parsed) :
       parsed[i] = parsed[j] /\ parsed[i] \in CollectionNodes => i = j

(* No triple is inserted twice.                                             *)
LEMMA OnceIsEnough ==
  ASSUME NEW s, KnownInv(s), OnceInv(s)
  PROVE  EachTripleOnce
PROOF
  <1>1. PICK O : Placed(O, s)
    BY DEF OnceInv
  <1>2. SUFFICES ASSUME NEW i \in 1 .. Len(parsed), NEW j \in 1 .. Len(parsed), parsed[i] = parsed[j]
                 PROVE  i = j
    BY DEF EachTripleOnce
  <1>3. parsed[i] \in StatedTriples \cup CollectionNodes
    BY DEF KnownInv
  <1>4. CASE parsed[i] \in StatedTriples
    <2>1. Place("triple", i, 0) = Place("triple", j, 0)
      BY <1>1, <1>2, <1>4 DEF Placed
    <2> QED
      BY <2>1, PlaceFields
  <1>5. CASE parsed[i] \in CollectionNodes
    BY <1>2, <1>5 DEF OnceInv
  <1> QED
    BY <1>3, <1>4, <1>5

(* The triples inserted so far are of the same kind as before.              *)
LEMMA SameKind ==
  ASSUME TypeInv, TypeInv', NEW x \in StatedTriples \cup CollectionNodes
  PROVE  /\ x \in StatedTriples' => x \in StatedTriples
         /\ x \in CollectionNodes' => x \in CollectionNodes
         /\ ~(x \in StatedTriples /\ x \in CollectionNodes)
         /\ ~(x \in StatedTriples' /\ x \in CollectionNodes')
PROOF
  <1>1. TermsRead \cap {first, rest} = {} /\ TermsRead' \cap {first, rest} = {}
    BY ValueFacts DEF TermsRead
  <1>2. x \in StatedTriples \/ x \in StatedTriples' => x[2] \notin {first, rest}
    BY <1>1 DEF StatedTriples
  <1>3. x \in CollectionNodes \/ x \in CollectionNodes' => x[2] \in {first, rest}
    BY DEF CollectionNodes
  <1> QED
    BY <1>2, <1>3

LEMMA NewKind ==
  \A x : ~(x \in StatedTriples' /\ x \in CollectionNodes')
PROOF
  <1>1. TermsRead' \cap {first, rest} = {}
    BY ValueFacts DEF TermsRead
  <1>2. \A x \in StatedTriples' : x[2] \notin {first, rest}
    BY <1>1 DEF StatedTriples
  <1>3. \A x \in CollectionNodes' : x[2] \in {first, rest}
    BY DEF CollectionNodes
  <1> QED
    BY <1>2, <1>3

LEMMA ListsFacts ==
  ASSUME NEW s, KnownInv(s)
  PROVE  /\ Lists \in Seq(Seq(Known)) /\ PairLists \in Seq(Seq(KnownPairs))
         /\ Len(bnpl_collection_list_stack) \in Nat /\ Len(verb_object_pair_list_stack) \in Nat
         /\ Len(Lists) = Len(bnpl_collection_list_stack) + 1
         /\ Len(PairLists) = Len(verb_object_pair_list_stack) + 1
         /\ \A entry \in Known : Object("list", entry) = entry
         /\ \A entry \in KnownPairs : Object("pair", entry) = entry[2] /\ entry[2] \in Known
PROOF
  <1>1. /\ bnpl_collection_list \in Seq(Known) /\ bnpl_collection_list_stack \in Seq(Seq(Known))
        /\ verb_object_pair_list \in Seq(KnownPairs)
        /\ verb_object_pair_list_stack \in Seq(Seq(KnownPairs))
    BY DEF KnownInv
  <1>2. \A entry \in KnownPairs : entry[2] \in Known
    BY DEF KnownPairs
  <1>3. Lists \in Seq(Seq(Known)) /\ Len(Lists) = Len(bnpl_collection_list_stack) + 1
    BY <1>1, PushedOnto DEF Lists
  <1>4. PairLists \in Seq(Seq(KnownPairs)) /\ Len(PairLists) = Len(verb_object_pair_list_stack) + 1
    BY <1>1, PushedOnto DEF PairLists
  <1>5. Len(bnpl_collection_list_stack) \in Nat /\ Len(verb_object_pair_list_stack) \in Nat
    BY <1>1
  <1> QED
    BY <1>2, <1>3, <1>4, <1>5 DEF Object

(* A statement whose triples have been inserted is only cleared.            *)
LEMMA EndMoves ==
  ASSUME NEW s \in Shapes, NEW t \in Shapes, NEW rule, rule \notin DOMAIN Alternatives,
         Move(rule, s, t), InnerIs(s, {"end"}), rule # "clearTripleParameters"
  PROVE  InnerIs(t, {"end"})
PROOF
  <1>1. s.frames # <<>> /\ Head(s.frames).kind = "end"
    BY DEF InnerIs
  <1>2. rule # "beginStatement"
    BY <1>1, StatementMoves, ShapeFields DEF Nothing
  <1>3. rule \notin {"setSubject", "processTripleSeq", "processTripleSeq2"}
    <2>1. /\ Head(Begun).kind # "end" /\ Head(AfterVerbs).kind # "end" /\ Head(Subject).kind # "end"
      BY StatementFrames
    <2>2. \A held, seq : /\ s # Shape(Begun, held, seq) /\ s # Shape(AfterVerbs, held, seq)
                         /\ s # Shape(Subject, held, seq)
      BY <1>1, <2>1, ShapeFields
    <2> QED
      BY <2>2, StatementMoves
  <1>4. rule \notin {"processVerb", "processPredicateObjectListInner"}
    BY <1>1, VerbMoves DEF AtVerb, InnerIs
  <1>5. rule = "term" => InnerIs(t, {"end"})
    BY <1>1, VerbMoves, ShapeFields DEF Holding, InnerIs
  <1>6. rule \notin {"pushCurrentTerm", "collectionBegin", "blankNodePropertyListBegin",
                     "processCollection", "processBlankNodePropertyList"}
    BY <1>1, ObjectMoves DEF AtBracket, InnerIs
  <1> QED
    BY <1>2, <1>3, <1>4, <1>5, <1>6 DEF Move, Alternatives

(* The actions that move no object.                                         *)
LEMMA OnceKept ==
  ASSUME TypeInv, TypeInv', terms <= terms', latest_BN_label <= latest_BN_label',
         NEW s \in Shapes, KnownInv(s), NEW O, Placed(O, s), OnceInv(s), UNCHANGED parsed
  PROVE  /\ \A i \in 1 .. Len(parsed') :
              parsed'[i] \in StatedTriples' => O[parsed'[i][3]] = Place("triple", i, 0)
         /\ \A x \in Values : x \notin Known' => O[x] = Free
         /\ \A i, j \in 1 .. Len(parsed') :
              parsed'[i] = parsed'[j] /\ parsed'[i] \in CollectionNodes' => i = j
PROOF
  <1>1. \A i \in 1 .. Len(parsed) : parsed[i] \in StatedTriples \cup CollectionNodes
    BY DEF KnownInv
  <1>2. \A i \in 1 .. Len(parsed) : /\ parsed[i] \in StatedTriples' => parsed[i] \in StatedTriples
                                    /\ parsed[i] \in CollectionNodes' => parsed[i] \in CollectionNodes
    BY <1>1, SameKind
  <1>3. Known \subseteq Known'
    BY KnownGrows
  <1> QED
    BY <1>2, <1>3 DEF Placed, OnceInv

LEMMA OncePlainStep ==
  ASSUME TypeInv, TypeInv', NEW s \in Shapes, NEW t \in Shapes, Fits(s), KnownInv(s), OnceInv(s),
         NEW rule, Matched(rule), Move(rule, s, t), rule \notin DOMAIN Alternatives,
         ReadTerm \/ BeginStatement \/ setSubject \/ processVerb
           \/ moveBnpl_collection_listIntoStack \/ clearTripleParameters
  PROVE  OnceInv(t)'
PROOF
  <1>1. PICK O : Placed(O, s)
    BY DEF OnceInv
  <1>2. terms <= terms' /\ latest_BN_label <= latest_BN_label' /\ UNCHANGED parsed
    <2>1. terms' \in {terms, terms + 1} /\ UNCHANGED <<latest_BN_label, parsed>>
      BY DEF ReadTerm, BeginStatement, setSubject, processVerb, moveBnpl_collection_listIntoStack,
             clearTripleParameters, docVars
    <2> QED
      BY <2>1 DEF TypeInv
  <1>3. /\ \A i \in 1 .. Len(parsed') :
             parsed'[i] \in StatedTriples' => O[parsed'[i][3]] = Place("triple", i, 0)
        /\ \A x \in Values : x \notin Known' => O[x] = Free
        /\ \A i, j \in 1 .. Len(parsed') :
             parsed'[i] = parsed'[j] /\ parsed'[i] \in CollectionNodes' => i = j
    BY <1>1, <1>2, OnceKept
  <1>4. t.held # "none" => O[element_'] = Free
    <2>1. rule \notin {"processCollection", "processBlankNodePropertyList"}
      BY DEF ReadTerm, BeginStatement, setSubject, processVerb, moveBnpl_collection_listIntoStack,
             clearTripleParameters, Matched
    <2>2. t.held # "none" => rule = "term"
      BY <2>1, HeldMoves
    <2>3. rule = "term" => element_' = Term(terms + 1)
      BY DEF ReadTerm, BeginStatement, setSubject, processVerb, moveBnpl_collection_listIntoStack,
             clearTripleParameters, Matched
    <2>4. Term(terms + 1) \in Values /\ Term(terms + 1) \notin Known
      <3>1. terms + 1 \in Nat
        BY DEF TypeInv
      <3> QED
        BY <3>1, KnownFacts DEF Values
    <2> QED
      BY <1>1, <2>2, <2>3, <2>4 DEF Placed
  <1>5. /\ InPlaces(O, "list", Lists)
        /\ InPlaces(O, "list", bnpl_collection_list_stack)
        /\ Lists \in Seq(Seq(Known)) /\ bnpl_collection_list_stack \in Seq(Seq(Known))
    <2>1. bnpl_collection_list \in Seq(Known) /\ bnpl_collection_list_stack \in Seq(Seq(Known))
      BY DEF KnownInv
    <2>2. InPlaces(O, "list", Lists) /\ Lists \in Seq(Seq(Known))
      BY <1>1, ListsFacts DEF Placed
    <2> QED
      BY <2>1, <2>2, InPlacesPushed DEF Lists
  <1>6. InPlaces(O, "list", Lists')
    <2>1. \/ Lists' = Lists
          \/ Lists' = Pushed(<<>>, Lists)
          \/ Lists' = Pushed(<<>>, bnpl_collection_list_stack)
      BY DEF ReadTerm, BeginStatement, setSubject, processVerb, moveBnpl_collection_listIntoStack,
             clearTripleParameters, listVars, Lists
    <2> QED
      BY <1>5, <2>1, EmptyInPlaces
  <1>7. ~InnerIs(t, {"end"}) => InPlaces(O, "pair", PairLists')
    <2>1. PairLists \in Seq(Seq(KnownPairs))
      BY ListsFacts
    <2>2. CASE clearTripleParameters
      <3>1. s = Shape(Ended, "none", 0)
        BY <2>2, StatementMoves DEF clearTripleParameters, Matched
      <3>2. Len(verb_object_pair_list_stack) <= 0
        BY <3>1, StatementSizes DEF Fits, Before
      <3>3. verb_object_pair_list_stack = <<>>
        BY <3>2 DEF TypeInv
      <3>4. PairLists' = Pushed(<<>>, <<>>)
        BY <2>2, <3>3 DEF clearTripleParameters, PairLists
      <3>5. <<>> \in Seq(Seq(KnownPairs)) /\ 1 .. Len(<<>>) = {}
        OBVIOUS
      <3>6. InPlaces(O, "pair", <<>>)
        BY <3>5 DEF InPlaces
      <3> QED
        BY <3>4, <3>5, <3>6, EmptyInPlaces
    <2>3. CASE ~clearTripleParameters
      <3>1. SUFFICES ASSUME ~InnerIs(t, {"end"})
                     PROVE  InPlaces(O, "pair", PairLists')
        OBVIOUS
      <3>2. rule # "clearTripleParameters"
        BY <2>3 DEF ReadTerm, BeginStatement, setSubject, processVerb,
                    moveBnpl_collection_listIntoStack, Matched
      <3>3. InPlaces(O, "pair", PairLists)
        BY <1>1, <3>1, <3>2, EndMoves DEF Placed
      <3>4. PairLists' = PairLists \/ PairLists' = Pushed(<<>>, PairLists)
        BY <2>3 DEF ReadTerm, BeginStatement, setSubject, processVerb,
                    moveBnpl_collection_listIntoStack, pairVars, PairLists
      <3> QED
        BY <2>1, <3>3, <3>4, EmptyInPlaces
    <2> QED
      BY <2>2, <2>3
  <1> QED
    BY <1>3, <1>4, <1>6, <1>7 DEF OnceInv, Placed

(* The object that is held goes to the inner list.                          *)
LEMMA OnceObjectStep ==
  ASSUME TypeInv, TypeInv', NEW s \in Shapes, NEW t \in Shapes, KnownInv(s), OnceInv(s),
         Move("pushCurrentTerm", s, t), pushCurrentTermIntoBnpl_collection_list
  PROVE  OnceInv(t)'
PROOF
  <1> DEFINE l == bnpl_collection_list
             stack == bnpl_collection_list_stack
             n == Len(stack) + 1
             e == element_
  <1>1. PICK O : Placed(O, s)
    BY DEF OnceInv
  <1>2. /\ UNCHANGED <<terms, latest_BN_label, parsed, stack, verb_object_pair_list,
                      verb_object_pair_list_stack>>
        /\ l' = Append(l, e)
    BY DEF pushCurrentTermIntoBnpl_collection_list, docVars, pairVars
  <1>3. terms <= terms' /\ latest_BN_label <= latest_BN_label'
    BY <1>2 DEF TypeInv
  <1>4. /\ InnerIs(s, {"open", "collection"}) /\ s.held # "none"
        /\ t = Holding(s, "none")
    BY ObjectMoves
  <1>5. e \in Known /\ O[e] = Free /\ Known \subseteq Values
    BY <1>1, <1>4, KnownFacts DEF KnownInv, Placed
  <1> DEFINE Q == [x \in Values |-> IF x = e THEN Place("list", n, Len(l) + 1) ELSE O[x]]
  <1>6. Q[e] = Place("list", n, Len(l) + 1) /\ \A x \in Values : O[x] # Free => Q[x] = O[x]
    BY <1>5
  <1>7. \A x \in Values : x \notin Known => Q[x] = O[x]
    BY <1>5
  <1> HIDE DEF Q
  <1>8. \A x \in Known : O[x].kind # "free" => Q[x] = O[x]
    BY <1>5, <1>6, PlaceFields DEF Free
  <1>9. /\ l \in Seq(Known) /\ stack \in Seq(Seq(Known)) /\ PairLists \in Seq(Seq(KnownPairs))
        /\ \A entry \in Known : Object("list", entry) = entry
        /\ \A entry \in KnownPairs : Object("pair", entry) \in Known
    BY ListsFacts DEF KnownInv
  <1>10. /\ InPlaces(O, "list", stack)
         /\ \A j \in 1 .. Len(l) : O[l[j]] = Place("list", n, j)
    <2>1. InPlaces(O, "list", stack)
          /\ \A j \in 1 .. Len(l) : O[Object("list", l[j])] = Place("list", n, j)
      BY <1>1, <1>9, InPlacesPushed DEF Placed, Lists
    <2> QED
      BY <1>9, <2>1
  <1>11. InPlaces(Q, "list", Lists')
    <2>1. InPlaces(Q, "list", stack)
      <3>1. \A x \in Known : O[x].kind = "list" => Q[x] = O[x]
        BY <1>8
      <3> QED
        BY <1>9, <1>10, <3>1, PlacesKept
    <2>2. ASSUME NEW j \in 1 .. Len(Append(l, e))
          PROVE  Q[Object("list", Append(l, e)[j])] = Place("list", n, j)
      <3>1. CASE j = Len(l) + 1
        BY <1>5, <1>6, <1>9, <3>1
      <3>2. CASE j # Len(l) + 1
        <4>1. j \in 1 .. Len(l) /\ Append(l, e)[j] = l[j] /\ l[j] \in Known
          BY <1>5, <1>9, <3>2
        <4>2. O[l[j]].kind # "free"
          BY <1>10, <4>1, PlaceFields
        <4> QED
          BY <1>8, <1>9, <1>10, <4>1, <4>2
      <3> QED
        BY <3>1, <3>2
    <2>3. Append(l, e) \in Seq(Known)
      BY <1>5, <1>9
    <2>4. Lists' = Pushed(Append(l, e), stack)
      BY <1>2 DEF Lists
    <2> QED
      BY <1>9, <2>1, <2>2, <2>3, <2>4, InPlacesPushed
  <1>12. InPlaces(Q, "pair", PairLists')
    <2>1. InPlaces(O, "pair", PairLists)
      BY <1>1, <1>4 DEF Placed, InnerIs
    <2>2. InPlaces(Q, "pair", PairLists)
      <3>1. \A x \in Known : O[x].kind = "pair" => Q[x] = O[x]
        BY <1>8
      <3> QED
        BY <1>9, <2>1, <3>1, PlacesKept
    <2>3. PairLists' = PairLists
      BY <1>2 DEF PairLists
    <2> QED
      BY <2>2, <2>3
  <1>13. /\ \A i \in 1 .. Len(parsed') :
              parsed'[i] \in StatedTriples' => Q[parsed'[i][3]] = Place("triple", i, 0)
         /\ \A x \in Values : x \notin Known' => Q[x] = Free
         /\ \A i, j \in 1 .. Len(parsed') :
              parsed'[i] = parsed'[j] /\ parsed'[i] \in CollectionNodes' => i = j
    <2>1. /\ \A i \in 1 .. Len(parsed') :
               parsed'[i] \in StatedTriples' => O[parsed'[i][3]] = Place("triple", i, 0)
          /\ \A x \in Values : x \notin Known' => O[x] = Free
          /\ \A i, j \in 1 .. Len(parsed') :
               parsed'[i] = parsed'[j] /\ parsed'[i] \in CollectionNodes' => i = j
      BY <1>1, <1>2, <1>3, OnceKept
    <2>2. Known' = Known /\ StatedTriples' = StatedTriples
      BY <1>2 DEF Known, StatedTriples, TermsRead, NodesMade
    <2>3. \A x \in StatedTriples : x[3] \in Known
      BY DEF StatedTriples
    <2>4. ASSUME NEW i \in 1 .. Len(parsed'), parsed'[i] \in StatedTriples'
          PROVE  Q[parsed'[i][3]] = Place("triple", i, 0)
      <3>1. O[parsed'[i][3]].kind # "free" /\ parsed'[i][3] \in Known
        BY <2>1, <2>2, <2>3, <2>4, PlaceFields
      <3> QED
        BY <1>8, <2>1, <2>4, <3>1
    <2> QED
      BY <1>7, <2>1, <2>2, <2>4
  <1>14. t.held = "none"
    BY <1>4, ShapeFields DEF Holding
  <1> QED
    BY <1>11, <1>12, <1>13, <1>14 DEF OnceInv, Placed

(* The objects of a verb go from the inner list to the inner list of pairs. *)
LEMMA OncePairsStep ==
  ASSUME TypeInv, TypeInv', NEW s \in Shapes, NEW t \in Shapes, Fits(s), KnownInv(s), OnceInv(s),
         Move("processPredicateObjectListInner", s, t), processPredicateObjectListInner
  PROVE  OnceInv(t)'
PROOF
  <1> DEFINE l == bnpl_collection_list
             stack == bnpl_collection_list_stack
             n == Len(stack) + 1
             p == verb_object_pair_list
             pairStack == verb_object_pair_list_stack
             h == Len(pairStack) + 1
             v == Head(verb_stack)
             added == [i \in 1 .. Len(l) |-> <<v, l[i]>>]
  <1>1. PICK O : Placed(O, s)
    BY DEF OnceInv
  <1>2. /\ UNCHANGED <<terms, latest_BN_label, parsed, stack, pairStack>>
        /\ l' = <<>> /\ p' = p \o added
    BY DEF processPredicateObjectListInner
  <1>3. terms <= terms' /\ latest_BN_label <= latest_BN_label'
    BY <1>2 DEF TypeInv
  <1>4. /\ InnerIs(s, {"open"}) /\ t.held = "none"
        /\ ~InnerIs(s, {"end"}) /\ s.frames # <<>>
    BY VerbMoves, ShapeFields DEF WithVerb, InnerIs
  <1>5. v \in TermsRead
    <2>1. Len(verb_stack) > 0
      BY <1>4, ShutSizes DEF Fits
    <2>2. Len(<<>>) = 0
      OBVIOUS
    <2>3. verb_stack # <<>> /\ verb_stack \in Seq(TermsRead)
      BY <2>1, <2>2 DEF KnownInv
    <2> QED
      BY <2>3
  <1> DEFINE moved(x) == O[x].kind = "list" /\ O[x].height = n
             Q == [x \in Values |-> IF moved(x) THEN Place("pair", h, Len(p) + O[x].index) ELSE O[x]]
  <1>6. \A x \in Values : Q[x] = IF moved(x) THEN Place("pair", h, Len(p) + O[x].index) ELSE O[x]
    OBVIOUS
  <1> HIDE DEF Q
  <1>7. /\ l \in Seq(Known) /\ stack \in Seq(Seq(Known))
        /\ p \in Seq(KnownPairs) /\ pairStack \in Seq(Seq(KnownPairs))
        /\ \A entry \in Known : Object("list", entry) = entry
        /\ \A entry \in KnownPairs : Object("pair", entry) = entry[2] /\ entry[2] \in Known
        /\ Len(stack) \in Nat /\ Len(pairStack) \in Nat /\ Len(p) \in Nat /\ Len(l) \in Nat
        /\ Known \subseteq Values
    <2>1. /\ l \in Seq(Known) /\ stack \in Seq(Seq(Known))
          /\ p \in Seq(KnownPairs) /\ pairStack \in Seq(Seq(KnownPairs))
      BY DEF KnownInv
    <2> HIDE DEF v, l, stack, p, pairStack
    <2>2. Len(stack) \in Nat /\ Len(pairStack) \in Nat /\ Len(p) \in Nat /\ Len(l) \in Nat
      BY <2>1
    <2>3. /\ \A entry \in Known : Object("list", entry) = entry
          /\ \A entry \in KnownPairs : Object("pair", entry) = entry[2] /\ entry[2] \in Known
      BY ListsFacts
    <2>4. Known \subseteq Values
      BY KnownFacts
    <2> QED
      BY <2>1, <2>2, <2>3, <2>4
  <1> HIDE DEF v, l, stack, p, pairStack
  <1>8. /\ InPlaces(O, "list", stack)
        /\ \A j \in 1 .. Len(l) : O[l[j]] = Place("list", n, j)
    <2>1. InPlaces(O, "list", stack)
          /\ \A j \in 1 .. Len(l) : O[Object("list", l[j])] = Place("list", n, j)
      <3>1. InPlaces(O, "list", Pushed(l, stack))
        BY <1>1 DEF Placed, Lists, l, stack
      <3>2. l \in Seq(Known) /\ stack \in Seq(Seq(Known))
        BY <1>7
      <3> QED
        BY <3>1, <3>2, InPlacesPushed
    <2> QED
      BY <2>1 DEF Object
  <1>9. /\ InPlaces(O, "pair", pairStack)
        /\ \A j \in 1 .. Len(p) : O[p[j][2]] = Place("pair", h, j)
    <2>1. InPlaces(O, "pair", pairStack)
          /\ \A j \in 1 .. Len(p) : O[Object("pair", p[j])] = Place("pair", h, j)
      <3>1. InPlaces(O, "pair", Pushed(p, pairStack))
        BY <1>1, <1>4 DEF Placed, PairLists, p, pairStack
      <3>2. p \in Seq(KnownPairs) /\ pairStack \in Seq(Seq(KnownPairs))
        BY <1>7
      <3> QED
        BY <3>1, <3>2, InPlacesPushed
    <2> QED
      BY <2>1 DEF Object
  <1>10. InPlaces(Q, "list", Lists')
    <2>1. \A x \in Known : O[x].kind = "list" /\ O[x].height \in 1 .. Len(stack) => Q[x] = O[x]
      BY <1>6, <1>7
    <2>2. InPlaces(Q, "list", stack)
      BY <1>7, <1>8, <2>1, PlacesKept
    <2>3. Lists' = Pushed(<<>>, stack)
      BY <1>2 DEF Lists, l, stack
    <2> QED
      BY <1>7, <2>2, <2>3, EmptyInPlaces
  <1>11. InPlaces(Q, "pair", PairLists')
    <2>1. \A x \in Known : O[x].kind # "list" => Q[x] = O[x]
      BY <1>6, <1>7
    <2>2. InPlaces(Q, "pair", pairStack)
      BY <1>7, <1>9, <2>1, PlacesKept
    <2>3. /\ added \in Seq(KnownPairs) /\ Len(added) = Len(l)
          /\ \A j \in 1 .. Len(l) : added[j] = <<v, l[j]>>
      <3>1. \A j \in 1 .. Len(l) : <<v, l[j]>> \in KnownPairs
        BY <1>5, <1>7 DEF KnownPairs
      <3> QED
        BY <1>7, <3>1
    <2> HIDE DEF added
    <2>4. /\ p \o added \in Seq(KnownPairs) /\ Len(p \o added) = Len(p) + Len(l)
          /\ \A j \in 1 .. Len(p) : (p \o added)[j] = p[j]
          /\ \A j \in 1 .. Len(l) : (p \o added)[Len(p) + j] = added[j]
          /\ \A j \in 1 .. Len(p \o added) : j \in 1 .. Len(p) \/ \E k \in 1 .. Len(l) : j = Len(p) + k
      <3>1. p \in Seq(KnownPairs)
        BY <1>7
      <3>2. added \in Seq(KnownPairs)
        BY <2>3
      <3>3. /\ p \o added \in Seq(KnownPairs) /\ Len(p \o added) = Len(p) + Len(added)
            /\ \A j \in 1 .. Len(p) : (p \o added)[j] = p[j]
            /\ \A j \in 1 .. Len(added) : (p \o added)[Len(p) + j] = added[j]
            /\ \A j \in 1 .. Len(p \o added) :
                 j \in 1 .. Len(p) \/ \E k \in 1 .. Len(added) : j = Len(p) + k
        BY <3>1, <3>2, Concatenated
      <3>4. Len(added) = Len(l)
        BY <2>3
      <3> QED
        BY <3>3, <3>4
    <2>5. ASSUME NEW j \in 1 .. Len(p \o added)
          PROVE  Q[Object("pair", (p \o added)[j])] = Place("pair", h, j)
      <3>1. CASE j \in 1 .. Len(p)
        <4>1. j \in 1 .. Len(p) /\ (p \o added)[j] = p[j] /\ p[j] \in KnownPairs
          BY <1>7, <2>4, <3>1
        <4>2. p[j][2] \in Known /\ Object("pair", p[j]) = p[j][2]
          BY <1>7, <4>1
        <4>3. O[p[j][2]].kind # "list"
          BY <1>9, <4>1, PlaceFields
        <4> QED
          BY <1>9, <2>1, <4>1, <4>2, <4>3
      <3>2. ASSUME NEW k \in 1 .. Len(l), j = Len(p) + k
            PROVE  Q[Object("pair", (p \o added)[j])] = Place("pair", h, j)
        <4>1. k \in 1 .. Len(l) /\ j = Len(p) + k
          BY <3>2
        <4>2. (p \o added)[j] = <<v, l[k]>> /\ l[k] \in Known
          BY <1>7, <2>3, <2>4, <4>1
        <4>3. Object("pair", <<v, l[k]>>) = l[k]
          BY DEF Object
        <4>4. O[l[k]] = Place("list", n, k)
          BY <1>8, <4>1
        <4>5. moved(l[k]) /\ O[l[k]].index = k
          BY <4>4, PlaceFields
        <4> HIDE DEF moved
        <4>6. Q[l[k]] = Place("pair", h, Len(p) + k)
          BY <1>6, <1>7, <4>2, <4>5
        <4> QED
          BY <4>1, <4>2, <4>3, <4>6
      <3> QED
        BY <2>4, <3>1, <3>2
    <2>6. PairLists' = Pushed(p \o added, pairStack)
      BY <1>2 DEF PairLists, p, pairStack
    <2> QED
      BY <1>7, <2>2, <2>4, <2>5, <2>6, InPlacesPushed
  <1>12. /\ \A i \in 1 .. Len(parsed') :
              parsed'[i] \in StatedTriples' => Q[parsed'[i][3]] = Place("triple", i, 0)
         /\ \A x \in Values : x \notin Known' => Q[x] = Free
         /\ \A i, j \in 1 .. Len(parsed') :
              parsed'[i] = parsed'[j] /\ parsed'[i] \in CollectionNodes' => i = j
    <2>1. /\ \A i \in 1 .. Len(parsed') :
               parsed'[i] \in StatedTriples' => O[parsed'[i][3]] = Place("triple", i, 0)
          /\ \A x \in Values : x \notin Known' => O[x] = Free
          /\ \A i, j \in 1 .. Len(parsed') :
               parsed'[i] = parsed'[j] /\ parsed'[i] \in CollectionNodes' => i = j
      BY <1>1, <1>2, <1>3, OnceKept
    <2>2. \A x \in Values : O[x].kind # "list" => Q[x] = O[x]
      BY <1>6
    <2>3. \A x \in StatedTriples' : x[3] \in Values
      BY <1>2, KnownFacts DEF StatedTriples, Known, TermsRead, NodesMade
    <2>4. ASSUME NEW i \in 1 .. Len(parsed'), parsed'[i] \in StatedTriples'
          PROVE  Q[parsed'[i][3]] = Place("triple", i, 0)
      <3>1. O[parsed'[i][3]].kind # "list" /\ parsed'[i][3] \in Values
        BY <2>1, <2>3, <2>4, PlaceFields
      <3> QED
        BY <2>1, <2>2, <2>4, <3>1
    <2>5. Free.kind # "list"
      BY PlaceFields DEF Free
    <2> QED
      BY <2>1, <2>2, <2>4, <2>5
  <1> QED
    BY <1>4, <1>10, <1>11, <1>12 DEF OnceInv, Placed

(* The objects of the inner list of pairs go to triples.                    *)
LEMMA OnceTriples ==
  ASSUME TypeInv, TypeInv', terms <= terms', latest_BN_label <= latest_BN_label',
         NEW s \in Shapes, KnownInv(s), NEW O, Placed(O, s), OnceInv(s), ~InnerIs(s, {"end"}),
         NEW subject \in Known', parsed' = parsed \o Triples(subject)
  PROVE  \E Q : /\ InPlaces(Q, "list", Lists)
                /\ InPlaces(Q, "pair", verb_object_pair_list_stack)
                /\ \A i \in 1 .. Len(parsed') :
                     parsed'[i] \in StatedTriples' => Q[parsed'[i][3]] = Place("triple", i, 0)
                /\ \A x \in Values : x \notin Known => Q[x] = Free
                /\ \A i, j \in 1 .. Len(parsed') :
                     parsed'[i] = parsed'[j] /\ parsed'[i] \in CollectionNodes' => i = j
PROOF
  <1> DEFINE p == verb_object_pair_list
             pairStack == verb_object_pair_list_stack
             h == Len(pairStack) + 1
             new == Triples(subject)
             m == Len(parsed)
             moved(x) == O[x].kind = "pair" /\ O[x].height = h
             Q == [x \in Values |-> IF moved(x) THEN Place("triple", m + O[x].index, 0) ELSE O[x]]
             All == StatedTriples \cup CollectionNodes
  <1>1. \A x \in Values : Q[x] = IF moved(x) THEN Place("triple", m + O[x].index, 0) ELSE O[x]
    OBVIOUS
  <1> HIDE DEF Q
  <1>2. /\ p \in Seq(KnownPairs) /\ pairStack \in Seq(Seq(KnownPairs)) /\ parsed \in Seq(All)
        /\ Lists \in Seq(Seq(Known)) /\ Known \subseteq Values
        /\ Len(pairStack) \in Nat
    BY ListsFacts, KnownFacts DEF KnownInv
  <1>3. \A entry \in KnownPairs : entry[1] \in TermsRead /\ entry[2] \in Known
    BY DEF KnownPairs
  <1>4. /\ InPlaces(O, "list", Lists)
        /\ InPlaces(O, "pair", pairStack)
        /\ \A j \in 1 .. Len(p) : O[p[j][2]] = Place("pair", h, j)
    <2>1. InPlaces(O, "list", Lists) /\ InPlaces(O, "pair", PairLists)
      BY DEF Placed
    <2>2. InPlaces(O, "pair", pairStack)
          /\ \A j \in 1 .. Len(p) : O[Object("pair", p[j])] = Place("pair", h, j)
      BY <1>2, <2>1, InPlacesPushed DEF PairLists
    <2> QED
      BY <2>1, <2>2 DEF Object
  <1>5. InPlaces(Q, "list", Lists)
    <2>1. \A x \in Known : O[x].kind = "list" => Q[x] = O[x]
      BY <1>1, <1>2
    <2> QED
      BY <1>2, <1>4, <2>1, PlacesKept
  <1>6. InPlaces(Q, "pair", pairStack)
    <2>1. \A i \in 1 .. Len(pairStack) : i # h
      BY <1>2
    <2>2. \A x \in Known : O[x].height \in 1 .. Len(pairStack) => Q[x] = O[x]
      BY <1>1, <1>2, <2>1
    <2> QED
      BY <1>2, <1>4, <2>2, PlacesKept
  <1>7. \A x \in Values : x \notin Known => Q[x] = Free
    <2>1. Free.kind # "pair"
      BY PlaceFields DEF Free
    <2> QED
      BY <1>1, <2>1 DEF Placed
  <1>8. /\ new \in Seq(StatedTriples') /\ Len(new) = Len(p)
        /\ \A i \in 1 .. Len(p) : new[i] = <<subject, p[i][1], p[i][2]>>
    <2>1. p \in Seq(KnownPairs')
      BY <1>2, SequencesKept
    <2>2. \A pair \in KnownPairs' : <<subject, pair[1], pair[2]>> \in StatedTriples'
      BY DEF KnownPairs, StatedTriples
    <2> QED
      BY <2>1, <2>2, TriplesFacts
  <1> HIDE DEF new
  <1>9. /\ Len(parsed') = m + Len(new) /\ m \in Nat
        /\ \A i \in 1 .. m : parsed'[i] = parsed[i]
        /\ \A k \in 1 .. Len(new) : parsed'[m + k] = new[k]
        /\ \A i \in 1 .. Len(parsed') : i \in 1 .. m \/ \E k \in 1 .. Len(new) : i = m + k
    <2>1. parsed \in Seq(All') /\ new \in Seq(All')
      <3>1. StatedTriples' \subseteq All'
        OBVIOUS
      <3> QED
        BY <1>2, <1>8, <3>1, SequencesKept, SequencesGrow
    <2> QED
      BY <2>1, Concatenated DEF new
  <1>10. ASSUME NEW i \in 1 .. Len(parsed'), parsed'[i] \in StatedTriples'
         PROVE  Q[parsed'[i][3]] = Place("triple", i, 0)
    <2>1. CASE i \in 1 .. m
      <3>1. parsed[i] \in All /\ parsed'[i] = parsed[i]
        BY <1>2, <1>9, <2>1
      <3>2. parsed[i] \in StatedTriples
        BY <1>10, <3>1, SameKind
      <3>3. O[parsed[i][3]] = Place("triple", i, 0) /\ parsed[i][3] \in Values
        BY <1>2, <2>1, <3>2 DEF Placed, StatedTriples
      <3>4. O[parsed[i][3]].kind # "pair"
        BY <3>3, PlaceFields
      <3> QED
        BY <1>1, <3>1, <3>3, <3>4
    <2>2. ASSUME NEW k \in 1 .. Len(new), i = m + k
          PROVE  Q[parsed'[i][3]] = Place("triple", i, 0)
      <3>1. parsed'[i][3] = p[k][2] /\ p[k][2] \in Values
        BY <1>2, <1>3, <1>8, <1>9, <2>2
      <3>2. O[p[k][2]] = Place("pair", h, k)
        BY <1>4, <1>8
      <3>3. moved(p[k][2]) /\ O[p[k][2]].index = k
        BY <3>2, PlaceFields
      <3> HIDE DEF moved
      <3> QED
        BY <1>1, <2>2, <3>1, <3>3
    <2> QED
      BY <1>9, <2>1, <2>2
  <1>11. ASSUME NEW i \in 1 .. Len(parsed'), NEW j \in 1 .. Len(parsed'),
                parsed'[i] = parsed'[j], parsed'[i] \in CollectionNodes'
         PROVE  i = j
    <2>1. ASSUME NEW k \in 1 .. Len(parsed'), parsed'[k] \in CollectionNodes'
          PROVE  k \in 1 .. m /\ parsed[k] \in CollectionNodes
      <3>1. CASE k \in 1 .. m
        BY <1>2, <1>9, <2>1, <3>1, SameKind
      <3>2. ASSUME NEW r \in 1 .. Len(new), k = m + r
            PROVE  FALSE
        <4>1. parsed'[k] \in StatedTriples'
          BY <1>8, <1>9, <3>2
        <4>2. \A x \in StatedTriples' : x[2] \in TermsRead'
          BY DEF StatedTriples
        <4>3. \A x \in CollectionNodes' : x[2] \in {first, rest}
          BY DEF CollectionNodes
        <4>4. TermsRead' \cap {first, rest} = {}
          BY ValueFacts DEF TermsRead
        <4> QED
          BY <2>1, <4>1, <4>2, <4>3, <4>4
      <3> QED
        BY <1>9, <3>1, <3>2
    <2>2. /\ i \in 1 .. m /\ parsed[i] \in CollectionNodes /\ j \in 1 .. m
          /\ parsed'[i] = parsed[i] /\ parsed'[j] = parsed[j]
      BY <1>9, <1>11, <2>1
    <2> QED
      BY <1>11, <2>2 DEF OnceInv
  <1> QED
    BY <1>5, <1>6, <1>7, <1>10, <1>11

LEMMA OnceListStep ==
  ASSUME TypeInv, TypeInv', NEW s \in Shapes, NEW t \in Shapes, Fits(s), KnownInv(s), OnceInv(s),
         Move("processBlankNodePropertyList", s, t), processBlankNodePropertyList
  PROVE  OnceInv(t)'
PROOF
  <1> DEFINE node == BNode(latest_BN_label)
             stack == bnpl_collection_list_stack
             pairStack == verb_object_pair_list_stack
  <1>1. /\ latest_BN_label' = latest_BN_label + 1 /\ terms' = terms /\ element_' = node
        /\ parsed' = parsed \o Triples(node)
        /\ bnpl_collection_list' = Head(stack) /\ stack' = Tail(stack)
        /\ PairLists' = IF pairStack # <<>> THEN Pushed(Head(pairStack), Tail(pairStack))
                                           ELSE Pushed(<<>>, <<>>)
    BY DEF processBlankNodePropertyList, RestoreList, docVars, PairLists
  <1>2. /\ terms <= terms' /\ latest_BN_label <= latest_BN_label'
        /\ latest_BN_label \in Nat /\ latest_BN_label < latest_BN_label'
    BY <1>1 DEF TypeInv
  <1>3. node \in Known' /\ node \in Values /\ node \notin Known
    <2>1. latest_BN_label + 0 = latest_BN_label
      BY <1>2
    <2>2. node \in Known' /\ node \in Values
      BY <1>2, NodesKnown DEF Values
    <2>3. BNode(latest_BN_label + 0) \notin Known
      BY KnownFacts
    <2> QED
      BY <2>1, <2>2, <2>3
  <1>4. ~InnerIs(s, {"end"})
    BY ObjectMoves DEF InnerIs
  <1>5. PICK O : Placed(O, s)
    BY DEF OnceInv
  <1>6. PICK Q : /\ InPlaces(Q, "list", Lists)
                 /\ InPlaces(Q, "pair", pairStack)
                 /\ \A i \in 1 .. Len(parsed') :
                      parsed'[i] \in StatedTriples' => Q[parsed'[i][3]] = Place("triple", i, 0)
                 /\ \A x \in Values : x \notin Known => Q[x] = Free
                 /\ \A i, j \in 1 .. Len(parsed') :
                      parsed'[i] = parsed'[j] /\ parsed'[i] \in CollectionNodes' => i = j
    BY <1>1, <1>2, <1>3, <1>4, <1>5, OnceTriples
  <1>7. bnpl_collection_list \in Seq(Known) /\ stack \in Seq(Seq(Known)) /\ stack # <<>>
        /\ pairStack \in Seq(Seq(KnownPairs))
    BY ClosingFacts DEF KnownInv
  <1>8. InPlaces(Q, "list", Lists')
    <2>1. InPlaces(Q, "list", stack)
      BY <1>6, <1>7, InPlacesPushed DEF Lists
    <2>2. Lists' = stack
      BY <1>1, <1>7, AtTail DEF Lists
    <2> QED
      BY <2>1, <2>2
  <1>9. InPlaces(Q, "pair", PairLists')
    <2>1. CASE pairStack # <<>>
      <3>1. PairLists' = pairStack
        BY <1>1, <1>7, <2>1, AtTail
      <3> QED
        BY <1>6, <3>1
    <2>2. CASE pairStack = <<>>
      <3>1. PairLists' = Pushed(<<>>, pairStack)
        BY <1>1, <2>2
      <3> QED
        BY <1>6, <1>7, <3>1, EmptyInPlaces
    <2> QED
      BY <2>1, <2>2
  <1>10. Known \subseteq Known'
    BY <1>2, KnownGrows
  <1> QED
    BY <1>1, <1>3, <1>6, <1>8, <1>9, <1>10 DEF OnceInv, Placed

LEMMA OnceStatementStep ==
  ASSUME TypeInv, TypeInv', NEW s \in Shapes, NEW t \in Shapes, Fits(s), KnownInv(s), OnceInv(s),
         NEW rule, Matched(rule), Move(rule, s, t), processTripleSeq
  PROVE  OnceInv(t)'
PROOF
  <1>1. /\ \/ rule = "processTripleSeq" /\ UNCHANGED subject_
           \/ rule = "processTripleSeq2" /\ subject_' = first_BNPL
        /\ parsed' = parsed \o Triples(subject_')
        /\ UNCHANGED <<terms, latest_BN_label, Lists>>
    BY DEF processTripleSeq, Matched, docVars, listVars, Lists
  <1>2. terms <= terms' /\ latest_BN_label <= latest_BN_label'
    BY <1>1 DEF TypeInv
  <1>3. /\ rule = "processTripleSeq" => s.seq = 1
        /\ rule = "processTripleSeq2" => s.seq = 2
        /\ t = Shape(Ended, "none", 0) /\ s.frames \in {AfterVerbs, Subject}
    BY <1>1, StatementMoves, ShapeFields
  <1>4. subject_' \in Known'
    BY <1>1, <1>2, <1>3, KnownGrows DEF KnownInv
  <1>5. /\ ~InnerIs(s, {"end"}) /\ InnerIs(t, {"end"}) /\ t.held = "none"
    BY <1>3, StatementFrames, ShapeFields DEF InnerIs
  <1>6. PICK O : Placed(O, s)
    BY DEF OnceInv
  <1> DEFINE x == subject_'
  <1>7. x \in Known' /\ parsed' = parsed \o Triples(x)
    BY <1>1, <1>4
  <1> HIDE DEF x
  <1>8. PICK Q : /\ InPlaces(Q, "list", Lists)
                 /\ \A i \in 1 .. Len(parsed') :
                      parsed'[i] \in StatedTriples' => Q[parsed'[i][3]] = Place("triple", i, 0)
                 /\ \A v \in Values : v \notin Known => Q[v] = Free
                 /\ \A i, j \in 1 .. Len(parsed') :
                      parsed'[i] = parsed'[j] /\ parsed'[i] \in CollectionNodes' => i = j
    BY <1>2, <1>5, <1>6, <1>7, OnceTriples
  <1>9. Known \subseteq Known'
    BY <1>2, KnownGrows
  <1> QED
    BY <1>1, <1>5, <1>8, <1>9 DEF OnceInv, Placed

(* The nodes of a collection are new.                                       *)
LEMMA OnceCollectionStep ==
  ASSUME TypeInv, TypeInv', NEW s \in Shapes, NEW t \in Shapes, Fits(s), KnownInv(s), OnceInv(s),
         KnownInv(t)', Move("processCollection", s, t), processCollection
  PROVE  OnceInv(t)'
PROOF
  <1> DEFINE l == bnpl_collection_list
             stack == bnpl_collection_list_stack
             new == CollectionTriples
             m == Len(parsed)
             All == StatedTriples \cup CollectionNodes
  <1>1. /\ latest_BN_label' = latest_BN_label + (IF l = <<>> THEN 1 ELSE Len(l))
        /\ element_' = BNode(latest_BN_label' - 1) /\ parsed' = parsed \o new
        /\ l' = Head(stack) /\ stack' = Tail(stack)
        /\ terms' = terms /\ PairLists' = PairLists
    BY DEF processCollection, RestoreList, docVars, pairVars, PairLists
  <1>2. PICK O : Placed(O, s)
    BY DEF OnceInv
  <1>3. /\ l \in Seq(Known) /\ stack \in Seq(Seq(Known)) /\ stack # <<>> /\ parsed \in Seq(All)
        /\ latest_BN_label \in Nat /\ latest_BN_label' \in Nat /\ Len(l) \in Nat
    <2>1. stack # <<>>
      BY ClosingFacts
    <2>2. l \in Seq(Known) /\ stack \in Seq(Seq(Known)) /\ parsed \in Seq(All)
      BY DEF KnownInv
    <2>3. latest_BN_label \in Nat /\ latest_BN_label' \in Nat /\ Len(l) \in Nat
      BY DEF TypeInv
    <2> QED
      BY <2>1, <2>2, <2>3
  <1>4. terms <= terms' /\ latest_BN_label < latest_BN_label'
    <2>1. l # <<>> => Len(l) > 0
      BY <1>3
    <2> QED
      BY <1>1, <1>3, <2>1 DEF TypeInv
  <1>5. InPlaces(O, "list", Lists')
    <2>1. InPlaces(O, "list", stack)
      BY <1>2, <1>3, InPlacesPushed DEF Placed, Lists
    <2>2. Lists' = stack
      BY <1>1, <1>3, AtTail DEF Lists
    <2> QED
      BY <2>1, <2>2
  <1>6. InPlaces(O, "pair", PairLists')
    <2>1. ~InnerIs(s, {"end"})
      BY ObjectMoves DEF InnerIs
    <2> QED
      BY <1>1, <1>2, <2>1 DEF Placed
  <1>7. O[element_'] = Free
    <2>1. \A a, b \in Nat : b > a => b - 1 = a + (b - 1 - a) /\ b - 1 - a \in Nat /\ b - 1 \in Nat
      OBVIOUS
    <2>2. PICK k \in Nat : latest_BN_label' - 1 = latest_BN_label + k /\ latest_BN_label' - 1 \in Nat
      <3>1. latest_BN_label \in Nat /\ latest_BN_label' \in Nat /\ latest_BN_label' > latest_BN_label
        BY <1>3, <1>4
      <3> QED
        BY <2>1, <3>1
    <2>3. element_' \notin Known /\ element_' \in Values
      BY <1>1, <2>2, KnownFacts DEF Values
    <2> QED
      BY <1>2, <2>3 DEF Placed
  <1>8. /\ new \in Seq(CollectionNodes')
        /\ \A i \in 1 .. Len(new) : new[i][1] \notin Known
        /\ \A i, j \in 1 .. Len(new) : new[i] = new[j] => i = j
    BY <1>3, CollectionTriplesNew
  <1> HIDE DEF new
  <1>9. /\ Len(parsed') = m + Len(new) /\ m \in Nat
        /\ \A i \in 1 .. m : parsed'[i] = parsed[i] /\ i \in 1 .. Len(parsed')
        /\ \A k \in 1 .. Len(new) : parsed'[m + k] = new[k]
        /\ \A i \in 1 .. Len(parsed') : i \in 1 .. m \/ \E k \in 1 .. Len(new) : i = m + k
    <2>1. parsed \in Seq(All') /\ new \in Seq(All')
      <3>1. CollectionNodes' \subseteq All'
        OBVIOUS
      <3> QED
        BY <1>3, <1>4, <1>8, <3>1, SequencesKept, SequencesGrow
    <2> HIDE DEF All
    <2> QED
      BY <1>1, <2>1, Concatenated
  <1>10. \A i \in 1 .. m : parsed[i] \in All /\ parsed[i][1] \in Known
    <2>1. \A x \in All : x[1] \in Known
      BY DEF StatedTriples, CollectionNodes, Known
    <2> QED
      BY <1>3, <2>1
  <1>11. ASSUME NEW i \in 1 .. Len(parsed'), parsed'[i] \in StatedTriples'
         PROVE  O[parsed'[i][3]] = Place("triple", i, 0)
    <2>1. i \in 1 .. m
      <3>1. SUFFICES ASSUME NEW k \in 1 .. Len(new), i = m + k
                     PROVE  FALSE
        BY <1>9
      <3>2. new[k] \in CollectionNodes'
        BY <1>8
      <3>3. parsed'[i] \in All'
        BY <1>11
      <3> QED
        BY <1>9, <1>11, <3>1, <3>2, NewKind
    <2>2. parsed[i] \in StatedTriples
      BY <1>9, <1>10, <1>11, <2>1, SameKind
    <2> QED
      BY <1>2, <1>9, <2>1, <2>2 DEF Placed
  <1>12. ASSUME NEW i \in 1 .. Len(parsed'), NEW j \in 1 .. Len(parsed'), parsed'[i] = parsed'[j],
                parsed'[i] \in CollectionNodes'
         PROVE  i = j
    <2>1. CASE i \in 1 .. m /\ j \in 1 .. m
      <3>1. parsed[i] \in CollectionNodes
        BY <1>9, <1>10, <1>12, <2>1, SameKind
      <3> QED
        BY <1>9, <1>12, <2>1, <3>1 DEF OnceInv
    <2>2. ASSUME NEW x \in 1 .. m, NEW k \in 1 .. Len(new)
          PROVE  parsed'[x] # parsed'[m + k]
      <3>1. parsed'[x] = parsed[x] /\ parsed'[m + k] = new[k]
        BY <1>9
      <3>2. parsed[x][1] \in Known /\ new[k][1] \notin Known
        BY <1>8, <1>10
      <3> QED
        BY <3>1, <3>2
    <2>3. ASSUME NEW a \in 1 .. Len(new), NEW b \in 1 .. Len(new), i = m + a, j = m + b
          PROVE  i = j
      <3>1. parsed'[i] = new[a] /\ parsed'[j] = new[b]
        BY <1>9, <2>3
      <3>2. a = b
        BY <1>8, <1>12, <3>1
      <3> QED
        BY <2>3, <3>2
    <2>4. /\ i \in 1 .. m \/ \E k \in 1 .. Len(new) : i = m + k
          /\ j \in 1 .. m \/ \E k \in 1 .. Len(new) : j = m + k
      BY <1>9
    <2> HIDE DEF m
    <2> QED
      BY <1>12, <2>1, <2>2, <2>3, <2>4
  <1>13. Known \subseteq Known'
    BY <1>4, KnownGrows DEF TypeInv
  <1> QED
    BY <1>2, <1>5, <1>6, <1>7, <1>11, <1>12, <1>13 DEF OnceInv, Placed

LEMMA OnceStep ==
  ASSUME TypeInv, TypeInv', NEW s \in Shapes, NEW t \in Shapes, Fits(s), KnownInv(s), OnceInv(s),
         NEW rule, Matched(rule), Move(rule, s, t), rule \notin DOMAIN Alternatives, Next, ~MatchRule
  PROVE  OnceInv(t)'
PROOF
  <1>1. KnownInv(t)'
    BY KnownStep
  <1>2. CASE ReadTerm \/ BeginStatement \/ setSubject \/ processVerb
               \/ moveBnpl_collection_listIntoStack \/ clearTripleParameters
    BY <1>2, OncePlainStep
  <1>3. CASE pushCurrentTermIntoBnpl_collection_list
    <2>1. rule = "pushCurrentTerm"
      BY <1>3 DEF pushCurrentTermIntoBnpl_collection_list, Matched
    <2> QED
      BY <1>3, <2>1, OnceObjectStep
  <1>4. CASE processPredicateObjectListInner
    <2>1. rule = "processPredicateObjectListInner"
      BY <1>4 DEF processPredicateObjectListInner, Matched
    <2> QED
      BY <1>4, <2>1, OncePairsStep
  <1>5. CASE processCollection
    <2>1. rule = "processCollection"
      BY <1>5 DEF processCollection, Matched
    <2> QED
      BY <1>1, <1>5, <2>1, OnceCollectionStep
  <1>6. CASE processBlankNodePropertyList
    <2>1. rule = "processBlankNodePropertyList"
      BY <1>6 DEF processBlankNodePropertyList, Matched
    <2> QED
      BY <1>6, <2>1, OnceListStep
  <1>7. CASE processTripleSeq
    BY <1>7, OnceStatementStep
  <1>8. ~Done
    BY DEF Done, Matched
  <1> QED
    BY <1>2, <1>3, <1>4, <1>5, <1>6, <1>7, <1>8 DEF Next

(* What a step of the grammar and a stutter leave alone.                    *)
LEMMA StillStep ==
  ASSUME NEW s, NEW t, Still(s, t)
  PROVE  /\ t = s
         /\ UNCHANGED <<terms, lists, latest_BN_label, element_, subject_, verb_stack,
                        verb_stack_one_step_pre_size, bnpl_collection_list,
                        bnpl_collection_list_stack, verb_object_pair_list,
                        verb_object_pair_list_stack, first_BNPL, parsed, denoted, contexts, meaning>>
PROOF
  BY DEF Still, MatchRule, vars, docVars, verbVars, listVars, pairVars, meaningVars

LEMMA OnceStill ==
  ASSUME NEW s, NEW t, Still(s, t), KnownInv(s), OnceInv(s)
  PROVE  KnownInv(t)' /\ OnceInv(t)'
PROOF
  <1>1. /\ t = s
        /\ UNCHANGED <<terms, latest_BN_label, element_, subject_, verb_stack, first_BNPL, parsed,
                       bnpl_collection_list, bnpl_collection_list_stack, verb_object_pair_list,
                       verb_object_pair_list_stack>>
    BY StillStep
  <1>2. UNCHANGED <<TermsRead, NodesMade>>
    BY <1>1 DEF TermsRead, NodesMade
  <1>3. UNCHANGED <<Known, KnownPairs, StatedTriples, CollectionNodes, Lists, PairLists>>
    BY <1>1, <1>2 DEF Known, KnownPairs, StatedTriples, CollectionNodes, Lists, PairLists
  <1>4. KnownInv(t)'
    BY <1>1, <1>2, <1>3 DEF KnownInv
  <1>5. OnceInv(t)'
    BY <1>1, <1>3 DEF OnceInv, Placed
  <1> QED
    BY <1>4, <1>5

LEMMA InitOnce ==
  ASSUME Init
  PROVE  KnownInv(Nothing) /\ OnceInv(Nothing)
PROOF
  <1>1. /\ bnpl_collection_list = <<>> /\ bnpl_collection_list_stack = <<>> /\ verb_stack = <<>>
        /\ verb_object_pair_list = <<>> /\ verb_object_pair_list_stack = <<>> /\ parsed = <<>>
    BY DEF Init
  <1>2. Nothing.held = "none" /\ Nothing.seq = 0
    BY ShapeFields DEF Nothing
  <1>3. \A S : <<>> \in Seq(S)
    OBVIOUS
  <1>4. KnownInv(Nothing)
    BY <1>1, <1>2, <1>3 DEF KnownInv
  <1>5. OnceInv(Nothing)
    <2> DEFINE O == [x \in Values |-> Free]
    <2>1. /\ Lists = Pushed(<<>>, <<>>) /\ PairLists = Pushed(<<>>, <<>>)
      BY <1>1 DEF Lists, PairLists
    <2>2. \A kind : InPlaces(O, kind, Pushed(<<>>, <<>>))
      <3>1. \A kind : InPlaces(O, kind, <<>>)
        BY DEF InPlaces
      <3>2. <<>> \in Seq(Seq(Values))
        BY <1>3
      <3> QED
        BY <3>1, <3>2, EmptyInPlaces
    <2>3. \A x \in Values : O[x] = Free
      OBVIOUS
    <2>4. \A i \in 1 .. Len(parsed) : FALSE
      BY <1>1
    <2> HIDE DEF O
    <2>5. Placed(O, Nothing)
      BY <1>2, <2>1, <2>2, <2>3, <2>4 DEF Placed
    <2> QED
      BY <2>4, <2>5 DEF OnceInv
  <1> QED
    BY <1>4, <1>5

TriplesInv ==
  /\ TypeInv /\ VerbInv
  /\ \E s \in Shapes : Ahead(s) /\ Fits(s) /\ KnownInv(s) /\ OnceInv(s)

(* State gives insertTriple no triple twice, whatever the document and      *)
(* however many lists a verb has: an object goes from element_ to a list,   *)
(* with its verb to a list of pairs, and from there to one triple, and the  *)
(* nodes of a collection are new.                                           *)
THEOREM NoTripleTwice == Spec => []EachTripleOnce
PROOF
  <1>1. Init => TriplesInv
    BY InitStack, InitOnce DEF TriplesInv
  <1>2. TriplesInv /\ [Next]_vars => TriplesInv'
    <2>1. SUFFICES ASSUME TriplesInv, [Next]_vars
                   PROVE  TriplesInv'
      OBVIOUS
    <2>2. PICK s \in Shapes : Ahead(s) /\ Fits(s) /\ KnownInv(s) /\ OnceInv(s)
      BY <2>1 DEF TriplesInv
    <2>3. /\ TypeInv' /\ VerbInv' /\ TypeInv
          /\ \E t \in Shapes : Ahead(t)' /\ Fits(t)' /\ (Still(s, t) \/ Acted(s, t))
      BY <2>1, <2>2, ShapeStep DEF TriplesInv
    <2>4. PICK t \in Shapes : Ahead(t)' /\ Fits(t)' /\ (Still(s, t) \/ Acted(s, t))
      BY <2>3
    <2>5. KnownInv(t)' /\ OnceInv(t)'
      <3>1. CASE Still(s, t)
        BY <2>2, <3>1, OnceStill
      <3>2. CASE Acted(s, t)
        BY <2>2, <2>3, <3>2, KnownStep, OnceStep DEF Acted
      <3> QED
        BY <2>4, <3>1, <3>2
    <2> QED
      BY <2>3, <2>4, <2>5 DEF TriplesInv
  <1>3. TriplesInv => EachTripleOnce
    BY OnceIsEnough DEF TriplesInv
  <1> QED
    BY <1>1, <1>2, <1>3, PTL DEF Spec

-----------------------------------------------------------------------------
(* With no more than one list among the objects of a verb, the pairs of a   *)
(* subject are put aside when a verb is read inside its brackets, and at no  *)
(* other time.  With two, the test in processVerb misses the second: then    *)
(* the triples are not those that the document means.                       *)

OneListPerVerb == MaxListsPerVerb <= 1

Opening == {"blankNodePropertyList", "blankNodePropertyListBegin"}

(* A list is opened only by the next rule, and only where one may be.       *)
OpensNext(sequence) == \A i \in 2 .. Len(sequence) : sequence[i] \notin Opening

OpeningInv ==
  /\ OpensNext(rules)
  /\ rules # <<>> /\ Head(rules) \in Opening /\ lists # <<>> => Head(lists) < MaxListsPerVerb

CountInv(shape) ==
  /\ lists \in Seq(Nat)
  /\ Len(lists) = Len(verb_stack)
  /\ Len(verb_object_pair_list_stack) = Before(Depth(shape))
  /\ InnerIs(shape, {"list"}) /\ Depth(shape) > 0 => verb_stack_one_step_pre_size = Depth(shape) - 1
  /\ InnerIs(shape, {"shut"}) => verb_stack_one_step_pre_size >= Len(verb_stack)
  /\ InnerIs(shape, {"list", "shut"}) /\ lists # <<>> => Head(lists) >= 1
  /\ lists # <<>> /\ Head(lists) = 0 => verb_stack_one_step_pre_size = Len(verb_stack) - 1
  /\ \A i \in 1 .. Len(lists) - 1 : At(lists, i) >= 1

LEMMA AlternativeOpens ==
  ASSUME NEW rule \in DOMAIN Alternatives, NEW alternative \in Alternatives[rule]
  PROVE  OpensNext(alternative)
PROOF
  <1> DEFINE closing == <<"collectionBegin">> \o Items \o <<"processCollection">>
             names == {"moreStatements", "tripleSeq1", "tripleSeq2", "clearTripleParameters",
                       "predicateObjectList", "processTripleSeq", "processTripleSeq2", "setSubject",
                       "moreVerbs", "processVerb", "objectList", "processPredicateObjectListInner",
                       "moreObjects", "items", "pushCurrentTerm", "processBlankNodePropertyList"}
  <1>1. \/ alternative = <<>>
        \/ alternative = <<"statement", "moreStatements">>
        \/ alternative = <<"beginStatement", "tripleSeq1", "clearTripleParameters">>
        \/ alternative = <<"beginStatement", "tripleSeq2", "clearTripleParameters">>
        \/ alternative = <<"subject", "predicateObjectList", "processTripleSeq">>
        \/ alternative = <<"blankNodePropertyList", "processTripleSeq2">>
        \/ alternative = <<"blankNodePropertyList", "predicateObjectList", "processTripleSeq2">>
        \/ alternative = <<"term", "setSubject">>
        \/ alternative = <<"collection", "setSubject">>
        \/ alternative = <<"predicateObjectListInner", "moreVerbs">>
        \/ alternative = <<"term", "processVerb", "objectList", "processPredicateObjectListInner">>
        \/ alternative = <<"object", "moreObjects">>
        \/ alternative = <<"object", "items">>
        \/ alternative = <<"term", "pushCurrentTerm">>
        \/ alternative = <<"collection", "pushCurrentTerm">>
        \/ alternative = <<"blankNodePropertyList", "pushCurrentTerm">>
        \/ alternative = <<"blankNodePropertyListBegin", "predicateObjectList",
                           "processBlankNodePropertyList">>
        \/ alternative = closing
    BY DEF Alternatives
  <1>2. closing \in Seq(RuleNames \ Opening)
    <2>1. {"collectionBegin", "processCollection", "object", "items"} \subseteq RuleNames \ Opening
      BY DEF RuleNames, Opening
    <2> DEFINE R == RuleNames \ Opening
    <2> HIDE DEF R
    <2>2. <<"items">> \in Seq(R) /\ <<"object", "items">> \in Seq(R)
      BY <2>1 DEF R
    <2>3. /\ <<"collectionBegin">> \in Seq(R) /\ <<"processCollection">> \in Seq(R)
          /\ Items \in Seq(R)
      BY <2>1, <2>2 DEF R, Items
    <2>4. closing \in Seq(R)
      BY <2>3
    <2> QED
      BY <2>4 DEF R
  <1> HIDE DEF closing
  <1>3. closing \in Seq(RuleNames \ Opening) => OpensNext(closing)
    BY DEF OpensNext
  <1>4. OpensNext(<<>>)
    BY DEF OpensNext
  <1>5. \A a, b : b \notin Opening => OpensNext(<<a, b>>)
    BY DEF OpensNext
  <1>6. \A a, b, c : b \notin Opening /\ c \notin Opening => OpensNext(<<a, b, c>>)
    BY DEF OpensNext
  <1>7. \A a, b, c, d : b \notin Opening /\ c \notin Opening /\ d \notin Opening
                       => OpensNext(<<a, b, c, d>>)
    BY DEF OpensNext
  <1>8. \A x \in names : x \notin Opening
    BY DEF Opening
  <1>9. /\ OpensNext(<<"statement", "moreStatements">>)
        /\ OpensNext(<<"blankNodePropertyList", "processTripleSeq2">>)
        /\ OpensNext(<<"term", "setSubject">>) /\ OpensNext(<<"collection", "setSubject">>)
        /\ OpensNext(<<"predicateObjectListInner", "moreVerbs">>)
        /\ OpensNext(<<"object", "moreObjects">>) /\ OpensNext(<<"object", "items">>)
        /\ OpensNext(<<"term", "pushCurrentTerm">>) /\ OpensNext(<<"collection", "pushCurrentTerm">>)
        /\ OpensNext(<<"blankNodePropertyList", "pushCurrentTerm">>)
    BY <1>5, <1>8
  <1>10. /\ OpensNext(<<"beginStatement", "tripleSeq1", "clearTripleParameters">>)
         /\ OpensNext(<<"beginStatement", "tripleSeq2", "clearTripleParameters">>)
         /\ OpensNext(<<"subject", "predicateObjectList", "processTripleSeq">>)
         /\ OpensNext(<<"blankNodePropertyList", "predicateObjectList", "processTripleSeq2">>)
         /\ OpensNext(<<"blankNodePropertyListBegin", "predicateObjectList",
                        "processBlankNodePropertyList">>)
         /\ OpensNext(<<"term", "processVerb", "objectList", "processPredicateObjectListInner">>)
    BY <1>6, <1>7, <1>8
  <1> QED
    BY <1>1, <1>2, <1>3, <1>4, <1>9, <1>10

LEMMA BeginsList ==
  ASSUME NEW rule \in DOMAIN Alternatives, NEW alternative \in Alternatives[rule], alternative # <<>>,
         Head(alternative) = "blankNodePropertyListBegin"
  PROVE  rule = "blankNodePropertyList"
PROOF
  <1>1. CASE rule \in {"turtleDoc", "triplesBlock", "moreStatements", "statement", "tripleSeq1",
                       "tripleSeq2", "subject"}
    BY <1>1 DEF Alternatives
  <1>2. CASE rule \in {"predicateObjectList", "moreVerbs", "predicateObjectListInner",
                       "objectList", "moreObjects", "object", "items"}
    BY <1>2 DEF Alternatives
  <1>3. CASE rule = "collection"
    <2> DEFINE all == <<"collectionBegin">> \o Items
    <2>1. /\ Len(<<"collectionBegin">>) = 1 /\ <<"collectionBegin">>[1] = "collectionBegin"
          /\ <<"collectionBegin">> \in Seq(RuleNames) /\ Items \in Seq(RuleNames)
          /\ <<"processCollection">> \in Seq(RuleNames)
      BY CollectionRules
    <2>2. Len(all) = 1 + Len(Items) /\ all[1] = "collectionBegin" /\ all \in Seq(RuleNames)
          /\ Len(Items) \in Nat
      BY <2>1, Concatenated
    <2> HIDE DEF all
    <2>3. (all \o <<"processCollection">>)[1] = "collectionBegin"
      BY <2>1, <2>2, Concatenated
    <2>4. alternative = all \o <<"processCollection">>
      BY <1>3 DEF Alternatives, all
    <2>5. alternative \in Seq(RuleNames)
      BY AlternativeType
    <2>6. Head(alternative) = alternative[1]
      BY <2>5
    <2> QED
      BY <2>3, <2>4, <2>6
  <1> QED
    BY <1>1, <1>2, <1>3 DEF Alternatives

LEMMA TailOpens ==
  ASSUME NEW sequence \in Seq(RuleNames), sequence # <<>>, OpensNext(sequence)
  PROVE  /\ \A i \in 1 .. Len(Tail(sequence)) : Tail(sequence)[i] \notin Opening
         /\ Tail(sequence) \in Seq(RuleNames) /\ OpensNext(Tail(sequence))
         /\ Tail(sequence) # <<>> => Head(Tail(sequence)) \notin Opening
PROOF
  <1>1. /\ Tail(sequence) \in Seq(RuleNames) /\ Len(Tail(sequence)) = Len(sequence) - 1
        /\ \A i \in 1 .. Len(Tail(sequence)) : Tail(sequence)[i] = sequence[i + 1]
    OBVIOUS
  <1>2. \A i \in 1 .. Len(Tail(sequence)) : Tail(sequence)[i] \notin Opening
    BY <1>1 DEF OpensNext
  <1> DEFINE tail == Tail(sequence)
  <1> HIDE DEF tail
  <1>3. tail # <<>> => Head(tail) = tail[1] /\ 1 \in 1 .. Len(tail)
    BY <1>1 DEF tail
  <1> QED
    BY <1>1, <1>2, <1>3 DEF OpensNext, tail

(* A step of the grammar opens a list where the bounds let it.              *)
LEMMA OpeningStill ==
  ASSUME TypeInv, OpeningInv, MatchRule
  PROVE  OpeningInv'
PROOF
  <1>1. /\ rules # <<>> /\ rules \in Seq(RuleNames) /\ Head(rules) \in DOMAIN Alternatives
        /\ UNCHANGED lists
    BY DEF MatchRule, TypeInv, docVars
  <1>2. PICK alternative \in Alternatives[Head(rules)] :
          WithinBounds(Head(rules), alternative) /\ rules' = alternative \o Tail(rules)
    BY DEF MatchRule
  <1>3. OpensNext(alternative) /\ alternative \in Seq(RuleNames)
    BY <1>1, AlternativeOpens, AlternativeType
  <1> DEFINE tail == Tail(rules)
  <1>4. /\ tail \in Seq(RuleNames) /\ \A i \in 1 .. Len(tail) : tail[i] \notin Opening
        /\ tail # <<>> => Head(tail) \notin Opening
        /\ OpensNext(tail)
    BY <1>1, TailOpens DEF OpeningInv
  <1> HIDE DEF tail
  <1>5. rules' = alternative \o tail
    BY <1>2 DEF tail
  <1>6. CASE alternative = <<>>
    <2>1. rules' = tail
      BY <1>4, <1>5, <1>6
    <2> QED
      BY <1>4, <2>1 DEF OpeningInv
  <1>7. CASE alternative # <<>>
    <2>1. /\ Head(rules') = Head(alternative)
          /\ Len(rules') = Len(alternative) + Len(tail) /\ Len(alternative) \in Nat /\ Len(tail) \in Nat
          /\ \A i \in 1 .. Len(alternative) : rules'[i] = alternative[i]
          /\ \A i \in 1 .. Len(tail) : rules'[Len(alternative) + i] = tail[i]
          /\ \A i \in 1 .. Len(rules') : i \in 1 .. Len(alternative)
                                          \/ \E k \in 1 .. Len(tail) : i = Len(alternative) + k
      <3>1. /\ Len(rules') = Len(alternative) + Len(tail) /\ Len(alternative) \in Nat
            /\ Len(tail) \in Nat /\ rules' \in Seq(RuleNames)
            /\ \A i \in 1 .. Len(alternative) : rules'[i] = alternative[i]
            /\ \A i \in 1 .. Len(tail) : rules'[Len(alternative) + i] = tail[i]
            /\ \A i \in 1 .. Len(rules') : i \in 1 .. Len(alternative)
                                            \/ \E k \in 1 .. Len(tail) : i = Len(alternative) + k
        BY <1>3, <1>4, <1>5, Concatenated
      <3>2. Len(alternative) > 0
        BY <1>3, <1>7
      <3>3. rules' # <<>> /\ Head(rules') = rules'[1] /\ Head(alternative) = alternative[1]
        BY <1>3, <1>7, <3>1, <3>2
      <3>4. 1 \in 1 .. Len(alternative)
        BY <3>1, <3>2
      <3> QED
        BY <3>1, <3>3, <3>4
    <2>2. OpensNext(rules')
      <3>1. SUFFICES ASSUME NEW i \in 2 .. Len(rules')
                     PROVE  rules'[i] \notin Opening
        BY DEF OpensNext
      <3>2. i \in 1 .. Len(rules') /\ (i \in 1 .. Len(alternative) => i \in 2 .. Len(alternative))
        BY <2>1
      <3>3. CASE i \in 1 .. Len(alternative)
        BY <1>3, <2>1, <3>2, <3>3 DEF OpensNext
      <3>4. CASE \E k \in 1 .. Len(tail) : i = Len(alternative) + k
        BY <1>4, <2>1, <3>4
      <3> QED
        BY <2>1, <3>2, <3>3, <3>4
    <2>3. Head(alternative) \in Opening /\ lists # <<>> => Head(lists) < MaxListsPerVerb
      <3>1. CASE Head(alternative) = "blankNodePropertyList"
        BY <1>2, <1>7, <3>1 DEF WithinBounds, MayOpenList
      <3>2. CASE Head(alternative) = "blankNodePropertyListBegin"
        <4>1. Head(rules) = "blankNodePropertyList"
          BY <1>1, <1>3, <1>7, <3>2, BeginsList
        <4> QED
          BY <1>1, <4>1 DEF OpeningInv, Opening
      <3> QED
        BY <3>1, <3>2 DEF Opening
    <2> QED
      BY <1>1, <2>1, <2>2, <2>3 DEF OpeningInv
  <1> QED
    BY <1>6, <1>7

LEMMA OpeningStep ==
  ASSUME TypeInv, OpeningInv, NEW rule, Matched(rule)
  PROVE  OpeningInv'
PROOF
  <1>1. rules \in Seq(RuleNames) /\ rules # <<>> /\ OpensNext(rules) /\ rules' = Tail(rules)
    BY DEF Matched, OpeningInv, TypeInv
  <1>2. OpensNext(Tail(rules)) /\ (Tail(rules) # <<>> => Head(Tail(rules)) \notin Opening)
    BY <1>1, TailOpens
  <1> QED
    BY <1>1, <1>2 DEF OpeningInv

(* Where a move leaves a frame before or after a verb.                      *)
LEMMA PlainFrames ==
  ASSUME NEW rule \in PlainRules, NEW s \in Shapes, NEW t \in Shapes, Move(rule, s, t)
  PROVE  InnerIs(t, {"list", "shut"}) => t.frames = s.frames
PROOF
  <1>1. CASE rule \in {"term", "pushCurrentTerm"}
    BY <1>1, VerbMoves, ObjectMoves, ShapeFields DEF Holding
  <1>2. CASE rule = "beginStatement"
    BY <1>2, StatementMoves, StatementFrames, ShapeFields DEF InnerIs
  <1>3. CASE rule = "setSubject"
    BY <1>3, StatementMoves, StatementFrames, ShapeFields DEF InnerIs
  <1>4. CASE rule \in {"processTripleSeq", "processTripleSeq2"}
    BY <1>4, StatementMoves, StatementFrames, ShapeFields DEF InnerIs
  <1>5. CASE rule = "clearTripleParameters"
    BY <1>5, StatementMoves, ShapeFields DEF InnerIs, Nothing
  <1> QED
    BY <1>1, <1>2, <1>3, <1>4, <1>5 DEF PlainRules

(* The action changes neither the numbers of lists nor the depths that the  *)
(* test in processVerb compares.                                            *)
LEMMA CountKept ==
  ASSUME NEW s, NEW t, CountInv(s), UNCHANGED <<lists, verb_stack, verb_stack_one_step_pre_size>>,
         Len(verb_object_pair_list_stack') = Before(Depth(t)),
         InnerIs(t, {"list", "shut"}) => t.frames = s.frames
  PROVE  CountInv(t)'
PROOF
  <1>1. InnerIs(t, {"list", "shut"}) => /\ Depth(t) = Depth(s)
                                        /\ \A kinds : InnerIs(t, kinds) <=> InnerIs(s, kinds)
    BY DEF Depth, InnerIs
  <1>2. /\ InnerIs(t, {"list"}) => InnerIs(t, {"list", "shut"})
        /\ InnerIs(t, {"shut"}) => InnerIs(t, {"list", "shut"})
    BY DEF InnerIs
  <1> QED
    BY <1>1, <1>2 DEF CountInv

LEMMA CountPlainStep ==
  ASSUME TypeInv, NEW s \in Shapes, NEW t \in Shapes, Fits(s), CountInv(s),
         NEW rule, Matched(rule), Move(rule, s, t),
         ReadTerm \/ BeginStatement \/ setSubject \/ pushCurrentTermIntoBnpl_collection_list
           \/ processTripleSeq
  PROVE  CountInv(t)'
PROOF
  <1>1. /\ rule \in {"term", "beginStatement", "setSubject", "pushCurrentTerm", "processTripleSeq",
                    "processTripleSeq2"}
        /\ UNCHANGED <<lists, verb_stack, verb_stack_one_step_pre_size, verb_object_pair_list_stack>>
    BY DEF ReadTerm, BeginStatement, setSubject, pushCurrentTermIntoBnpl_collection_list,
           processTripleSeq, Matched, docVars, verbVars, pairVars
  <1>2. Before(Depth(t)) = Before(Depth(s)) /\ (InnerIs(t, {"list", "shut"}) => t.frames = s.frames)
    BY <1>1, PlainSizes, PlainFrames DEF PlainRules
  <1>3. Len(verb_object_pair_list_stack') = Before(Depth(t))
    BY <1>1, <1>2 DEF CountInv
  <1> QED
    BY <1>1, <1>2, <1>3, CountKept

LEMMA CountClearStep ==
  ASSUME TypeInv, NEW s \in Shapes, NEW t \in Shapes, Fits(s), CountInv(s),
         Move("clearTripleParameters", s, t), clearTripleParameters
  PROVE  CountInv(t)'
PROOF
  <1>1. UNCHANGED <<lists, verb_stack, verb_object_pair_list_stack>>
    BY DEF clearTripleParameters, docVars
  <1>2. s = Shape(Ended, "none", 0) /\ t = Nothing
    BY StatementMoves
  <1>3. Verbs(s) = 0 /\ Depth(s) = 1 /\ Depth(t) = 0 /\ Before(1) = 0 /\ Before(0) = 0
    BY <1>2, StatementSizes DEF Before
  <1>4. lists = <<>> /\ Len(verb_object_pair_list_stack') = Before(Depth(t))
    BY <1>1, <1>3 DEF CountInv, Fits
  <1>5. ~InnerIs(t, {"list", "shut"}) /\ ~InnerIs(t, {"list"}) /\ ~InnerIs(t, {"shut"})
    BY <1>2, ShapeFields DEF InnerIs, Nothing
  <1>6. Len(<<>>) = 0 /\ \A i \in 1 .. 0 - 1 : FALSE
    OBVIOUS
  <1> QED
    BY <1>1, <1>4, <1>5, <1>6 DEF CountInv

(* The bottom of WellFormed, read for a frame at the top.                   *)
LEMMA VerbDepths ==
  ASSUME NEW s \in Shapes, AtVerb(s), WellFormed(s.frames)
  PROVE  /\ InnerIs(s, {"subject"}) => Depth(s) = 0 /\ Verbs(s) = 0
         /\ InnerIs(s, {"list"}) => Verbs(s) = Depth(s)
         /\ InnerIs(s, {"shut"}) => Verbs(s) = Depth(s) - 1 /\ Depth(s) > 0
         /\ Depth(s) \in Nat /\ Verbs(s) \in Nat
         /\ Depth(WithVerb(s, "open")) = Verbs(s) + 1
PROOF
  <1>1. Depth(s) \in Nat /\ Verbs(s) \in Nat /\ (InnerIs(s, {"shut"}) => Depth(s) > 0)
    <2>1. Depth(s) \in Nat /\ Verbs(s) \in Nat /\ (InnerIs(s, {"shut", "open", "end"}) => Depth(s) > 0)
      BY DepthFacts
    <2> QED
      BY <2>1 DEF InnerIs
  <1>2. Depth(WithVerb(s, "open")) = Verbs(s) + 1
    BY VerbSizes
  <1>3. s.frames # <<>> /\ s.frames \in Seq(Frames)
    BY ShapeFields DEF AtVerb, InnerIs
  <1>4. FitsOn(Head(s.frames), Tail(s.frames))
    BY <1>3, WellFormedTop
  <1>5. InnerIs(s, {"subject"}) => Depth(s) = 0
    <2>1. Head(s.frames) \in Frames /\ Tail(s.frames) \in Seq(Frames)
      BY <1>3, AtTail
    <2>2. SUFFICES ASSUME Head(s.frames).kind = "subject"
                   PROVE  Head(s.frames).depth = 0
      BY <1>3 DEF Depth, InnerDepth, InnerIs
    <2>3. Tail(s.frames) = <<>>
      BY <1>4, <2>2 DEF FitsOn
    <2>4. DepthOver(Head(s.frames), 0)
      BY <1>4, <2>3 DEF FitsOn, InnerDepth
    <2> QED
      BY <2>2, <2>4 DEF DepthOver, Verbal
  <1> QED
    BY <1>1, <1>2, <1>5 DEF Verbs, InnerIs

(* The test in processVerb tells whether the verb is the first of a list    *)
(* among the objects of another.                                            *)
LEMMA OpensListInside ==
  ASSUME TypeInv, NEW s \in Shapes, AtVerb(s), Fits(s), CountInv(s)
  PROVE  OpensList <=> InnerIs(s, {"list"}) /\ Depth(s) > 0
PROOF
  <1> DEFINE d == Depth(s)
             one == verb_stack_one_step_pre_size
             verbs == Len(verb_stack)
  <1>1. /\ InnerIs(s, {"subject"}) => d = 0 /\ verbs = 0
        /\ InnerIs(s, {"list"}) => verbs = d
        /\ d \in Nat /\ verbs \in Nat /\ one \in Nat
    BY VerbDepths DEF Fits, TypeInv
  <1>2. /\ InnerIs(s, {"list"}) /\ d > 0 => one = d - 1
        /\ InnerIs(s, {"shut"}) => one >= verbs
    BY DEF CountInv
  <1>3. /\ InnerIs(s, {"subject"}) \/ InnerIs(s, {"list"}) \/ InnerIs(s, {"shut"})
        /\ ~(InnerIs(s, {"subject"}) /\ InnerIs(s, {"list"}))
        /\ ~(InnerIs(s, {"shut"}) /\ InnerIs(s, {"list"}))
    BY DEF AtVerb, InnerIs
  <1>4. OpensList <=> verbs + 1 = one + 2
    BY DEF OpensList
  <1> HIDE DEF d, one, verbs
  <1>5. OpensList <=> InnerIs(s, {"list"}) /\ d > 0
    BY <1>1, <1>2, <1>3, <1>4
  <1> QED
    BY <1>5 DEF d

LEMMA CountVerbStep ==
  ASSUME TypeInv, NEW s \in Shapes, NEW t \in Shapes, Fits(s), CountInv(s),
         Move("processVerb", s, t), processVerb
  PROVE  CountInv(t)'
PROOF
  <1> DEFINE pairStack == verb_object_pair_list_stack
  <1>1. /\ verb_stack_one_step_pre_size' = Len(verb_stack)
        /\ verb_stack' = Pushed(element_, verb_stack) /\ lists' = Pushed(0, lists)
        /\ OpensList => pairStack' = Pushed(verb_object_pair_list, pairStack)
        /\ ~OpensList => UNCHANGED pairStack
    BY DEF processVerb, pairVars
  <1>2. AtVerb(s) /\ t = WithVerb(s, "open")
    BY VerbMoves
  <1>3. Depth(t) = Verbs(s) + 1 /\ InnerIs(t, {"open"})
    BY <1>2, VerbDepths, WithVerbFacts DEF Fits, InnerIs, AtVerb
  <1>4. lists \in Seq(Nat) /\ Len(lists) = Len(verb_stack) /\ Len(verb_stack) = Verbs(s)
        /\ Len(lists) \in Nat /\ verb_stack \in Seq(Values) /\ element_ \in Values
    BY DEF CountInv, Fits, TypeInv
  <1>5. /\ lists' \in Seq(Nat) /\ Len(lists') = Len(lists) + 1
        /\ Head(lists') = 0 /\ lists' # <<>>
        /\ \A i \in 1 .. Len(lists) : At(lists', i) = At(lists, i)
        /\ Len(verb_stack') = Len(verb_stack) + 1
    <2>1. 0 \in Nat
      OBVIOUS
    <2>2. /\ Pushed(0, lists) \in Seq(Nat) /\ Len(Pushed(0, lists)) = Len(lists) + 1
          /\ Head(Pushed(0, lists)) = 0 /\ Pushed(0, lists) # <<>>
      BY <1>4, <2>1, PushedOnto
    <2>3. \A i \in 1 .. Len(lists) : At(Pushed(0, lists), i) = At(lists, i)
      BY <1>4, <2>1, AtPushed
    <2>4. Len(Pushed(element_, verb_stack)) = Len(verb_stack) + 1
      BY <1>4, PushedOnto
    <2> QED
      BY <1>1, <2>2, <2>3, <2>4
  <1>6. Len(pairStack') = Before(Depth(t))
    <2>1. Before(Depth(t)) = Verbs(s) /\ Len(pairStack) = Before(Depth(s))
      BY <1>3, <1>4, BeforeFacts DEF CountInv
    <2>2. CASE InnerIs(s, {"list"}) /\ Depth(s) > 0
      <3>1. Verbs(s) = Depth(s) /\ Depth(s) \in Nat
        BY <1>2, <2>2, VerbDepths DEF Fits
      <3>2. Before(Depth(s)) = Depth(s) - 1
        BY <2>2, <3>1, BeforeFacts
      <3>3. Len(pairStack') = Len(pairStack) + 1
        <4>1. OpensList
          BY <1>2, <2>2, OpensListInside
        <4> QED
          BY <1>1, <4>1, PushedOnto DEF TypeInv
      <3> QED
        BY <2>1, <3>1, <3>2, <3>3
    <2>3. CASE ~(InnerIs(s, {"list"}) /\ Depth(s) > 0)
      <3>1. UNCHANGED pairStack
        BY <1>1, <1>2, <2>3, OpensListInside
      <3>2. Before(Depth(s)) = Verbs(s)
        <4>1. /\ Depth(s) \in Nat
              /\ \/ Depth(s) = 0 /\ Verbs(s) = 0
                 \/ Verbs(s) = Depth(s) - 1 /\ Depth(s) > 0
          <5>1. InnerIs(s, {"subject"}) \/ InnerIs(s, {"list"}) \/ InnerIs(s, {"shut"})
            BY <1>2 DEF AtVerb, InnerIs
          <5>2. Depth(s) \in Nat /\ (InnerIs(s, {"subject"}) => Depth(s) = 0 /\ Verbs(s) = 0)
            BY <1>2, VerbDepths DEF Fits
          <5>3. InnerIs(s, {"list"}) => Depth(s) = 0 /\ Verbs(s) = 0
            <6>1. InnerIs(s, {"list"}) => Verbs(s) = Depth(s)
              BY <1>2, VerbDepths DEF Fits
            <6> QED
              BY <2>3, <5>2, <6>1
          <5>4. InnerIs(s, {"shut"}) => Verbs(s) = Depth(s) - 1 /\ Depth(s) > 0
            BY <1>2, VerbDepths DEF Fits
          <5> QED
            BY <5>1, <5>2, <5>3, <5>4
        <4> QED
          BY <4>1 DEF Before
      <3> QED
        BY <2>1, <3>1, <3>2
    <2> QED
      BY <2>2, <2>3
  <1>7. \A i \in 1 .. Len(lists') - 1 : At(lists', i) >= 1
    <2>1. SUFFICES ASSUME NEW i \in 1 .. Len(lists)
                   PROVE  At(lists, i) >= 1
      BY <1>4, <1>5
    <2>2. \A j \in 1 .. Len(lists) - 1 : At(lists, j) >= 1
      BY DEF CountInv
    <2>3. CASE i = Len(lists)
      <3>1. lists # <<>>
        BY <1>4
      <3>2. At(lists, i) = Head(lists)
        BY <1>4, <2>3, <3>1, AtTail
      <3>3. Verbs(s) # 0
        BY <1>4
      <3>4. InnerIs(s, {"list", "shut"})
        <4>1. ~InnerIs(s, {"subject"})
          BY <1>2, <3>3, VerbDepths DEF Fits
        <4> QED
          BY <1>2, <4>1 DEF AtVerb, InnerIs
      <3> QED
        BY <3>1, <3>2, <3>4 DEF CountInv
    <2> QED
      BY <1>4, <2>2, <2>3
  <1>8. ~InnerIs(t, {"list", "shut"}) /\ ~InnerIs(t, {"list"}) /\ ~InnerIs(t, {"shut"})
    BY <1>3 DEF InnerIs
  <1>9. Len(verb_stack') - 1 = Len(verb_stack)
    BY <1>4, <1>5
  <1> QED
    BY <1>1, <1>4, <1>5, <1>6, <1>7, <1>8, <1>9 DEF CountInv

LEMMA CountMoveStep ==
  ASSUME OneListPerVerb, TypeInv, OpeningInv, NEW s \in Shapes, NEW t \in Shapes, Fits(s), CountInv(s),
         NEW rule, Matched(rule), Move(rule, s, t), moveBnpl_collection_listIntoStack
  PROVE  CountInv(t)'
PROOF
  <1>1. UNCHANGED <<verb_stack, verb_stack_one_step_pre_size, verb_object_pair_list_stack>>
    BY DEF moveBnpl_collection_listIntoStack, verbVars, pairVars
  <1>2. CASE rule = "collectionBegin"
    <2>1. UNCHANGED lists
      BY <1>2 DEF moveBnpl_collection_listIntoStack, Matched
    <2>2. AtBracket(s) /\ t = Opened(s, "collection")
      BY <1>2, ObjectMoves
    <2>3. Depth(t) = Depth(s)
      BY <2>2, OpenedSizes
    <2>4. ~InnerIs(t, {"list", "shut"})
      BY <2>2, OpenedFacts DEF InnerIs, AtBracket
    <2>5. Len(verb_object_pair_list_stack') = Before(Depth(t))
      BY <1>1, <2>3 DEF CountInv
    <2> QED
      BY <1>1, <2>1, <2>4, <2>5, CountKept
  <1>3. CASE rule = "blankNodePropertyListBegin"
    <2>1. lists' = IF lists = <<>> THEN <<>> ELSE Pushed(Head(lists) + 1, Tail(lists))
      BY <1>3 DEF moveBnpl_collection_listIntoStack, Matched
    <2>2. AtBracket(s) /\ t = Opened(s, "list")
      BY <1>3, ObjectMoves
    <2>3. Depth(t) = Depth(s) /\ Verbs(s) = Depth(s) /\ Verbs(s) \in Nat
      BY <2>2, OpenedSizes, DepthFacts DEF Fits
    <2>4. InnerIs(t, {"list"}) /\ ~InnerIs(t, {"shut"})
      BY <2>2, OpenedFacts DEF InnerIs, AtBracket
    <2>5. Len(verb_object_pair_list_stack') = Before(Depth(t))
      BY <1>1, <2>3 DEF CountInv
    <2>6. lists \in Seq(Nat) /\ Len(lists) = Len(verb_stack) /\ Len(verb_stack) = Verbs(s)
      BY DEF CountInv, Fits
    <2>7. CASE lists = <<>>
      <3>1. lists' = lists /\ Depth(t) = 0
        BY <2>1, <2>3, <2>6, <2>7
      <3> QED
        BY <1>1, <2>4, <2>5, <2>7, <3>1 DEF CountInv
    <2>8. CASE lists # <<>>
      <3>1. Head(lists) = 0
        <4>1. Head(lists) < MaxListsPerVerb
          BY <1>3, <2>8 DEF OpeningInv, Opening, Matched
        <4>2. Head(lists) \in Nat
          BY <2>6, <2>8
        <4> QED
          BY <4>1, <4>2, BoundsAssumption DEF OneListPerVerb
      <3>2. verb_stack_one_step_pre_size = Len(verb_stack) - 1
        BY <2>8, <3>1 DEF CountInv
      <3> DEFINE tail == Tail(lists)
      <3>3. /\ tail \in Seq(Nat) /\ Len(tail) = Len(lists) - 1 /\ Len(lists) \in Nat
            /\ \A i \in 1 .. Len(lists) - 1 : At(tail, i) = At(lists, i)
        BY <2>6, <2>8, AtTail
      <3>4. lists' = Pushed(1, tail)
        BY <2>1, <2>8, <3>1
      <3> HIDE DEF tail
      <3>5. /\ lists' \in Seq(Nat) /\ Len(lists') = Len(tail) + 1 /\ Head(lists') = 1
            /\ \A i \in 1 .. Len(tail) : At(lists', i) = At(tail, i)
        <4>1. 1 \in Nat
          OBVIOUS
        <4>2. /\ Pushed(1, tail) \in Seq(Nat) /\ Len(Pushed(1, tail)) = Len(tail) + 1
              /\ Head(Pushed(1, tail)) = 1
          BY <3>3, <4>1, PushedOnto
        <4>3. \A i \in 1 .. Len(tail) : At(Pushed(1, tail), i) = At(tail, i)
          BY <3>3, <4>1, AtPushed
        <4> QED
          BY <3>4, <4>2, <4>3
      <3>6. Len(lists') = Len(lists) /\ \A i \in 1 .. Len(lists') - 1 : At(lists', i) = At(lists, i)
        BY <3>3, <3>5
      <3>7. \A i \in 1 .. Len(lists') - 1 : At(lists', i) >= 1
        BY <3>6 DEF CountInv
      <3>8. verb_stack_one_step_pre_size = Depth(t) - 1
        BY <2>3, <2>6, <3>2
      <3> QED
        BY <1>1, <2>4, <2>5, <2>6, <3>5, <3>6, <3>7, <3>8 DEF CountInv
    <2> QED
      BY <2>7, <2>8
  <1> QED
    BY <1>2, <1>3 DEF moveBnpl_collection_listIntoStack, Matched

LEMMA CountPairsStep ==
  ASSUME TypeInv, VerbInv, NEW s \in Shapes, NEW t \in Shapes, Fits(s), CountInv(s),
         Move("processPredicateObjectListInner", s, t), processPredicateObjectListInner
  PROVE  CountInv(t)'
PROOF
  <1>1. /\ verb_stack' = Tail(verb_stack) /\ lists' = Tail(lists)
        /\ UNCHANGED <<verb_stack_one_step_pre_size, verb_object_pair_list_stack>>
    BY DEF processPredicateObjectListInner
  <1>2. /\ InnerIs(s, {"open"}) /\ t = WithVerb(s, "shut")
    BY VerbMoves
  <1>3. Depth(t) = Depth(s) /\ Verbs(s) > 0 /\ InnerIs(t, {"shut"})
    BY <1>2, ShutSizes, WithVerbFacts DEF Fits, InnerIs
  <1>4. lists \in Seq(Nat) /\ Len(lists) = Len(verb_stack) /\ Len(verb_stack) = Verbs(s)
        /\ verb_stack \in Seq(Values) /\ verb_stack_one_step_pre_size \in Nat
    BY DEF CountInv, Fits, TypeInv
  <1>5. lists # <<>> /\ verb_stack # <<>>
    BY <1>3, <1>4
  <1>6. /\ lists' \in Seq(Nat) /\ Len(lists') = Len(lists) - 1 /\ Len(lists) \in Nat
        /\ \A i \in 1 .. Len(lists) - 1 : At(lists', i) = At(lists, i)
        /\ Len(verb_stack') = Len(verb_stack) - 1
    BY <1>1, <1>4, <1>5, AtTail
  <1>7. verb_stack_one_step_pre_size >= Len(verb_stack')
    BY <1>4, <1>6 DEF VerbInv
  <1>8. \A i \in 1 .. Len(lists') : At(lists', i) >= 1
    BY <1>6 DEF CountInv
  <1>9. lists' # <<>> => Head(lists') >= 1
    <2>1. ASSUME lists' # <<>>
          PROVE  At(lists', Len(lists')) = Head(lists') /\ Len(lists') \in Nat \ {0}
      BY <1>6, <2>1, AtTail
    <2> QED
      BY <1>8, <2>1
  <1>10. Len(verb_object_pair_list_stack') = Before(Depth(t))
    BY <1>1, <1>3 DEF CountInv
  <1>11. ~InnerIs(t, {"list"})
    BY <1>3 DEF InnerIs
  <1>12. \A i \in 1 .. Len(lists') - 1 : At(lists', i) >= 1
    BY <1>6, <1>8
  <1> QED
    BY <1>1, <1>4, <1>6, <1>7, <1>9, <1>10, <1>11, <1>12 DEF CountInv

LEMMA CountClosingStep ==
  ASSUME TypeInv, NEW s \in Shapes, NEW t \in Shapes, Fits(s), CountInv(s),
         NEW rule, Matched(rule), Move(rule, s, t), processCollection \/ processBlankNodePropertyList
  PROVE  CountInv(t)'
PROOF
  <1>1. UNCHANGED <<lists, verb_stack, verb_stack_one_step_pre_size>>
    BY DEF processCollection, processBlankNodePropertyList, docVars, verbVars
  <1>2. rule \in {"processCollection", "processBlankNodePropertyList"}
    BY DEF processCollection, processBlankNodePropertyList, Matched
  <1>3. ~InnerIs(t, {"list", "shut"})
    <2>1. Head(Tail(s.frames)).kind \in {"open", "collection", "begun"}
          /\ (t = Shape(Tail(s.frames), "any", s.seq) \/ t = ListClosed(Tail(s.frames), s.seq))
      BY <1>2, ClosingFacts
    <2>2. t.frames = Tail(s.frames) \/ t.frames = Subject
      BY <2>1, ShapeFields DEF ListClosed
    <2>3. Head(t.frames).kind \in {"open", "collection", "begun", "subject"}
      BY <2>1, <2>2, StatementFrames
    <2> QED
      BY <2>3 DEF InnerIs
  <1>4. Len(verb_object_pair_list_stack') = Before(Depth(t))
    <2>1. Len(verb_object_pair_list_stack) = Before(Depth(s))
      BY DEF CountInv
    <2>2. CASE processCollection
      <3>1. rule = "processCollection" /\ UNCHANGED verb_object_pair_list_stack
        BY <2>2 DEF processCollection, Matched, pairVars
      <3>2. Depth(t) = Depth(s)
        <4>1. InnerIs(s, {"collection"}) /\ t = Shape(Tail(s.frames), "any", s.seq)
          BY <3>1, ObjectMoves
        <4> QED
          BY <4>1, ClosedSizes DEF Fits
      <3> QED
        BY <2>1, <3>1, <3>2
    <2>3. CASE processBlankNodePropertyList
      <3>1. /\ rule = "processBlankNodePropertyList"
            /\ verb_object_pair_list_stack' = IF verb_object_pair_list_stack # <<>>
                                                THEN Tail(verb_object_pair_list_stack)
                                                ELSE verb_object_pair_list_stack
        BY <2>3 DEF processBlankNodePropertyList, Matched
      <3>2. Depth(s) = Depth(t) + 1 /\ Depth(t) \in Nat
        <4>1. InnerIs(s, {"shut"}) /\ Len(s.frames) > 1 /\ t = ListClosed(Tail(s.frames), s.seq)
          BY <3>1, ObjectMoves
        <4> QED
          BY <4>1, ListClosedSizes, DepthFacts DEF Fits
      <3>3. Len(verb_object_pair_list_stack) = Depth(t)
        BY <2>1, <3>2, BeforeFacts
      <3>4. CASE verb_object_pair_list_stack # <<>>
        <4>1. Len(verb_object_pair_list_stack') = Depth(t) - 1 /\ Depth(t) # 0
          BY <3>1, <3>3, <3>4, AtTail DEF TypeInv
        <4> QED
          BY <3>2, <4>1 DEF Before
      <3>5. CASE verb_object_pair_list_stack = <<>>
        BY <3>1, <3>3, <3>5 DEF Before
      <3> QED
        BY <3>4, <3>5
    <2> QED
      BY <2>2, <2>3
  <1> QED
    BY <1>1, <1>3, <1>4, CountKept

LEMMA CountStep ==
  ASSUME OneListPerVerb, TypeInv, VerbInv, OpeningInv, NEW s \in Shapes, NEW t \in Shapes,
         Fits(s), CountInv(s), NEW rule, Matched(rule), Move(rule, s, t), Next, ~MatchRule
  PROVE  CountInv(t)'
PROOF
  <1>1. CASE ReadTerm \/ BeginStatement \/ setSubject \/ pushCurrentTermIntoBnpl_collection_list
               \/ processTripleSeq
    BY <1>1, CountPlainStep
  <1>2. CASE clearTripleParameters
    <2>1. rule = "clearTripleParameters"
      BY <1>2 DEF clearTripleParameters, Matched
    <2> QED
      BY <1>2, <2>1, CountClearStep
  <1>3. CASE processVerb
    <2>1. rule = "processVerb"
      BY <1>3 DEF processVerb, Matched
    <2> QED
      BY <1>3, <2>1, CountVerbStep
  <1>4. CASE moveBnpl_collection_listIntoStack
    BY <1>4, CountMoveStep
  <1>5. CASE processPredicateObjectListInner
    <2>1. rule = "processPredicateObjectListInner"
      BY <1>5 DEF processPredicateObjectListInner, Matched
    <2> QED
      BY <1>5, <2>1, CountPairsStep
  <1>6. CASE processCollection \/ processBlankNodePropertyList
    BY <1>6, CountClosingStep
  <1>7. ~Done
    BY DEF Done, Matched
  <1> QED
    BY <1>1, <1>2, <1>3, <1>4, <1>5, <1>6, <1>7 DEF Next

-----------------------------------------------------------------------------
(* What the stacks hold is what the contexts say: the inner list and the    *)
(* lists put aside hold the objects or items of the open contexts, the lists *)
(* of pairs their pairs.  An empty collection, which State describes with a *)
(* node of its own, stands for rdf:nil.                                     *)

Emptied(T) == {t[1] : t \in {u \in T : u[2] = first /\ u[3] = nil}}

Empties == Emptied(Parsed)

Meant(E, x) == IF x \in E THEN nil ELSE x

PairsOf(E, list) == {<<list[k][1], Meant(E, list[k][2])>> : k \in 1 .. Len(list)}

ObjectsOf(E, verb, list) == {<<verb, Meant(E, list[k])>> : k \in 1 .. Len(list)}

ItemsOf(E, list) == [k \in 1 .. Len(list) |-> Meant(E, list[k])]

Meanings == Values \cup {nil}

Contexts == [subject : Meanings, verb : Meanings, pairs : SUBSET (Meanings \X Meanings),
             items : Seq(Meanings)]

Linked(E, frame, context, list, pairs, verb) ==
  /\ frame.kind \in {"begun", "subject", "list", "collection"} =>
       context.verb = None /\ context.pairs = {}
  /\ frame.kind \in {"open", "shut"} =>
       /\ context.verb # None
       /\ context.pairs = PairsOf(E, pairs) \cup ObjectsOf(E, context.verb, list)
  /\ frame.kind = "open" => context.verb = verb
  /\ frame.kind = "collection" => context.items = ItemsOf(E, list)
  /\ frame.kind \notin {"open", "collection"} => list = <<>>

Links(E, frames, C, L, P, V) ==
  \A i \in 1 .. Len(frames) :
    Linked(E, At(frames, i), At(C, i), At(L, i), At(P, At(frames, i).depth), At(V, At(frames, i).depth))

LEMMA LinksPushed ==
  ASSUME NEW frame \in Frames, NEW frames \in Seq(Frames), NEW context \in Contexts,
         NEW C \in Seq(Contexts), NEW S, NEW list \in S, NEW L \in Seq(S),
         Len(C) = Len(frames), Len(L) = Len(frames), NEW E, NEW P, NEW V
  PROVE  Links(E, Pushed(frame, frames), Pushed(context, C), Pushed(list, L), P, V) <=>
           /\ Links(E, frames, C, L, P, V)
           /\ Linked(E, frame, context, list, At(P, frame.depth), At(V, frame.depth))
PROOF
  <1> DEFINE F1 == Pushed(frame, frames)
             C1 == Pushed(context, C)
             L1 == Pushed(list, L)
             n == Len(frames)
  <1>1. /\ Len(F1) = n + 1 /\ n \in Nat
        /\ At(F1, n + 1) = frame /\ \A i \in 1 .. n : At(F1, i) = At(frames, i)
    BY PushedOnto, AtPushed
  <1>2. At(C1, n + 1) = context /\ \A i \in 1 .. n : At(C1, i) = At(C, i)
    BY AtPushed
  <1>3. At(L1, n + 1) = list /\ \A i \in 1 .. n : At(L1, i) = At(L, i)
    BY AtPushed
  <1> HIDE DEF F1, C1, L1, n
  <1> DEFINE A(i) == Linked(E, At(F1, i), At(C1, i), At(L1, i), At(P, At(F1, i).depth),
                            At(V, At(F1, i).depth))
             B(i) == Linked(E, At(frames, i), At(C, i), At(L, i), At(P, At(frames, i).depth),
                            At(V, At(frames, i).depth))
  <1>4. \A i \in 1 .. n : A(i) <=> B(i)
    BY <1>1, <1>2, <1>3
  <1>5. A(n + 1) <=> Linked(E, frame, context, list, At(P, frame.depth), At(V, frame.depth))
    BY <1>1, <1>2, <1>3
  <1>6. Links(E, F1, C1, L1, P, V) <=> \A i \in 1 .. n + 1 : A(i)
    BY <1>1 DEF Links
  <1>7. Links(E, frames, C, L, P, V) <=> \A i \in 1 .. n : B(i)
    BY DEF Links, n
  <1> HIDE DEF A, B
  <1>8. (\A i \in 1 .. n + 1 : A(i)) <=> (\A i \in 1 .. n : A(i)) /\ A(n + 1)
    BY <1>1
  <1> QED
    BY <1>4, <1>5, <1>6, <1>7, <1>8 DEF F1, C1, L1

(* The same when the sets of empty collections and the stacks change where  *)
(* no frame looks.                                                          *)
Agree(D, E) == \A x \in Known : x \in D <=> x \in E

LEMMA LinkedKept ==
  ASSUME NEW E, NEW D, Agree(D, E), NEW frame, NEW context, NEW list \in Seq(Known), NEW pairs,
         frame.kind \in {"open", "shut"} => pairs \in Seq(KnownPairs), NEW verb,
         Linked(E, frame, context, list, pairs, verb)
  PROVE  Linked(D, frame, context, list, pairs, verb)
PROOF
  <1>1. \A x \in Known : Meant(D, x) = Meant(E, x)
    BY DEF Meant, Agree
  <1>2. \A k \in 1 .. Len(list) : Meant(D, list[k]) = Meant(E, list[k])
    BY <1>1
  <1>3. ObjectsOf(D, context.verb, list) = ObjectsOf(E, context.verb, list)
    BY <1>2 DEF ObjectsOf
  <1>4. ItemsOf(D, list) = ItemsOf(E, list)
    BY <1>2 DEF ItemsOf
  <1>5. ASSUME pairs \in Seq(KnownPairs)
        PROVE  PairsOf(D, pairs) = PairsOf(E, pairs)
    <2>1. \A k \in 1 .. Len(pairs) : pairs[k][2] \in Known
      BY <1>5 DEF KnownPairs
    <2>2. \A k \in 1 .. Len(pairs) : Meant(D, pairs[k][2]) = Meant(E, pairs[k][2])
      BY <1>1, <2>1
    <2> QED
      BY <2>2 DEF PairsOf
  <1>6. frame.kind \in {"open", "shut"} => PairsOf(D, pairs) = PairsOf(E, pairs)
    BY <1>5
  <1>7. /\ frame.kind \in {"open", "shut"} =>
             context.pairs = PairsOf(D, pairs) \cup ObjectsOf(D, context.verb, list)
        /\ frame.kind = "collection" => context.items = ItemsOf(D, list)
    BY <1>3, <1>4, <1>6 DEF Linked
  <1> QED
    BY <1>7 DEF Linked

LEMMA LinksKept ==
  ASSUME NEW E, NEW D, Agree(D, E), NEW frames \in Seq(Frames), NEW C,
         NEW L \in Seq(Seq(Known)), Len(L) = Len(frames), NEW P, NEW V, NEW Q, NEW W,
         \A i \in 1 .. Len(frames) :
           /\ At(frames, i).kind \in {"open", "shut"} =>
                /\ At(P, At(frames, i).depth) \in Seq(KnownPairs)
                /\ At(Q, At(frames, i).depth) = At(P, At(frames, i).depth)
           /\ At(frames, i).kind = "open" => At(W, At(frames, i).depth) = At(V, At(frames, i).depth),
         Links(E, frames, C, L, P, V)
  PROVE  Links(D, frames, C, L, Q, W)
PROOF
  <1>1. SUFFICES ASSUME NEW i \in 1 .. Len(frames)
                 PROVE  Linked(D, At(frames, i), At(C, i), At(L, i), At(Q, At(frames, i).depth),
                               At(W, At(frames, i).depth))
    BY DEF Links
  <1> DEFINE f == At(frames, i)
  <1>2. Linked(E, f, At(C, i), At(L, i), At(P, f.depth), At(V, f.depth))
    BY DEF Links
  <1>3. At(L, i) \in Seq(Known)
    <2>1. Len(L) + 1 - i \in 1 .. Len(L)
      OBVIOUS
    <2> QED
      BY <2>1 DEF At
  <1>4. /\ f.kind \in {"open", "shut"} => /\ At(P, f.depth) \in Seq(KnownPairs)
                                         /\ At(Q, f.depth) = At(P, f.depth)
        /\ f.kind = "open" => At(W, f.depth) = At(V, f.depth)
    OBVIOUS
  <1> HIDE DEF f
  <1>5. Linked(D, f, At(C, i), At(L, i), At(P, f.depth), At(V, f.depth))
    BY <1>2, <1>3, <1>4, LinkedKept
  <1>6. Linked(D, f, At(C, i), At(L, i), At(Q, f.depth), At(W, f.depth))
    BY <1>4, <1>5 DEF Linked
  <1> QED
    BY <1>6 DEF f

(* The subject of a statement.                                              *)
SubjectInv(shape) ==
  shape.frames # <<>> =>
    /\ At(shape.frames, 1).kind = "begun" => At(contexts, 1).subject = None /\ shape.seq = 0
    /\ shape.seq = 1 => At(contexts, 1).subject = Meant(Empties, subject_)
    /\ shape.seq = 2 => At(contexts, 1).subject = Meant(Empties, first_BNPL)

LinkInv(shape) ==
  /\ contexts \in Seq(Contexts) /\ denoted \in Meanings
  /\ Len(contexts) = Len(shape.frames)
  /\ Links(Empties, shape.frames, contexts, Lists, PairLists, verb_stack)
  /\ shape.frames = <<>> => bnpl_collection_list = <<>>
  /\ Depth(shape) = 0 => verb_object_pair_list = <<>>
  /\ shape.held # "none" => denoted = Meant(Empties, element_)
  /\ SubjectInv(shape)

LEMMA EmptiesFacts ==
  ASSUME NEW s, KnownInv(s)
  PROVE  Empties \subseteq NodesMade /\ nil \notin Empties
PROOF
  <1>1. \A t \in Parsed : t \in StatedTriples \cup CollectionNodes
    BY DEF KnownInv, Parsed
  <1>2. \A t \in StatedTriples : t[2] # first
    BY ValueFacts DEF StatedTriples, TermsRead
  <1>3. \A t \in CollectionNodes : t[1] \in NodesMade
    BY DEF CollectionNodes
  <1>4. nil \notin NodesMade
    BY ValueFacts DEF NodesMade
  <1> QED
    BY <1>1, <1>2, <1>3, <1>4 DEF Empties, Emptied

(* The innermost frame and what is around it.                               *)
LEMMA TopLinked ==
  ASSUME TypeInv, NEW s \in Shapes, s.frames # <<>>, Fits(s), CountInv(s), LinkInv(s)
  PROVE  /\ contexts # <<>> /\ Inner \in Contexts /\ Outer \in Seq(Contexts)
         /\ contexts = Pushed(Inner, Outer)
         /\ Len(Outer) = Len(Tail(s.frames)) /\ Len(bnpl_collection_list_stack) = Len(Tail(s.frames))
         /\ Links(Empties, Tail(s.frames), Outer, bnpl_collection_list_stack, PairLists, verb_stack)
         /\ Linked(Empties, Head(s.frames), Inner, bnpl_collection_list, At(PairLists, Depth(s)),
                   At(verb_stack, Depth(s)))
         /\ Depth(s) > 0 => At(PairLists, Depth(s)) = verb_object_pair_list
         /\ Head(s.frames).kind = "open" => verb_stack # <<>> /\ Len(verb_stack) = Depth(s)
                                            /\ At(verb_stack, Depth(s)) = Head(verb_stack)
PROOF
  <1> DEFINE n == Len(s.frames)
             f == Head(s.frames)
             r == Tail(s.frames)
  <1>1. /\ s.frames \in Seq(Frames) /\ f \in Frames /\ r \in Seq(Frames) /\ s.frames = Pushed(f, r)
        /\ Len(r) = n - 1 /\ n \in Nat \ {0}
    BY AtTail, ShapeFields
  <1>2. contexts \in Seq(Contexts) /\ Len(contexts) = n /\ contexts # <<>>
    <2>1. contexts \in Seq(Contexts) /\ Len(contexts) = n
      BY DEF LinkInv
    <2> QED
      BY <1>1, <2>1
  <1>3. /\ Inner \in Contexts /\ Outer \in Seq(Contexts) /\ contexts = Pushed(Inner, Outer)
        /\ Len(Outer) = Len(r)
    BY <1>1, <1>2, AtTail DEF Inner, Outer
  <1>4. Len(bnpl_collection_list_stack) = Len(r)
    <2>1. Before(n) = n - 1
      BY <1>1, BeforeFacts
    <2> QED
      BY <1>1, <2>1 DEF Fits
  <1>5. f.depth = Depth(s)
    BY DEF Depth, InnerDepth
  <1>6. /\ Links(Empties, r, Outer, bnpl_collection_list_stack, PairLists, verb_stack)
        /\ Linked(Empties, f, Inner, bnpl_collection_list, At(PairLists, f.depth),
                  At(verb_stack, f.depth))
    <2>1. Links(Empties, Pushed(f, r), Pushed(Inner, Outer),
                Pushed(bnpl_collection_list, bnpl_collection_list_stack), PairLists, verb_stack)
      BY <1>1, <1>3 DEF LinkInv, Lists
    <2>2. bnpl_collection_list \in Seq(Values) /\ bnpl_collection_list_stack \in Seq(Seq(Values))
      BY DEF TypeInv
    <2> HIDE DEF f, r
    <2> QED
      BY <1>1, <1>3, <1>4, <2>1, <2>2, LinksPushed
  <1>7. Depth(s) > 0 => At(PairLists, Depth(s)) = verb_object_pair_list
    <2>1. Depth(s) \in Nat /\ (Depth(s) > 0 => Before(Depth(s)) + 1 = Depth(s))
      <3>1. Depth(s) \in Nat
        BY DepthFacts DEF Fits
      <3> QED
        BY <3>1 DEF Before
    <2>2. At(PairLists, Len(verb_object_pair_list_stack) + 1) = verb_object_pair_list
      BY AtPushed DEF PairLists, TypeInv
    <2> QED
      BY <2>1, <2>2 DEF CountInv
  <1>8. f.kind = "open" => /\ verb_stack # <<>> /\ Len(verb_stack) = Depth(s)
                           /\ At(verb_stack, Depth(s)) = Head(verb_stack)
    <2>1. SUFFICES ASSUME f.kind = "open"
                   PROVE  /\ verb_stack # <<>> /\ Len(verb_stack) = Depth(s)
                          /\ At(verb_stack, Depth(s)) = Head(verb_stack)
      OBVIOUS
    <2>2. InnerIs(s, {"open"})
      BY <2>1 DEF InnerIs
    <2>3. Verbs(s) = Depth(s) /\ Verbs(s) > 0 /\ Len(verb_stack) = Verbs(s)
      BY <2>2, ShutSizes DEF Fits
    <2>4. verb_stack # <<>>
      BY <2>3
    <2> QED
      BY <2>3, <2>4, AtTail DEF TypeInv
  <1> QED
    BY <1>2, <1>3, <1>4, <1>5, <1>6, <1>7, <1>8

(* The frames around the inner one stay linked when their verbs and pairs   *)
(* stay where they are.                                                     *)
LEMMA OuterLinked ==
  ASSUME TypeInv, NEW s \in Shapes, s.frames # <<>>, Fits(s), KnownInv(s), CountInv(s), LinkInv(s),
         NEW E, Agree(E, Empties), NEW Q, NEW W,
         \A h \in 1 .. InnerDepth(Tail(s.frames)) : At(Q, h) = At(PairLists, h)
                                                   /\ At(W, h) = At(verb_stack, h)
  PROVE  Links(E, Tail(s.frames), Outer, bnpl_collection_list_stack, Q, W)
PROOF
  <1> DEFINE r == Tail(s.frames)
             d == InnerDepth(r)
  <1>1. r \in Seq(Frames) /\ WellFormed(r) /\ d \in Nat /\ Head(s.frames) \in Frames
        /\ VerbDepth(Head(s.frames)) = d + 1
    BY WellFormedTop, AtTail, ShapeFields DEF Fits
  <1>2. d <= Depth(s) /\ Depth(s) \in Nat
    <2>1. Depth(s) = Head(s.frames).depth
      BY DEF Depth, InnerDepth
    <2>2. VerbDepth(Head(s.frames)) <= Head(s.frames).depth + 1 /\ Head(s.frames).depth \in Nat
      BY <1>1, FrameFields DEF VerbDepth
    <2> HIDE DEF r, d
    <2> QED
      BY <1>1, <2>1, <2>2
  <1>3. /\ Len(bnpl_collection_list_stack) = Len(r)
        /\ Links(Empties, r, Outer, bnpl_collection_list_stack, PairLists, verb_stack)
    BY TopLinked
  <1>4. \A i \in 1 .. Len(r) : At(r, i).kind \in {"open", "shut"} => At(r, i).depth \in 1 .. d
    <2>1. SUFFICES ASSUME NEW i \in 1 .. Len(r), At(r, i).kind \in {"open", "shut"}
                   PROVE  At(r, i).depth \in 1 .. d
      OBVIOUS
    <2>2. Len(s.frames) - 1 = Len(r) /\ At(r, i) = At(s.frames, i)
          /\ \A k \in 1 .. Len(s.frames) - 1 : At(s.frames, k).depth <= d
      <3>1. /\ Len(Tail(s.frames)) = Len(s.frames) - 1 /\ Len(s.frames) \in Nat
            /\ \A k \in 1 .. Len(s.frames) - 1 : At(Tail(s.frames), k) = At(s.frames, k)
        BY AtTail, ShapeFields
      <3>2. \A k \in 1 .. Len(s.frames) - 1 : At(s.frames, k).depth <= d
        BY WellFormedTop, ShapeFields DEF Fits
      <3> QED
        BY <3>1, <3>2
    <2>3. At(r, i).depth <= d
      BY <2>2
    <2>4. At(r, i).depth = Below(r, i) + 1
      BY <1>1, <2>1 DEF WellFormed, DepthOver, Verbal
    <2>5. At(r, i) \in Frames /\ (i # 1 => At(r, i - 1) \in Frames)
      <3>1. Len(r) + 1 - i \in 1 .. Len(r) /\ (i # 1 => Len(r) + 1 - (i - 1) \in 1 .. Len(r))
        <4>1. Len(r) \in Nat
          BY <1>1
        <4> HIDE DEF r
        <4> QED
          BY <4>1
      <3>2. At(r, i) = r[Len(r) + 1 - i] /\ At(r, i - 1) = r[Len(r) + 1 - (i - 1)]
        BY DEF At
      <3>3. r \in Seq(Frames)
        BY <1>1
      <3> HIDE DEF r
      <3> QED
        BY <3>1, <3>2, <3>3
    <2>6. Below(r, i) \in Nat /\ At(r, i).depth \in Nat
      BY <2>5, FrameFields DEF Below
    <2> HIDE DEF r, d
    <2> QED
      BY <1>1, <2>3, <2>4, <2>6
  <1>5. \A h \in 1 .. d : At(PairLists, h) \in Seq(KnownPairs)
    <2>1. SUFFICES ASSUME NEW h \in 1 .. d
                   PROVE  At(PairLists, h) \in Seq(KnownPairs)
      OBVIOUS
    <2>2. PairLists \in Seq(Seq(KnownPairs)) /\ Len(PairLists) = Len(verb_object_pair_list_stack) + 1
      BY ListsFacts
    <2>3. Len(PairLists) = Depth(s)
      <3> HIDE DEF d
      <3>1. Depth(s) > 0
        BY <1>1, <1>2, <2>1
      <3>2. Before(Depth(s)) = Depth(s) - 1
        BY <1>2, <3>1, BeforeFacts
      <3> QED
        BY <1>2, <2>2, <3>2 DEF CountInv
    <2>4. Len(PairLists) + 1 - h \in 1 .. Len(PairLists)
      <3> HIDE DEF d
      <3> QED
        BY <1>1, <1>2, <2>1, <2>3
    <2> QED
      BY <2>2, <2>4 DEF At
  <1>6. \A i \in 1 .. Len(r) :
          /\ At(r, i).kind \in {"open", "shut"} =>
               /\ At(PairLists, At(r, i).depth) \in Seq(KnownPairs)
               /\ At(Q, At(r, i).depth) = At(PairLists, At(r, i).depth)
          /\ At(r, i).kind = "open" => At(W, At(r, i).depth) = At(verb_stack, At(r, i).depth)
    BY <1>4, <1>5
  <1>7. bnpl_collection_list_stack \in Seq(Seq(Known))
    BY DEF KnownInv
  <1> HIDE DEF r
  <1>8. Links(E, r, Outer, bnpl_collection_list_stack, Q, W)
    BY <1>1, <1>3, <1>6, <1>7, LinksKept
  <1> QED
    BY <1>8 DEF r

LEMMA ContextFacts ==
  /\ Context \in Contexts /\ Context.subject = None /\ Context.verb = None /\ Context.pairs = {}
  /\ Context.items = <<>>
  /\ \A c \in Contexts, x \in Meanings :
       LET d == [c EXCEPT !.subject = x]
           e == [c EXCEPT !.verb = x]
       IN  /\ d \in Contexts /\ d.subject = x /\ d.verb = c.verb /\ d.pairs = c.pairs
           /\ d.items = c.items
           /\ e \in Contexts /\ e.subject = c.subject /\ e.verb = x /\ e.pairs = c.pairs
           /\ e.items = c.items
PROOF
  <1>1. <<>> \in Seq(Meanings) /\ None \in Meanings
    BY DEF Meanings, Values
  <1>2. Context \in Contexts /\ Context.subject = None /\ Context.verb = None /\ Context.pairs = {}
        /\ Context.items = <<>>
    BY <1>1 DEF Context, Contexts
  <1>3. ASSUME NEW c \in Contexts, NEW x \in Meanings
        PROVE  LET d == [c EXCEPT !.subject = x]
                   e == [c EXCEPT !.verb = x]
               IN  /\ d \in Contexts /\ d.subject = x /\ d.verb = c.verb /\ d.pairs = c.pairs
                   /\ d.items = c.items
                   /\ e \in Contexts /\ e.subject = c.subject /\ e.verb = x /\ e.pairs = c.pairs
                   /\ e.items = c.items
    BY DEF Contexts
  <1> QED
    BY <1>2, <1>3

(* An object is added to its verb, an item to its collection.               *)
LEMMA ObjectFacts ==
  ASSUME Inner \in Contexts, NEW o \in Meanings
  PROVE  /\ WithObject(o) \in Contexts /\ WithObject(o).subject = Inner.subject
         /\ WithObject(o).verb = Inner.verb
         /\ Inner.verb = None => /\ WithObject(o).items = Append(Inner.items, o)
                                 /\ WithObject(o).pairs = Inner.pairs
         /\ Inner.verb # None => WithObject(o).pairs = Inner.pairs \cup {<<Inner.verb, o>>}
PROOF
  <1>1. CASE Inner.verb = None
    <2> DEFINE items == Append(Inner.items, o)
    <2>1. items \in Seq(Meanings)
      BY DEF Contexts
    <2>2. WithObject(o) = [Inner EXCEPT !.items = items]
      BY <1>1 DEF WithObject
    <2> HIDE DEF items
    <2>3. /\ WithObject(o) \in Contexts /\ WithObject(o).subject = Inner.subject
          /\ WithObject(o).verb = Inner.verb /\ WithObject(o).items = items
          /\ WithObject(o).pairs = Inner.pairs
      BY <2>1, <2>2 DEF Contexts
    <2> QED
      BY <1>1, <2>3 DEF items
  <1>2. CASE Inner.verb # None
    <2> DEFINE pairs == Inner.pairs \cup {<<Inner.verb, o>>}
    <2>1. pairs \in SUBSET (Meanings \X Meanings)
      BY DEF Contexts
    <2>2. WithObject(o) = [Inner EXCEPT !.pairs = pairs]
      BY <1>2 DEF WithObject
    <2> HIDE DEF pairs
    <2>3. /\ WithObject(o) \in Contexts /\ WithObject(o).subject = Inner.subject
          /\ WithObject(o).verb = Inner.verb /\ WithObject(o).pairs = pairs
      BY <2>1, <2>2 DEF Contexts
    <2> QED
      BY <1>2, <2>3 DEF pairs
  <1> QED
    BY <1>1, <1>2

LEMMA BottomPushed ==
  ASSUME NEW S, NEW stack \in Seq(S), NEW x \in S
  PROVE  /\ Len(stack) = 0 => At(Pushed(x, stack), 1) = x
         /\ Len(stack) > 0 => At(Pushed(x, stack), 1) = At(stack, 1)
PROOF
  <1>1. /\ At(Pushed(x, stack), Len(stack) + 1) = x
        /\ \A i \in 1 .. Len(stack) : At(Pushed(x, stack), i) = At(stack, i)
    BY AtPushed
  <1>2. Len(stack) \in Nat /\ 0 + 1 = 1 /\ (Len(stack) > 0 => 1 \in 1 .. Len(stack))
    OBVIOUS
  <1> QED
    BY <1>1, <1>2

LEMMA LinkedAgain ==
  ASSUME TypeInv', NEW f \in Frames, NEW r \in Seq(Frames), NEW c \in Contexts,
         NEW C \in Seq(Contexts), Len(C) = Len(r), Len(bnpl_collection_list_stack') = Len(r),
         contexts' = Pushed(c, C),
         Links(Empties', r, C, bnpl_collection_list_stack', PairLists', verb_stack'),
         Linked(Empties', f, c, bnpl_collection_list', At(PairLists', f.depth),
                At(verb_stack', f.depth))
  PROVE  /\ contexts' \in Seq(Contexts) /\ Len(contexts') = Len(Pushed(f, r))
         /\ Links(Empties', Pushed(f, r), contexts', Lists', PairLists', verb_stack')
PROOF
  <1>1. bnpl_collection_list' \in Seq(Values) /\ bnpl_collection_list_stack' \in Seq(Seq(Values))
    BY DEF TypeInv
  <1>2. contexts' \in Seq(Contexts) /\ Len(contexts') = Len(Pushed(f, r))
    <2>1. Pushed(c, C) \in Seq(Contexts) /\ Len(Pushed(c, C)) = Len(C) + 1
      BY PushedOnto
    <2>2. Len(Pushed(f, r)) = Len(r) + 1
      BY PushedOnto
    <2> QED
      BY <2>1, <2>2
  <1>3. Lists' = Pushed(bnpl_collection_list', bnpl_collection_list_stack')
    BY DEF Lists
  <1> DEFINE E == Empties'
             P == PairLists'
             V == verb_stack'
             l == bnpl_collection_list'
             L == bnpl_collection_list_stack'
  <1>4. /\ l \in Seq(Values) /\ L \in Seq(Seq(Values)) /\ Len(L) = Len(r)
        /\ Links(E, r, C, L, P, V) /\ Linked(E, f, c, l, At(P, f.depth), At(V, f.depth))
    BY <1>1
  <1> HIDE DEF E, P, V, l, L
  <1>5. Links(E, Pushed(f, r), Pushed(c, C), Pushed(l, L), P, V)
    BY <1>4, LinksPushed
  <1> QED
    BY <1>2, <1>3, <1>5 DEF E, P, V, l, L

LEMMA SubjectKept ==
  ASSUME NEW s, NEW t, KnownInv(s), SubjectInv(s), s.frames # <<>>, t.seq = s.seq,
         At(t.frames, 1).kind = "begun" => At(s.frames, 1).kind = "begun",
         At(contexts', 1).subject = At(contexts, 1).subject, Agree(Empties', Empties),
         UNCHANGED <<subject_, first_BNPL>>
  PROVE  SubjectInv(t)'
PROOF
  <1>1. /\ s.seq = 1 => Meant(Empties', subject_) = Meant(Empties, subject_)
        /\ s.seq = 2 => Meant(Empties', first_BNPL) = Meant(Empties, first_BNPL)
    BY DEF KnownInv, Agree, Meant
  <1> QED
    BY <1>1 DEF SubjectInv

LEMMA MeantFacts ==
  /\ \A E, x : x \in Values => Meant(E, x) \in Meanings
  /\ \A E : Agree(E, Empties) => \A x \in Known : Meant(E, x) = Meant(Empties, x)
  /\ \A E : Agree(E, E)
PROOF
  BY DEF Meant, Meanings, Agree

Entries(list) == {list[i] : i \in 1 .. Len(list)}

LEMMA ParsedGrows ==
  ASSUME NEW T, parsed \in Seq(T), NEW new \in Seq(T), parsed' = parsed \o new
  PROVE  Parsed' = Parsed \cup Entries(new)
PROOF
  <1>1. /\ \A j \in 1 .. Len(parsed) : j \in 1 .. Len(parsed') /\ parsed'[j] = parsed[j]
        /\ \A j \in 1 .. Len(new) : Len(parsed) + j \in 1 .. Len(parsed')
                                    /\ parsed'[Len(parsed) + j] = new[j]
        /\ \A j \in 1 .. Len(parsed') : \/ j \in 1 .. Len(parsed)
                                        \/ \E k \in 1 .. Len(new) : j = Len(parsed) + k
    BY Concatenated
  <1>2. \A x \in Parsed : x \in Parsed'
    BY <1>1 DEF Parsed
  <1>3. \A x \in Entries(new) : x \in Parsed'
    <2>1. SUFFICES ASSUME NEW j \in 1 .. Len(new)
                   PROVE  new[j] \in Parsed'
      BY DEF Entries
    <2>2. Len(parsed) + j \in 1 .. Len(parsed') /\ parsed'[Len(parsed) + j] = new[j]
      BY <1>1
    <2> QED
      BY <2>2 DEF Parsed
  <1>4. \A x \in Parsed' : x \in Parsed \/ x \in Entries(new)
    BY <1>1 DEF Parsed, Entries
  <1> QED
    BY <1>2, <1>3, <1>4

(* Only the triple of an empty collection makes a node stand for rdf:nil.   *)
LEMMA EmptiesGrow ==
  ASSUME NEW T, parsed \in Seq(T), NEW new \in Seq(T), parsed' = parsed \o new
  PROVE  Empties' = Empties \cup Emptied(Entries(new))
PROOF
  <1>1. Parsed' = Parsed \cup Entries(new)
    BY ParsedGrows
  <1>2. \A A, B : Emptied(A \cup B) = Emptied(A) \cup Emptied(B)
    BY DEF Emptied
  <1> QED
    BY <1>1, <1>2 DEF Empties

LEMMA EmptiesStay ==
  ASSUME TypeInv, NEW s, KnownInv(s), NEW subject, parsed' = parsed \/ parsed' = parsed \o Triples(subject)
  PROVE  Empties' = Empties /\ Agree(Empties', Empties)
PROOF
  <1>1. CASE parsed' = parsed
    BY <1>1 DEF Empties, Parsed, Agree
  <1>2. CASE parsed' = parsed \o Triples(subject)
    <2> DEFINE new == Triples(subject)
               T == (StatedTriples \cup CollectionNodes) \cup ({subject} \X TermsRead \X Known)
    <2>1. verb_object_pair_list \in Seq(KnownPairs) /\ parsed \in Seq(StatedTriples \cup CollectionNodes)
      BY DEF KnownInv
    <2>2. \A pair \in KnownPairs : <<subject, pair[1], pair[2]>> \in {subject} \X TermsRead \X Known
      BY DEF KnownPairs
    <2>3. new \in Seq({subject} \X TermsRead \X Known)
      <3> HIDE DEF new
      <3>1. Triples(subject) \in Seq({subject} \X TermsRead \X Known)
        BY <2>1, <2>2, TriplesFacts
      <3> QED
        BY <3>1 DEF new
    <2>4. \A i \in 1 .. Len(new) : new[i][2] # first
      <3>1. \A i \in 1 .. Len(new) : new[i] \in {subject} \X TermsRead \X Known
        BY <2>3
      <3>2. \A t \in {subject} \X TermsRead \X Known : t[2] \in TermsRead
        OBVIOUS
      <3>3. first \notin TermsRead
        BY ValueFacts DEF TermsRead
      <3> HIDE DEF new
      <3> QED
        BY <3>1, <3>2, <3>3
    <2>5. parsed \in Seq(T) /\ new \in Seq(T)
      BY <2>1, <2>3, SequencesGrow
    <2> HIDE DEF T, new
    <2>6. parsed' = parsed \o new
      BY <1>2 DEF new
    <2>7. Empties' = Empties \cup Emptied(Entries(new))
      BY <2>5, <2>6, EmptiesGrow
    <2>8. Emptied(Entries(new)) = {}
      BY <2>4 DEF Emptied, Entries
    <2>9. Empties' = Empties
      BY <2>7, <2>8
    <2> QED
      BY <2>9 DEF Agree
  <1> QED
    BY <1>1, <1>2

(* What a collection adds.                                                  *)
LEMMA EmptiesCollection ==
  ASSUME TypeInv, TypeInv', NEW s, KnownInv(s), processCollection
  PROVE  /\ bnpl_collection_list = <<>> => Empties' = Empties \cup {BNode(latest_BN_label)}
         /\ bnpl_collection_list # <<>> => Empties' = Empties
         /\ Agree(Empties', Empties)
         /\ Parsed' = Parsed \cup Entries(CollectionTriples)
PROOF
  <1> DEFINE T == (StatedTriples \cup CollectionNodes) \cup CollectionNodes'
             new == CollectionTriples
  <1>1. bnpl_collection_list \in Seq(Known) /\ parsed \in Seq(StatedTriples \cup CollectionNodes)
    BY DEF KnownInv
  <1>2. new \in Seq(CollectionNodes')
    BY <1>1, CollectionTriplesNew
  <1>3. parsed \in Seq(T) /\ new \in Seq(T)
    BY <1>1, <1>2, SequencesGrow
  <1>4. parsed' = parsed \o new
    BY DEF processCollection
  <1>5. bnpl_collection_list = <<>> => Emptied(Entries(new)) = {BNode(latest_BN_label)}
    <2>1. SUFFICES ASSUME bnpl_collection_list = <<>>
                   PROVE  Emptied(Entries(new)) = {BNode(latest_BN_label)}
      OBVIOUS
    <2>2. new = <<<<BNode(latest_BN_label), first, nil>>>>
      <3>1. latest_BN_label + 1 - 1 = latest_BN_label
        BY DEF TypeInv
      <3> QED
        BY <2>1, <3>1 DEF CollectionTriples, ItemNode
    <2> HIDE DEF new
    <2>3. Entries(new) = {<<BNode(latest_BN_label), first, nil>>}
      <3>1. Len(new) = 1 /\ new[1] = <<BNode(latest_BN_label), first, nil>>
        BY <2>2
      <3>2. 1 .. 1 = {1}
        OBVIOUS
      <3> QED
        BY <3>1, <3>2 DEF Entries
    <2> DEFINE t == <<BNode(latest_BN_label), first, nil>>
    <2>4. t[1] = BNode(latest_BN_label) /\ t[2] = first /\ t[3] = nil
      OBVIOUS
    <2> HIDE DEF t
    <2>5. Entries(new) = {t}
      BY <2>3 DEF t
    <2> QED
      BY <2>4, <2>5 DEF Emptied
  <1>6. bnpl_collection_list # <<>> => Emptied(Entries(new)) = {}
    <2>1. SUFFICES ASSUME bnpl_collection_list # <<>>
                   PROVE  Emptied(Entries(new)) = {}
      OBVIOUS
    <2> DEFINE n == Len(bnpl_collection_list)
    <2>2. /\ n \in Nat \ {0} /\ Len(new) = 2 * n
          /\ \A k \in 1 .. n :
               /\ new[2 * k - 1] = <<BNode(latest_BN_label + k - 1), rest,
                                     IF k = 1 THEN nil ELSE BNode(latest_BN_label + k - 2)>>
               /\ new[2 * k] = <<BNode(latest_BN_label + k - 1), first, bnpl_collection_list[n + 1 - k]>>
          /\ \A j \in 1 .. 2 * n : \E k \in 1 .. n : j = 2 * k - 1 \/ j = 2 * k
      BY <2>1, CollectionTriplesFacts
    <2>3. \A k \in 1 .. n : bnpl_collection_list[n + 1 - k] # nil
      <3>1. \A k \in 1 .. n : n + 1 - k \in 1 .. n
        BY <2>2
      <3>2. nil \notin Known
        BY KnownFacts
      <3> QED
        BY <1>1, <3>1, <3>2
    <2> HIDE DEF new, n
    <2>4. \A j \in 1 .. Len(new) : ~(new[j][2] = first /\ new[j][3] = nil)
      <3>1. SUFFICES ASSUME NEW j \in 1 .. Len(new)
                     PROVE  ~(new[j][2] = first /\ new[j][3] = nil)
        OBVIOUS
      <3>2. PICK k \in 1 .. n : j = 2 * k - 1 \/ j = 2 * k
        BY <2>2
      <3>3. CASE j = 2 * k - 1
        <4>1. new[j][2] = rest
          BY <2>2, <3>3
        <4>2. rest # first
          BY ValueFacts
        <4> QED
          BY <4>1, <4>2
      <3>4. CASE j = 2 * k
        <4>1. new[j] = <<BNode(latest_BN_label + k - 1), first, bnpl_collection_list[n + 1 - k]>>
          BY <2>2, <3>4
        <4>2. new[j][3] = bnpl_collection_list[n + 1 - k]
          BY <4>1
        <4> QED
          BY <2>3, <4>2
      <3> QED
        BY <3>2, <3>3, <3>4
    <2> QED
      BY <2>4 DEF Emptied, Entries
  <1> HIDE DEF T, new
  <1>7. Empties' = Empties \cup Emptied(Entries(new)) /\ Parsed' = Parsed \cup Entries(new)
    BY <1>3, <1>4, EmptiesGrow, ParsedGrows
  <1>8. BNode(latest_BN_label) \notin Known
    <2>1. 0 \in Nat /\ latest_BN_label + 0 = latest_BN_label
      BY DEF TypeInv
    <2> QED
      BY <2>1, KnownFacts
  <1>9. Agree(Empties', Empties)
    BY <1>5, <1>6, <1>7, <1>8 DEF Agree
  <1> QED
    BY <1>5, <1>6, <1>7, <1>9 DEF new

(* The action reads a term and changes none of the stacks.                  *)
LEMMA LinkTermStep ==
  ASSUME TypeInv, TypeInv', NEW s \in Shapes, NEW t \in Shapes, KnownInv(s), LinkInv(s),
         NEW rule, Matched(rule), Move(rule, s, t), ReadTerm
  PROVE  LinkInv(t)'
PROOF
  <1>1. rule = "term"
    BY DEF ReadTerm, Matched
  <1>2. t.frames = s.frames /\ t.seq = s.seq /\ Depth(t) = Depth(s)
    BY <1>1, VerbMoves, HoldingFacts DEF Depth
  <1>3. UNCHANGED <<contexts, Lists, PairLists, verb_stack, bnpl_collection_list, verb_object_pair_list,
                    subject_, first_BNPL>>
    BY DEF ReadTerm, listVars, pairVars, verbVars, Lists, PairLists
  <1>4. Empties' = Empties
    BY DEF ReadTerm, Empties, Parsed
  <1>5. denoted' = Meant(Empties', element_') /\ denoted' \in Meanings
    <2>1. denoted' = Term(terms + 1) /\ element_' = Term(terms + 1)
      BY DEF ReadTerm
    <2>2. Term(terms + 1) \notin Empties
      <3>1. Empties \subseteq NodesMade
        BY EmptiesFacts
      <3>2. Term(terms + 1) \notin NodesMade
        BY KnownFacts
      <3> QED
        BY <3>1, <3>2
    <2>3. Term(terms + 1) \in Values
      BY <2>1 DEF TypeInv
    <2> QED
      BY <1>4, <2>1, <2>2, <2>3 DEF Meant, Meanings
  <1> QED
    BY <1>2, <1>3, <1>4, <1>5 DEF LinkInv, SubjectInv

LEMMA LinkBeginStep ==
  ASSUME TypeInv, TypeInv', NEW s \in Shapes, NEW t \in Shapes, Fits(s), KnownInv(s), LinkInv(s),
         Move("beginStatement", s, t), BeginStatement
  PROVE  LinkInv(t)'
PROOF
  <1>1. s = Nothing /\ t = Shape(Begun, "none", 0)
    BY StatementMoves
  <1>2. /\ UNCHANGED <<bnpl_collection_list, bnpl_collection_list_stack, PairLists, verb_stack,
                       verb_object_pair_list, denoted>>
        /\ contexts' = <<Context>>
    BY DEF BeginStatement, listVars, pairVars, verbVars, PairLists
  <1>3. s.frames = <<>> /\ t.frames = Begun /\ t.held = "none" /\ t.seq = 0 /\ Depth(s) = 0
    BY <1>1, ShapeFields, StatementSizes DEF Nothing
  <1>4. bnpl_collection_list = <<>> /\ verb_object_pair_list = <<>> /\ denoted \in Meanings
    BY <1>3 DEF LinkInv
  <1>5. Len(bnpl_collection_list_stack) = 0
    BY <1>3 DEF Fits, Before
  <1> DEFINE f == Frame("begun", 0)
  <1>6. f \in Frames /\ f.kind = "begun" /\ Begun = Pushed(f, <<>>)
    BY FrameFields DEF Begun, Pushed
  <1>7. /\ <<>> \in Seq(Frames) /\ <<>> \in Seq(Contexts) /\ contexts' = Pushed(Context, <<>>)
        /\ Context \in Contexts /\ Len(<<>>) = 0
    <2>1. <<>> \in Seq(Frames)
      OBVIOUS
    <2>2. <<>> \in Seq(Contexts)
      OBVIOUS
    <2> QED
      BY <1>2, <2>1, <2>2, ContextFacts DEF Pushed
  <1> HIDE DEF f
  <1>8. Links(Empties', <<>>, <<>>, bnpl_collection_list_stack', PairLists', verb_stack')
    BY DEF Links
  <1>9. Linked(Empties', f, Context, bnpl_collection_list', At(PairLists', f.depth),
               At(verb_stack', f.depth))
    BY <1>2, <1>4, <1>6, ContextFacts DEF Linked
  <1>10. /\ contexts' \in Seq(Contexts) /\ Len(contexts') = Len(Pushed(f, <<>>))
         /\ Links(Empties', Pushed(f, <<>>), contexts', Lists', PairLists', verb_stack')
    <2>1. Len(bnpl_collection_list_stack') = 0
      BY <1>2, <1>5
    <2> QED
      BY <1>6, <1>7, <1>8, <1>9, <2>1, LinkedAgain
  <1>11. At(contexts', 1).subject = None
    <2>1. At(Pushed(Context, <<>>), 1) = Context
      BY <1>7, BottomPushed
    <2> QED
      BY <1>7, <2>1, ContextFacts
  <1>12. SubjectInv(t)'
    BY <1>3, <1>11 DEF SubjectInv
  <1>13. t.frames # <<>>
    BY <1>3, StatementFrames
  <1> QED
    BY <1>2, <1>3, <1>4, <1>6, <1>10, <1>12, <1>13 DEF LinkInv

(* The frame of a statement between its brackets.                           *)
LEMMA StatementLinked ==
  ASSUME TypeInv, NEW s \in Shapes, Fits(s), CountInv(s), LinkInv(s),
         s.frames \in {Begun, Subject, AfterVerbs, Ended}
  PROVE  /\ s.frames # <<>> /\ Tail(s.frames) = <<>> /\ Len(Outer) = 0 /\ Outer = <<>>
         /\ contexts = <<Inner>> /\ Inner \in Contexts /\ bnpl_collection_list_stack = <<>>
         /\ At(contexts, 1) = Inner
         /\ s.frames # Ended => bnpl_collection_list = <<>>
PROOF
  <1>1. s.frames # <<>> /\ Tail(s.frames) = <<>>
    BY StatementFrames
  <1>2. /\ contexts # <<>> /\ Inner \in Contexts /\ Outer \in Seq(Contexts)
        /\ contexts = Pushed(Inner, Outer)
        /\ Len(Outer) = Len(Tail(s.frames)) /\ Len(bnpl_collection_list_stack) = Len(Tail(s.frames))
        /\ Linked(Empties, Head(s.frames), Inner, bnpl_collection_list, At(PairLists, Depth(s)),
                   At(verb_stack, Depth(s)))
    BY <1>1, TopLinked
  <1>3. Len(Outer) = 0 /\ Outer = <<>> /\ bnpl_collection_list_stack = <<>>
    <2>1. \A S : \A q \in Seq(S) : Len(q) = 0 => q = <<>>
      OBVIOUS
    <2>2. bnpl_collection_list_stack \in Seq(Seq(Values))
      BY DEF TypeInv
    <2>3. Len(Tail(s.frames)) = 0
      BY <1>1, EmptySeq
    <2>4. Len(Outer) = 0 /\ Len(bnpl_collection_list_stack) = 0
      BY <1>2, <2>3
    <2>5. Outer = <<>>
      BY <1>2, <2>1, <2>4
    <2>6. bnpl_collection_list_stack = <<>>
      BY <2>1, <2>2, <2>4
    <2> QED
      BY <2>4, <2>5, <2>6
  <1>4. contexts = <<Inner>> /\ At(contexts, 1) = Inner
    <2>1. contexts = Pushed(Inner, Outer) /\ Inner \in Contexts /\ Outer \in Seq(Contexts)
          /\ Outer = <<>> /\ Len(Outer) = 0
      BY <1>2, <1>3
    <2> DEFINE c == Inner
               r == Outer
    <2> HIDE DEF c, r
    <2>2. contexts = Pushed(c, r) /\ c \in Contexts /\ r \in Seq(Contexts) /\ r = <<>> /\ Len(r) = 0
      BY <2>1 DEF c, r
    <2>3. contexts = <<c>>
      BY <2>2 DEF Pushed
    <2>4. At(contexts, 1) = c
      BY <2>2, BottomPushed
    <2> QED
      BY <2>3, <2>4 DEF c
  <1>5. s.frames # Ended => bnpl_collection_list = <<>>
    BY <1>2, StatementFrames DEF Linked
  <1> QED
    BY <1>1, <1>2, <1>3, <1>4, <1>5

LEMMA LinkSubjectStep ==
  ASSUME TypeInv, TypeInv', NEW s \in Shapes, NEW t \in Shapes, Fits(s), KnownInv(s), CountInv(s),
         LinkInv(s), Move("setSubject", s, t), setSubject
  PROVE  LinkInv(t)'
PROOF
  <1>1. s.held # "none" /\ s.frames = Begun /\ Depth(s) = 0
        /\ t.frames = Subject /\ t.held = "none" /\ t.seq = 1 /\ Depth(t) = 0
    BY StatementMoves, ShapeFields, StatementSizes
  <1> DEFINE c == [Inner EXCEPT !.subject = denoted]
  <1>2. /\ UNCHANGED <<bnpl_collection_list, bnpl_collection_list_stack, PairLists, verb_stack,
                       verb_object_pair_list, denoted>>
        /\ contexts' = Pushed(c, Outer) /\ subject_' = element_
    BY DEF setSubject, listVars, pairVars, verbVars, PairLists, InnerBecomes
  <1>3. Empties' = Empties
    BY DEF setSubject, Empties, Parsed
  <1>4. /\ Outer = <<>> /\ bnpl_collection_list = <<>> /\ bnpl_collection_list_stack = <<>>
        /\ Inner \in Contexts
    BY <1>1, StatementLinked, StatementFrames
  <1>5. Inner.verb = None /\ Inner.pairs = {}
    <2>1. s.frames # <<>> /\ Head(s.frames).kind = "begun"
      BY <1>1, StatementFrames
    <2>2. Linked(Empties, Head(s.frames), Inner, bnpl_collection_list, At(PairLists, Depth(s)),
                 At(verb_stack, Depth(s)))
      BY <2>1, TopLinked
    <2> QED
      BY <2>1, <2>2 DEF Linked
  <1>6. verb_object_pair_list = <<>> /\ denoted \in Meanings /\ denoted = Meant(Empties, element_)
    BY <1>1 DEF LinkInv
  <1>7. c \in Contexts /\ c.subject = denoted /\ c.verb = None /\ c.pairs = {}
    BY <1>4, <1>5, <1>6, ContextFacts
  <1> DEFINE f == Frame("subject", 0)
  <1>8. f \in Frames /\ f.kind = "subject" /\ Subject = Pushed(f, <<>>)
    BY FrameFields DEF Subject, Pushed
  <1> HIDE DEF c, f
  <1>9. /\ contexts' \in Seq(Contexts) /\ Len(contexts') = Len(Pushed(f, <<>>))
        /\ Links(Empties', Pushed(f, <<>>), contexts', Lists', PairLists', verb_stack')
    <2>1. <<>> \in Seq(Frames)
      OBVIOUS
    <2>2. <<>> \in Seq(Contexts)
      OBVIOUS
    <2>3. Len(bnpl_collection_list_stack') = Len(<<>>) /\ contexts' = Pushed(c, <<>>)
      BY <1>2, <1>4
    <2>4. Links(Empties', <<>>, <<>>, bnpl_collection_list_stack', PairLists', verb_stack')
      BY DEF Links
    <2>5. Linked(Empties', f, c, bnpl_collection_list', At(PairLists', f.depth), At(verb_stack', f.depth))
      BY <1>2, <1>4, <1>7, <1>8 DEF Linked
    <2> QED
      BY <1>7, <1>8, <2>1, <2>2, <2>3, <2>4, <2>5, LinkedAgain
  <1>10. At(contexts', 1).subject = denoted
    <2>1. <<>> \in Seq(Contexts)
      OBVIOUS
    <2>2. Len(<<>>) = 0
      BY EmptySeq
    <2>3. contexts' = Pushed(c, <<>>)
      BY <1>2, <1>4
    <2> QED
      BY <1>7, <2>1, <2>2, <2>3, BottomPushed
  <1>11. SubjectInv(t)'
    <2>1. At(Subject, 1).kind = "subject"
      <3>1. At(Pushed(f, <<>>), 1) = f
        <4>1. <<>> \in Seq(Frames)
          OBVIOUS
        <4>2. Len(<<>>) = 0
          BY EmptySeq
        <4> QED
          BY <1>8, <4>1, <4>2, BottomPushed
      <3> QED
        BY <1>8, <3>1
    <2> QED
      BY <1>1, <1>2, <1>3, <1>6, <1>10, <2>1 DEF SubjectInv
  <1>12. t.frames # <<>>
    BY <1>1, StatementFrames
  <1> QED
    BY <1>1, <1>2, <1>6, <1>8, <1>9, <1>11, <1>12 DEF LinkInv

LEMMA LinkStatementStep ==
  ASSUME TypeInv, TypeInv', NEW s \in Shapes, NEW t \in Shapes, Fits(s), KnownInv(s), CountInv(s),
         LinkInv(s), NEW rule, Matched(rule), Move(rule, s, t), processTripleSeq
  PROVE  LinkInv(t)'
PROOF
  <1>1. rule \in {"processTripleSeq", "processTripleSeq2"}
    BY DEF processTripleSeq, Matched
  <1>2. s.frames \in {AfterVerbs, Subject} /\ t = Shape(Ended, "none", 0)
    BY <1>1, StatementMoves, ShapeFields
  <1>3. t.frames = Ended /\ t.held = "none" /\ t.seq = 0 /\ Depth(t) = 1
    BY <1>2, ShapeFields, StatementSizes
  <1>4. UNCHANGED <<bnpl_collection_list, bnpl_collection_list_stack, PairLists, verb_stack,
                    verb_object_pair_list, denoted, contexts>>
    BY DEF processTripleSeq, listVars, pairVars, verbVars, PairLists
  <1>5. s.frames # Ended
    BY <1>2, StatementFrames
  <1>6. /\ contexts = <<Inner>> /\ bnpl_collection_list = <<>> /\ bnpl_collection_list_stack = <<>>
        /\ Inner \in Contexts
    BY <1>2, <1>5, StatementLinked
  <1> DEFINE f == Frame("end", 1)
             c == Inner
  <1>7. f \in Frames /\ f.kind = "end" /\ Ended = Pushed(f, <<>>)
    BY FrameFields DEF Ended, Pushed
  <1>8. contexts' = Pushed(c, <<>>) /\ c \in Contexts
    BY <1>4, <1>6 DEF Pushed
  <1> HIDE DEF c, f
  <1>9. /\ contexts' \in Seq(Contexts) /\ Len(contexts') = Len(Pushed(f, <<>>))
        /\ Links(Empties', Pushed(f, <<>>), contexts', Lists', PairLists', verb_stack')
    <2>1. <<>> \in Seq(Frames)
      OBVIOUS
    <2>2. <<>> \in Seq(Contexts)
      OBVIOUS
    <2>3. Len(bnpl_collection_list_stack') = Len(<<>>)
      BY <1>4, <1>6
    <2>4. Links(Empties', <<>>, <<>>, bnpl_collection_list_stack', PairLists', verb_stack')
      BY DEF Links
    <2>5. Linked(Empties', f, c, bnpl_collection_list', At(PairLists', f.depth), At(verb_stack', f.depth))
      BY <1>4, <1>6, <1>7 DEF Linked
    <2> QED
      BY <1>7, <1>8, <2>1, <2>2, <2>3, <2>4, <2>5, LinkedAgain
  <1>10. SubjectInv(t)'
    <2>1. At(Pushed(f, <<>>), 1) = f
      <3>1. <<>> \in Seq(Frames)
        OBVIOUS
      <3>2. Len(<<>>) = 0
        BY EmptySeq
      <3> QED
        BY <1>7, <3>1, <3>2, BottomPushed
    <2> QED
      BY <1>3, <1>7, <2>1 DEF SubjectInv
  <1>11. t.frames # <<>> /\ denoted \in Meanings
    BY <1>3, StatementFrames DEF LinkInv
  <1> QED
    BY <1>3, <1>4, <1>7, <1>9, <1>10, <1>11 DEF LinkInv

LEMMA LinkClearStep ==
  ASSUME TypeInv, TypeInv', NEW s \in Shapes, NEW t \in Shapes, Fits(s), KnownInv(s), CountInv(s),
         LinkInv(s), Move("clearTripleParameters", s, t), clearTripleParameters
  PROVE  LinkInv(t)'
PROOF
  <1>1. s.frames = Ended /\ t = Nothing
    BY StatementMoves, ShapeFields
  <1>2. t.frames = <<>> /\ t.held = "none"
    BY <1>1, ShapeFields DEF Nothing
  <1>3. Outer = <<>> /\ denoted \in Meanings
    BY <1>1, StatementLinked DEF LinkInv
  <1>4. bnpl_collection_list' = <<>> /\ verb_object_pair_list' = <<>> /\ contexts' = <<>>
        /\ denoted' = denoted
    BY <1>3 DEF clearTripleParameters
  <1>5. <<>> \in Seq(Contexts)
    OBVIOUS
  <1>6. Links(Empties', <<>>, contexts', Lists', PairLists', verb_stack')
    BY DEF Links
  <1> QED
    BY <1>2, <1>3, <1>4, <1>5, <1>6 DEF LinkInv, SubjectInv

LEMMA TopAt ==
  ASSUME NEW S, NEW stack \in Seq(S), NEW list \in S, NEW d \in Nat, d > 0, Len(stack) = Before(d)
  PROVE  /\ At(Pushed(list, stack), d) = list
         /\ \A h \in 1 .. d - 1 : At(Pushed(list, stack), h) = At(stack, h)
PROOF
  <1>1. Before(d) = d - 1 /\ d - 1 + 1 = d
    BY BeforeFacts
  <1>2. /\ At(Pushed(list, stack), Len(stack) + 1) = list
        /\ \A h \in 1 .. Len(stack) : At(Pushed(list, stack), h) = At(stack, h)
    BY AtPushed
  <1> QED
    BY <1>1, <1>2

LEMMA NoObjects ==
  ASSUME NEW E, NEW v
  PROVE  PairsOf(E, <<>>) = {} /\ ObjectsOf(E, v, <<>>) = {}
PROOF
  <1>1. 1 .. Len(<<>>) = {}
    BY EmptySeq
  <1> QED
    BY <1>1 DEF PairsOf, ObjectsOf

LEMMA ObjectsAppended ==
  ASSUME NEW E, NEW v, NEW S, NEW list \in Seq(S), NEW x \in S
  PROVE  /\ ObjectsOf(E, v, Append(list, x)) = ObjectsOf(E, v, list) \cup {<<v, Meant(E, x)>>}
         /\ ItemsOf(E, Append(list, x)) = Append(ItemsOf(E, list), Meant(E, x))
PROOF
  <1> DEFINE n == Len(list)
             long == Append(list, x)
  <1>1. /\ n \in Nat /\ long \in Seq(S) /\ Len(long) = n + 1 /\ long[n + 1] = x
        /\ \A k \in 1 .. n : long[k] = list[k]
    OBVIOUS
  <1> HIDE DEF n, long
  <1>2. 1 .. n + 1 = (1 .. n) \cup {n + 1}
    BY <1>1
  <1>3. ObjectsOf(E, v, long) = ObjectsOf(E, v, list) \cup {<<v, Meant(E, x)>>}
    <2>1. Len(list) = n
      BY DEF n
    <2> QED
      BY <1>1, <1>2, <2>1 DEF ObjectsOf
  <1>4. ItemsOf(E, long) = Append(ItemsOf(E, list), Meant(E, x))
    <2> DEFINE a == ItemsOf(E, list)
               b == ItemsOf(E, long)
               m == Meant(E, x)
    <2>1. a = [k \in 1 .. n |-> Meant(E, list[k])] /\ b = [k \in 1 .. n + 1 |-> Meant(E, long[k])]
      BY <1>1 DEF ItemsOf, n
    <2> DEFINE T == {Meant(E, list[k]) : k \in 1 .. n} \cup {m}
    <2>2. a \in Seq(T) /\ b \in Seq(T) /\ Len(a) = n /\ Len(b) = n + 1 /\ m \in T
      <3>1. \A k \in 1 .. n : Meant(E, list[k]) \in T
        OBVIOUS
      <3>2. \A k \in 1 .. n + 1 : Meant(E, long[k]) \in T
        BY <1>1, <1>2
      <3> HIDE DEF T
      <3>3. a \in Seq(T) /\ Len(a) = n
        BY <1>1, <2>1, <3>1
      <3>4. b \in Seq(T) /\ Len(b) = n + 1
        BY <1>1, <2>1, <3>2
      <3> QED
        BY <3>3, <3>4 DEF T
    <2>3. \A k \in 1 .. n : b[k] = a[k]
      BY <1>1, <1>2, <2>1
    <2>4. b[n + 1] = m
      <3>1. n + 1 \in 1 .. n + 1
        BY <1>1
      <3> QED
        BY <1>1, <2>1, <3>1
    <2> HIDE DEF a, b, m, T
    <2>5. Append(a, m) \in Seq(T) /\ Len(Append(a, m)) = n + 1 /\ Append(a, m)[n + 1] = m
          /\ \A k \in 1 .. n : Append(a, m)[k] = a[k]
      BY <1>1, <2>2
    <2>6. \A k \in 1 .. n + 1 : b[k] = Append(a, m)[k]
      BY <1>2, <2>3, <2>4, <2>5
    <2>7. b = Append(a, m)
      BY <2>2, <2>5, <2>6, SeqEqual
    <2> QED
      BY <2>7 DEF a, b, m
  <1> QED
    BY <1>3, <1>4 DEF long

(* Only the inner frame and its context change.                             *)
LEMMA LinkTopStep ==
  ASSUME TypeInv, TypeInv', NEW s \in Shapes, NEW t \in Shapes, s.frames # <<>>, Fits(s), KnownInv(s),
         CountInv(s), LinkInv(s), NEW f \in Frames, t.frames = Pushed(f, Tail(s.frames)),
         t.seq = s.seq, t.held = "none", f.kind # "begun",
         NEW c \in Contexts, c.subject = Inner.subject, contexts' = Pushed(c, Outer),
         UNCHANGED <<bnpl_collection_list_stack, subject_, first_BNPL, parsed, denoted>>,
         \A h \in 1 .. InnerDepth(Tail(s.frames)) : /\ At(PairLists', h) = At(PairLists, h)
                                                    /\ At(verb_stack', h) = At(verb_stack, h),
         Linked(Empties, f, c, bnpl_collection_list', At(PairLists', f.depth), At(verb_stack', f.depth)),
         f.depth = 0 => verb_object_pair_list' = <<>>
  PROVE  LinkInv(t)'
PROOF
  <1> DEFINE r == Tail(s.frames)
  <1>1. Empties' = Empties /\ Agree(Empties, Empties)
    BY MeantFacts DEF Empties, Parsed
  <1>2. r \in Seq(Frames) /\ Head(s.frames) \in Frames /\ s.frames = Pushed(Head(s.frames), r)
    BY AtTail, ShapeFields
  <1>3. /\ Inner \in Contexts /\ Outer \in Seq(Contexts) /\ contexts = Pushed(Inner, Outer)
        /\ Len(Outer) = Len(r) /\ Len(bnpl_collection_list_stack') = Len(r)
    BY TopLinked
  <1>4. Links(Empties, r, Outer, bnpl_collection_list_stack, PairLists', verb_stack')
    BY <1>1, OuterLinked
  <1>5. Links(Empties', r, Outer, bnpl_collection_list_stack', PairLists', verb_stack')
    BY <1>1, <1>4
  <1>6. Linked(Empties', f, c, bnpl_collection_list', At(PairLists', f.depth), At(verb_stack', f.depth))
    BY <1>1
  <1> HIDE DEF r
  <1>7. /\ contexts' \in Seq(Contexts) /\ Len(contexts') = Len(Pushed(f, r))
        /\ Links(Empties', Pushed(f, r), contexts', Lists', PairLists', verb_stack')
    BY <1>2, <1>3, <1>5, <1>6, LinkedAgain
  <1>8. At(contexts', 1).subject = At(contexts, 1).subject
    <2>1. Len(Outer) = 0 \/ Len(Outer) > 0
      BY <1>3
    <2> QED
      BY <1>3, <2>1, BottomPushed
  <1>9. At(t.frames, 1).kind = "begun" => At(s.frames, 1).kind = "begun"
    <2>1. Len(r) = 0 \/ Len(r) > 0
      BY <1>2
    <2>2. t.frames = Pushed(f, r)
      BY DEF r
    <2> QED
      BY <1>2, <2>1, <2>2, BottomPushed
  <1>10. SubjectInv(t)'
    <2>1. SubjectInv(s) /\ Agree(Empties', Empties)
      BY <1>1 DEF LinkInv
    <2> QED
      BY <1>8, <1>9, <2>1, SubjectKept
  <1>11. Depth(t) = f.depth /\ t.frames # <<>>
    <2>1. Pushed(f, r) # <<>> /\ Head(Pushed(f, r)) = f
      BY <1>2, PushedOnto
    <2>2. t.frames = Pushed(f, r)
      BY DEF r
    <2> QED
      BY <2>1, <2>2 DEF Depth, InnerDepth
  <1>12. denoted' \in Meanings
    BY DEF LinkInv
  <1> QED
    BY <1>7, <1>10, <1>11, <1>12 DEF LinkInv, r

(* What is held is an object of the verb or an item of the collection.      *)
LEMMA LinkObjectStep ==
  ASSUME TypeInv, TypeInv', NEW s \in Shapes, NEW t \in Shapes, Fits(s), KnownInv(s), CountInv(s),
         LinkInv(s), Move("pushCurrentTerm", s, t), pushCurrentTermIntoBnpl_collection_list
  PROVE  LinkInv(t)'
PROOF
  <1>1. InnerIs(s, {"open", "collection"}) /\ s.held # "none" /\ t = Holding(s, "none")
    BY ObjectMoves
  <1> DEFINE f == Head(s.frames)
             c == WithObject(denoted)
             list == bnpl_collection_list
             v == Inner.verb
             p == At(PairLists, f.depth)
  <1>2. t.frames = s.frames /\ t.seq = s.seq /\ t.held = "none"
    BY <1>1, HoldingFacts
  <1>3. /\ s.frames # <<>> /\ f \in Frames /\ f.kind \in {"open", "collection"}
        /\ t.frames = Pushed(f, Tail(s.frames)) /\ f.depth = Depth(s)
    BY <1>1, <1>2, AtTail, ShapeFields DEF InnerIs, Depth, InnerDepth
  <1>4. /\ UNCHANGED <<bnpl_collection_list_stack, subject_, first_BNPL, parsed, denoted, PairLists,
                       verb_stack, verb_object_pair_list>>
        /\ list' = Append(list, element_) /\ contexts' = Pushed(c, Outer)
    BY DEF pushCurrentTermIntoBnpl_collection_list, verbVars, pairVars, PairLists, InnerBecomes
  <1>5. Inner \in Contexts /\ Linked(Empties, f, Inner, list, p, At(verb_stack, f.depth))
    BY <1>3, TopLinked
  <1>6. denoted \in Meanings /\ denoted = Meant(Empties, element_)
    BY <1>1 DEF LinkInv
  <1>7. /\ c \in Contexts /\ c.subject = Inner.subject /\ c.verb = v
        /\ v = None => c.items = Append(Inner.items, denoted) /\ c.pairs = Inner.pairs
        /\ v # None => c.pairs = Inner.pairs \cup {<<v, denoted>>}
    BY <1>5, <1>6, ObjectFacts
  <1>8. /\ ObjectsOf(Empties, v, list') = ObjectsOf(Empties, v, list) \cup {<<v, denoted>>}
        /\ ItemsOf(Empties, list') = Append(ItemsOf(Empties, list), denoted)
    <2>1. list \in Seq(Values) /\ element_ \in Values
      BY DEF TypeInv
    <2> QED
      BY <1>4, <1>6, <2>1, ObjectsAppended
  <1> HIDE DEF f, c, list, v, p
  <1>9. Linked(Empties, f, c, list', p, At(verb_stack, f.depth))
    <2>1. CASE f.kind = "open"
      <3>1. v # None /\ v = At(verb_stack, f.depth)
            /\ Inner.pairs = PairsOf(Empties, p) \cup ObjectsOf(Empties, v, list)
        BY <1>5, <2>1 DEF Linked, v
      <3>2. c.pairs = PairsOf(Empties, p) \cup ObjectsOf(Empties, v, list')
        BY <1>7, <1>8, <3>1
      <3> QED
        BY <1>7, <2>1, <3>1, <3>2 DEF Linked
    <2>2. CASE f.kind = "collection"
      <3>1. v = None /\ Inner.pairs = {} /\ Inner.items = ItemsOf(Empties, list)
        BY <1>5, <2>2 DEF Linked, v
      <3> QED
        BY <1>7, <1>8, <2>2, <3>1 DEF Linked
    <2> QED
      BY <1>3, <2>1, <2>2
  <1>10. Linked(Empties, f, c, bnpl_collection_list', At(PairLists', f.depth), At(verb_stack', f.depth))
    BY <1>4, <1>9 DEF list, p
  <1>11. f.depth = 0 => verb_object_pair_list' = <<>>
    BY <1>3, <1>4 DEF LinkInv
  <1>12. f.kind # "begun"
    BY <1>3
  <1>13. \A h \in 1 .. InnerDepth(Tail(s.frames)) : /\ At(PairLists', h) = At(PairLists, h)
                                                    /\ At(verb_stack', h) = At(verb_stack, h)
    BY <1>4
  <1> QED
    BY <1>2, <1>3, <1>4, <1>7, <1>10, <1>11, <1>12, <1>13, LinkTopStep

(* The verb opens a subject, a list, or either of them again.               *)
LEMMA LinkVerbStep ==
  ASSUME TypeInv, TypeInv', NEW s \in Shapes, NEW t \in Shapes, Fits(s), KnownInv(s), CountInv(s),
         LinkInv(s), Move("processVerb", s, t), processVerb, Fits(t)', CountInv(t)'
  PROVE  LinkInv(t)'
PROOF
  <1>1. AtVerb(s) /\ s.held = "term" /\ t = WithVerb(s, "open")
    BY VerbMoves
  <1> DEFINE g == Head(s.frames)
             f == Frame("open", VerbDepth(g))
             c == [Inner EXCEPT !.verb = denoted]
             list == bnpl_collection_list
             p == verb_object_pair_list
             n == Len(verb_stack)
  <1>2. s.frames # <<>> /\ g.kind \in {"subject", "list", "shut"} /\ g \in Frames /\ g.depth = Depth(s)
    BY <1>1, AtTail, ShapeFields DEF AtVerb, InnerIs, Depth, InnerDepth
  <1>3. /\ f \in Frames /\ f.kind = "open" /\ t.frames = Pushed(f, Tail(s.frames)) /\ t.seq = s.seq
        /\ t.held = "none"
    BY <1>1, <1>2, WithVerbFacts
  <1>4. /\ UNCHANGED <<bnpl_collection_list, bnpl_collection_list_stack, subject_, first_BNPL, parsed,
                       denoted>>
        /\ contexts' = Pushed(c, Outer) /\ verb_stack' = Pushed(element_, verb_stack)
        /\ OpensList => verb_object_pair_list' = <<>> /\ PairLists' = Pushed(<<>>, PairLists)
        /\ ~OpensList => verb_object_pair_list' = p /\ PairLists' = PairLists
    BY DEF processVerb, listVars, pairVars, PairLists, InnerBecomes
  <1>5. n = Verbs(s) /\ n \in Nat /\ f.depth = n + 1 /\ Depth(t) = n + 1
    <2>1. n = Verbs(s) /\ WellFormed(s.frames)
      BY DEF Fits
    <2>2. Depth(WithVerb(s, "open")) = Verbs(s) + 1 /\ Verbs(s) \in Nat
      BY <1>1, <2>1, VerbDepths
    <2>3. Depth(WithVerb(s, "open")) = f.depth
      BY <1>2, WithVerbFacts DEF Depth, InnerDepth
    <2> QED
      BY <1>1, <2>1, <2>2, <2>3
  <1>6. InnerDepth(Tail(s.frames)) = n
    <2>1. VerbDepth(g) = InnerDepth(Tail(s.frames)) + 1 /\ InnerDepth(Tail(s.frames)) \in Nat
      BY <1>2, WellFormedTop, ShapeFields DEF Fits
    <2>2. f.depth = VerbDepth(g)
      BY FrameFields
    <2> HIDE DEF f, g, n
    <2> QED
      BY <1>5, <2>1, <2>2
  <1>7. OpensList <=> g.kind = "list" /\ Depth(s) > 0
    BY <1>1, <1>2, OpensListInside DEF InnerIs
  <1>8. OpensList => Len(PairLists) = n
    <2>1. SUFFICES ASSUME OpensList
                   PROVE  Len(PairLists) = n
      OBVIOUS
    <2>2. Depth(s) > 0 /\ Verbs(s) = Depth(s) /\ Depth(s) \in Nat
      BY <1>1, <1>2, <1>7, <2>1, VerbDepths DEF Fits, InnerIs
    <2>3. Len(PairLists) = Len(verb_object_pair_list_stack) + 1
      BY ListsFacts
    <2>4. Before(Depth(s)) = Depth(s) - 1
      BY <2>2, BeforeFacts
    <2> QED
      BY <1>5, <2>2, <2>3, <2>4 DEF CountInv
  <1>9. \A h \in 1 .. n : At(PairLists', h) = At(PairLists, h) /\ At(verb_stack', h) = At(verb_stack, h)
    <2>1. \A h \in 1 .. n : At(verb_stack', h) = At(verb_stack, h)
      <3>1. verb_stack \in Seq(Values) /\ element_ \in Values
        BY DEF TypeInv
      <3>2. \A h \in 1 .. Len(verb_stack) : At(Pushed(element_, verb_stack), h) = At(verb_stack, h)
        BY <3>1, AtPushed
      <3> QED
        BY <1>4, <3>2
    <2>2. OpensList => \A h \in 1 .. n : At(PairLists', h) = At(PairLists, h)
      <3>1. PairLists \in Seq(Seq(KnownPairs)) /\ <<>> \in Seq(KnownPairs)
        BY ListsFacts, EmptySeq
      <3> DEFINE P == PairLists
      <3> HIDE DEF P
      <3>2. P \in Seq(Seq(KnownPairs))
        BY <3>1 DEF P
      <3>3. \A h \in 1 .. Len(P) : At(Pushed(<<>>, P), h) = At(P, h)
        <4> DEFINE S == Seq(KnownPairs)
        <4>1. P \in Seq(S) /\ <<>> \in S
          BY <3>1, <3>2
        <4> HIDE DEF S
        <4> QED
          BY <4>1, AtPushed
      <3>4. OpensList => PairLists' = Pushed(<<>>, P) /\ Len(P) = n
        BY <1>4, <1>8 DEF P
      <3> QED
        BY <3>3, <3>4 DEF P
    <2> QED
      BY <1>4, <2>1, <2>2
  <1>10. At(verb_stack', n + 1) = element_
    BY <1>4, AtPushed DEF TypeInv
  <1>11. At(PairLists', f.depth) = verb_object_pair_list'
    <2> DEFINE L == verb_object_pair_list_stack'
               l == verb_object_pair_list'
    <2>1. L \in Seq(Seq(Pairs)) /\ l \in Seq(Pairs)
      BY DEF TypeInv
    <2>2. Len(L) = Before(n + 1)
      <3>1. Len(L) = Before(Depth(t))
        BY DEF CountInv
      <3> QED
        BY <1>5, <3>1
    <2>3. n + 1 \in Nat /\ n + 1 > 0
      BY <1>5
    <2>4. PairLists' = Pushed(l, L)
      BY DEF PairLists
    <2> HIDE DEF L, l, n, f
    <2>5. At(PairLists', n + 1) = l
      BY <2>1, <2>2, <2>3, <2>4, TopAt
    <2> QED
      BY <1>5, <2>5 DEF l
  <1>12. /\ Inner \in Contexts
         /\ Linked(Empties, g, Inner, list, At(PairLists, g.depth), At(verb_stack, g.depth))
         /\ g.depth > 0 => At(PairLists, g.depth) = p
    BY <1>2, TopLinked
  <1>13. denoted = element_ /\ denoted # None /\ denoted \in Meanings
    <2>1. element_ \in TermsRead /\ denoted = Meant(Empties, element_) /\ denoted \in Meanings
      BY <1>1 DEF KnownInv, LinkInv
    <2>2. element_ \notin Empties /\ element_ # None
      BY <2>1, EmptiesFacts, KnownFacts
    <2> QED
      BY <2>1, <2>2 DEF Meant
  <1>14. c \in Contexts /\ c.subject = Inner.subject /\ c.verb = denoted /\ c.pairs = Inner.pairs
    BY <1>12, <1>13, ContextFacts
  <1>15. list = <<>> /\ Inner.pairs = PairsOf(Empties, verb_object_pair_list')
    <2>1. list = <<>>
      BY <1>2, <1>12 DEF Linked
    <2>2. CASE g.kind = "shut"
      <3>1. ~OpensList
        BY <1>7, <2>2
      <3>2. g.depth > 0
        BY <1>1, <1>2, <2>2, VerbDepths DEF InnerIs, Fits
      <3>3. Inner.pairs = PairsOf(Empties, p) \cup ObjectsOf(Empties, Inner.verb, list)
        BY <1>12, <2>2, <3>2 DEF Linked
      <3>4. ObjectsOf(Empties, Inner.verb, list) = {}
        BY <2>1, NoObjects
      <3> QED
        BY <1>4, <2>1, <3>1, <3>3, <3>4
    <2>3. CASE g.kind \in {"subject", "list"}
      <3>1. Inner.pairs = {}
        BY <1>12, <2>3 DEF Linked
      <3>2. verb_object_pair_list' = <<>>
        <4>1. CASE OpensList
          BY <1>4, <4>1
        <4>2. CASE ~OpensList
          <5>1. Depth(s) \in Nat /\ (g.kind = "subject" => Depth(s) = 0)
            BY <1>1, <1>2, VerbDepths DEF Fits, InnerIs
          <5>2. Depth(s) = 0
            BY <1>7, <2>3, <4>2, <5>1
          <5> QED
            BY <1>4, <4>2, <5>2 DEF LinkInv
        <4> QED
          BY <4>1, <4>2
      <3> QED
        BY <2>1, <3>1, <3>2, NoObjects
    <2> QED
      BY <1>2, <2>2, <2>3
  <1> HIDE DEF g, f, c, list, p, n
  <1>16. Linked(Empties, f, c, bnpl_collection_list', At(PairLists', f.depth), At(verb_stack', f.depth))
    <2>1. bnpl_collection_list' = <<>> /\ ObjectsOf(Empties, c.verb, bnpl_collection_list') = {}
      BY <1>4, <1>15, NoObjects DEF list
    <2>2. c.pairs = PairsOf(Empties, At(PairLists', f.depth))
                      \cup ObjectsOf(Empties, c.verb, bnpl_collection_list')
      BY <1>11, <1>14, <1>15, <2>1
    <2>3. c.verb # None /\ c.verb = At(verb_stack', f.depth)
      BY <1>5, <1>10, <1>13, <1>14
    <2> QED
      BY <1>3, <2>2, <2>3 DEF Linked
  <1>17. f.depth # 0 /\ f.kind # "begun"
    BY <1>3, <1>5
  <1> QED
    BY <1>2, <1>3, <1>4, <1>6, <1>9, <1>14, <1>16, <1>17, LinkTopStep

WithEach(verb, list) == [i \in 1 .. Len(list) |-> <<verb, list[i]>>]

LEMMA PairsAdded ==
  ASSUME NEW E, NEW verb, NEW S, NEW list \in Seq(S), NEW T, NEW pairs \in Seq(T),
         WithEach(verb, list) \in Seq(T)
  PROVE  PairsOf(E, pairs \o WithEach(verb, list)) = PairsOf(E, pairs) \cup ObjectsOf(E, verb, list)
PROOF
  <1> DEFINE new == WithEach(verb, list)
  <1>0. /\ new \in Seq(T) /\ Len(new) = Len(list)
        /\ \A j \in 1 .. Len(list) : new[j] = <<verb, list[j]>>
    <2>1. Len(list) \in Nat
      OBVIOUS
    <2> QED
      BY <2>1 DEF WithEach
  <1> HIDE DEF new
  <1> DEFINE long == pairs \o new
  <1>1. /\ \A j \in 1 .. Len(pairs) : j \in 1 .. Len(long) /\ long[j] = pairs[j]
        /\ \A j \in 1 .. Len(new) : Len(pairs) + j \in 1 .. Len(long) /\ long[Len(pairs) + j] = new[j]
        /\ \A j \in 1 .. Len(long) : \/ j \in 1 .. Len(pairs)
                                     \/ \E k \in 1 .. Len(new) : j = Len(pairs) + k
    BY <1>0, Concatenated
  <1>2. Len(new) = Len(list)
    BY <1>0
  <1>3. \A j \in 1 .. Len(list) : new[j][1] = verb /\ new[j][2] = list[j]
    BY <1>0
  <1> HIDE DEF long
  <1>4. \A x \in PairsOf(E, pairs) : x \in PairsOf(E, long)
    BY <1>1 DEF PairsOf
  <1>5. \A x \in ObjectsOf(E, verb, list) : x \in PairsOf(E, long)
    <2>1. SUFFICES ASSUME NEW j \in 1 .. Len(list)
                   PROVE  <<verb, Meant(E, list[j])>> \in PairsOf(E, long)
      BY DEF ObjectsOf
    <2>2. Len(pairs) + j \in 1 .. Len(long) /\ long[Len(pairs) + j] = new[j]
      BY <1>1, <1>2
    <2> QED
      BY <1>3, <2>2 DEF PairsOf
  <1>6. \A x \in PairsOf(E, long) : x \in PairsOf(E, pairs) \/ x \in ObjectsOf(E, verb, list)
    <2>1. SUFFICES ASSUME NEW j \in 1 .. Len(long)
                   PROVE  \/ <<long[j][1], Meant(E, long[j][2])>> \in PairsOf(E, pairs)
                          \/ <<long[j][1], Meant(E, long[j][2])>> \in ObjectsOf(E, verb, list)
      BY DEF PairsOf
    <2>2. CASE j \in 1 .. Len(pairs)
      BY <1>1, <2>2 DEF PairsOf
    <2>3. CASE \E k \in 1 .. Len(new) : j = Len(pairs) + k
      <3>1. PICK k \in 1 .. Len(new) : j = Len(pairs) + k
        BY <2>3
      <3>2. k \in 1 .. Len(list) /\ long[j] = new[k]
        BY <1>1, <1>2, <3>1
      <3>3. long[j][1] = verb /\ long[j][2] = list[k]
        BY <1>3, <3>2
      <3> QED
        BY <3>2, <3>3 DEF ObjectsOf
    <2> QED
      BY <1>1, <2>2, <2>3
  <1>7. PairsOf(E, long) = PairsOf(E, pairs) \cup ObjectsOf(E, verb, list)
    BY <1>4, <1>5, <1>6
  <1> QED
    BY <1>7 DEF long, new

(* The objects of the verb become pairs.                                    *)
LEMMA LinkPairsStep ==
  ASSUME TypeInv, TypeInv', NEW s \in Shapes, NEW t \in Shapes, Fits(s), KnownInv(s), CountInv(s),
         LinkInv(s), Move("processPredicateObjectListInner", s, t), processPredicateObjectListInner
  PROVE  LinkInv(t)'
PROOF
  <1>1. InnerIs(s, {"open"}) /\ s.held = "none" /\ t = WithVerb(s, "shut")
    BY VerbMoves
  <1> DEFINE g == Head(s.frames)
             d == Depth(s)
             f == Frame("shut", VerbDepth(g))
             list == bnpl_collection_list
             p == verb_object_pair_list
             new == WithEach(Head(verb_stack), list)
             L == verb_object_pair_list_stack
  <1>2. s.frames # <<>> /\ g.kind = "open" /\ g \in Frames /\ g.depth = d /\ VerbDepth(g) = d
    BY <1>1, AtTail, ShapeFields DEF InnerIs, Depth, InnerDepth, VerbDepth, Verbal
  <1>3. /\ f \in Frames /\ f.kind = "shut" /\ t.frames = Pushed(f, Tail(s.frames)) /\ t.seq = s.seq
        /\ t.held = "none" /\ f.depth = d
    BY <1>1, <1>2, WithVerbFacts
  <1>4. /\ UNCHANGED <<bnpl_collection_list_stack, subject_, first_BNPL, parsed, denoted, L>>
        /\ contexts' = contexts /\ verb_stack' = Tail(verb_stack)
        /\ list' = <<>> /\ p' = p \o new /\ PairLists' = Pushed(p', L)
    BY DEF processPredicateObjectListInner, meaningVars, PairLists, WithEach
  <1>5. d \in Nat /\ d > 0 /\ Len(L) = Before(d) /\ Before(d) = d - 1 /\ InnerDepth(Tail(s.frames)) = d - 1
    <2>1. d \in Nat /\ d > 0
      BY <1>1, DepthFacts DEF Fits, InnerIs
    <2>2. Len(L) = Before(d)
      BY DEF CountInv
    <2>3. VerbDepth(g) = InnerDepth(Tail(s.frames)) + 1 /\ InnerDepth(Tail(s.frames)) \in Nat
      BY <1>2, WellFormedTop, ShapeFields DEF Fits
    <2> HIDE DEF d, L, g
    <2>4. Before(d) = d - 1
      BY <2>1, BeforeFacts
    <2>5. InnerDepth(Tail(s.frames)) = d - 1
      BY <1>2, <2>1, <2>3
    <2> QED
      BY <2>1, <2>2, <2>4, <2>5
  <1>6. /\ Inner \in Contexts /\ contexts = Pushed(Inner, Outer)
        /\ Linked(Empties, g, Inner, list, At(PairLists, d), At(verb_stack, d))
        /\ At(PairLists, d) = p /\ verb_stack # <<>> /\ Len(verb_stack) = d
        /\ At(verb_stack, d) = Head(verb_stack)
    BY <1>2, <1>5, TopLinked
  <1>7. /\ Inner.verb # None /\ Inner.verb = Head(verb_stack)
        /\ Inner.pairs = PairsOf(Empties, p) \cup ObjectsOf(Empties, Inner.verb, list)
    BY <1>2, <1>6 DEF Linked
  <1>8. p \in Seq(Pairs) /\ list \in Seq(Values) /\ Head(verb_stack) \in Values /\ L \in Seq(Seq(Pairs))
        /\ verb_stack \in Seq(Values) /\ p' \in Seq(Pairs)
    BY <1>6, AtTail DEF TypeInv
  <1>9. new \in Seq(Pairs)
    <2>1. list \in Seq(Values) /\ Head(verb_stack) \in Values
      BY <1>8
    <2> HIDE DEF list
    <2>2. Len(list) \in Nat /\ \A i \in 1 .. Len(list) : <<Head(verb_stack), list[i]>> \in Pairs
      BY <2>1 DEF Pairs
    <2> QED
      BY <2>2 DEF WithEach
  <1>10. PairsOf(Empties, p') = PairsOf(Empties, p) \cup ObjectsOf(Empties, Inner.verb, list)
    <2>1. list \in Seq(Values) /\ p \in Seq(Pairs) /\ new \in Seq(Pairs)
      BY <1>8, <1>9
    <2> DEFINE v == Head(verb_stack)
    <2>2. WithEach(v, list) \in Seq(Pairs)
      BY <2>1
    <2> HIDE DEF p, list, v
    <2>3. PairsOf(Empties, p \o WithEach(v, list)) = PairsOf(Empties, p) \cup ObjectsOf(Empties, v, list)
      BY <2>1, <2>2, PairsAdded
    <2> QED
      BY <1>4, <1>7, <2>3 DEF v
  <1>11. At(PairLists', d) = p'
         /\ \A h \in 1 .. d - 1 : At(PairLists', h) = At(PairLists, h)
    <2>1. PairLists = Pushed(p, L)
      BY DEF PairLists
    <2> DEFINE q == p'
    <2>2. q \in Seq(Pairs) /\ PairLists' = Pushed(q, L)
      BY <1>4, <1>8
    <2> HIDE DEF p, L, d, q
    <2>3. p \in Seq(Pairs) /\ L \in Seq(Seq(Pairs)) /\ d \in Nat /\ d > 0 /\ Len(L) = Before(d)
      BY <1>5, <1>8
    <2>4. /\ At(Pushed(q, L), d) = q
          /\ \A h \in 1 .. d - 1 : At(Pushed(q, L), h) = At(L, h)
      BY <2>2, <2>3, TopAt
    <2>5. \A h \in 1 .. d - 1 : At(Pushed(p, L), h) = At(L, h)
      BY <2>3, TopAt
    <2> QED
      BY <2>1, <2>2, <2>4, <2>5 DEF q
  <1>12. \A h \in 1 .. d - 1 : At(verb_stack', h) = At(verb_stack, h)
    BY <1>4, <1>6, <1>8, AtTail
  <1>13. Linked(Empties, f, Inner, list', At(PairLists', f.depth), At(verb_stack', f.depth))
    <2>1. ObjectsOf(Empties, Inner.verb, list') = {}
      BY <1>4, NoObjects
    <2> HIDE DEF f, list, p, d
    <2>2. Inner.pairs = PairsOf(Empties, At(PairLists', f.depth)) \cup ObjectsOf(Empties, Inner.verb, list')
      BY <1>3, <1>7, <1>10, <1>11, <2>1
    <2> QED
      BY <1>3, <1>4, <1>7, <2>2 DEF Linked
  <1> HIDE DEF f, p, d, L, g, new
  <1>14. contexts' = Pushed(Inner, Outer) /\ f.depth # 0 /\ f.kind # "begun"
    BY <1>3, <1>4, <1>5, <1>6
  <1>15. \A h \in 1 .. InnerDepth(Tail(s.frames)) : /\ At(PairLists', h) = At(PairLists, h)
                                                    /\ At(verb_stack', h) = At(verb_stack, h)
    BY <1>5, <1>11, <1>12
  <1> QED
    BY <1>2, <1>3, <1>4, <1>6, <1>13, <1>14, <1>15, LinkTopStep

LEMMA NoItems ==
  ASSUME NEW E
  PROVE  ItemsOf(E, <<>>) = <<>>
PROOF
  <1>1. Len(<<>>) = 0 /\ 1 .. 0 = {}
    BY EmptySeq
  <1>2. ItemsOf(E, <<>>) = [k \in 1 .. 0 |-> Meant(E, <<>>[k])]
    BY <1>1 DEF ItemsOf
  <1>3. [k \in 1 .. 0 |-> Meant(E, <<>>[k])] \in Seq({}) /\ Len([k \in 1 .. 0 |-> Meant(E, <<>>[k])]) = 0
    BY <1>1
  <1> QED
    BY <1>2, <1>3

(* A bracket begins with a context of its own.                              *)
LEMMA LinkMoveStep ==
  ASSUME TypeInv, TypeInv', NEW s \in Shapes, NEW t \in Shapes, Fits(s), KnownInv(s), CountInv(s),
         LinkInv(s), NEW rule, Matched(rule), Move(rule, s, t), moveBnpl_collection_listIntoStack
  PROVE  LinkInv(t)'
PROOF
  <1>1. \E kind \in {"list", "collection"} : AtBracket(s) /\ t = Opened(s, kind)
    <2>1. rule \in {"collectionBegin", "blankNodePropertyListBegin"}
      BY DEF moveBnpl_collection_listIntoStack, Matched
    <2> QED
      BY <2>1, ObjectMoves
  <1>2. PICK kind \in {"list", "collection"} : AtBracket(s) /\ t = Opened(s, kind)
    BY <1>1
  <1> DEFINE f == Frame(kind, Head(s.frames).depth)
             r == s.frames
  <1>3. s.frames # <<>>
    BY <1>2 DEF AtBracket, InnerIs
  <1>4. /\ f \in Frames /\ f.kind = kind /\ t.frames = Pushed(f, r) /\ t.frames # <<>>
        /\ t.held = "none" /\ t.seq = s.seq /\ Depth(t) = Depth(s) /\ r \in Seq(Frames)
    <2>1. /\ f \in Frames /\ t.frames = Pushed(f, r) /\ t.frames # <<>>
          /\ t.held = "none" /\ t.seq = s.seq
      BY <1>2, <1>3, OpenedFacts
    <2>2. f.kind = kind
      BY FrameFields
    <2>3. Depth(t) = Depth(s)
      BY <1>2, OpenedSizes
    <2> QED
      BY <2>2, <2>1, <2>3, ShapeFields
  <1>5. /\ UNCHANGED <<subject_, first_BNPL, denoted, verb_stack, verb_object_pair_list, PairLists>>
        /\ bnpl_collection_list' = <<>> /\ bnpl_collection_list_stack' = Lists
        /\ contexts' = Pushed(Context, contexts)
    BY DEF moveBnpl_collection_listIntoStack, verbVars, pairVars, PairLists, Lists
  <1>6. Empties' = Empties /\ Agree(Empties', Empties)
    BY MeantFacts DEF moveBnpl_collection_listIntoStack, Empties, Parsed
  <1>7. /\ contexts \in Seq(Contexts) /\ Len(contexts) = Len(r) /\ denoted \in Meanings
        /\ Links(Empties, r, contexts, Lists, PairLists, verb_stack)
        /\ (Depth(s) = 0 => verb_object_pair_list = <<>>) /\ SubjectInv(s)
    BY DEF LinkInv
  <1>8. Len(Lists) = Len(r) /\ Len(r) \in Nat /\ Len(r) > 0
    <2>1. Len(Lists) = Len(bnpl_collection_list_stack) + 1
      BY ListsFacts
    <2>2. Len(r) \in Nat /\ Len(r) > 0
      BY <1>3, <1>4
    <2>3. Len(bnpl_collection_list_stack) = Before(Len(r)) /\ Before(Len(r)) = Len(r) - 1
      BY <2>2, BeforeFacts DEF Fits
    <2> QED
      BY <2>1, <2>2, <2>3
  <1> HIDE DEF f, r
  <1>9. Linked(Empties', f, Context, bnpl_collection_list', At(PairLists', f.depth), At(verb_stack', f.depth))
    BY <1>4, <1>5, ContextFacts, NoItems DEF Linked
  <1>10. /\ contexts' \in Seq(Contexts) /\ Len(contexts') = Len(Pushed(f, r))
         /\ Links(Empties', Pushed(f, r), contexts', Lists', PairLists', verb_stack')
    <2>1. Links(Empties', r, contexts, bnpl_collection_list_stack', PairLists', verb_stack')
      BY <1>5, <1>6, <1>7
    <2>2. Len(bnpl_collection_list_stack') = Len(r) /\ Context \in Contexts
      BY <1>5, <1>8, ContextFacts
    <2> QED
      BY <1>4, <1>5, <1>7, <1>9, <2>1, <2>2, LinkedAgain
  <1>11. At(contexts', 1) = At(contexts, 1) /\ At(t.frames, 1) = At(s.frames, 1)
    <2>1. At(Pushed(Context, contexts), 1) = At(contexts, 1)
      BY <1>7, <1>8, ContextFacts, BottomPushed
    <2>2. At(Pushed(f, r), 1) = At(r, 1)
      BY <1>4, <1>8, BottomPushed
    <2> QED
      BY <1>4, <1>5, <2>1, <2>2 DEF r
  <1>12. SubjectInv(t)'
    BY <1>3, <1>4, <1>5, <1>6, <1>7, <1>11, SubjectKept
  <1> QED
    BY <1>4, <1>5, <1>7, <1>10, <1>12 DEF LinkInv

(* The frame and context around a bracket that is closed.                   *)
LEMMA ClosedBottom ==
  ASSUME NEW s, NEW r, NEW S, r \in Seq(S), r # <<>>, NEW x \in S, s = Pushed(x, r)
  PROVE  At(r, 1) = At(s, 1)
PROOF
  <1>1. Len(r) > 0
    OBVIOUS
  <1> QED
    BY <1>1, BottomPushed

LEMMA ClosingLinked ==
  ASSUME TypeInv, NEW s \in Shapes, Fits(s), KnownInv(s), CountInv(s), LinkInv(s),
         s.frames # <<>>, Tail(s.frames) # <<>>
  PROVE  /\ Tail(s.frames) \in Seq(Frames) /\ Len(Tail(s.frames)) > 0
         /\ Outer \in Seq(Contexts) /\ Len(Outer) = Len(Tail(s.frames)) /\ Outer # <<>>
         /\ At(Outer, 1) = At(contexts, 1) /\ At(Tail(s.frames), 1) = At(s.frames, 1)
         /\ bnpl_collection_list_stack # <<>>
         /\ RestoreList => Lists' = bnpl_collection_list_stack
PROOF
  <1> DEFINE r == Tail(s.frames)
  <1>1. r \in Seq(Frames) /\ Head(s.frames) \in Frames /\ s.frames = Pushed(Head(s.frames), r)
    BY AtTail, ShapeFields
  <1>2. /\ Inner \in Contexts /\ Outer \in Seq(Contexts) /\ contexts = Pushed(Inner, Outer)
        /\ Len(Outer) = Len(r) /\ Len(bnpl_collection_list_stack) = Len(r)
    BY TopLinked
  <1> HIDE DEF r
  <1>3. r # <<>> /\ Len(r) > 0
    <2>1. r # <<>>
      BY DEF r
    <2> QED
      BY <1>1, <2>1
  <1>4. Outer # <<>> /\ bnpl_collection_list_stack # <<>>
    BY <1>2, <1>3, EmptySeq
  <1>5. At(Outer, 1) = At(contexts, 1)
    BY <1>2, <1>4, ClosedBottom
  <1>6. At(r, 1) = At(s.frames, 1)
    BY <1>1, <1>3, ClosedBottom
  <1>7. RestoreList => Lists' = bnpl_collection_list_stack
    <2>1. bnpl_collection_list_stack = Pushed(Head(bnpl_collection_list_stack),
                                              Tail(bnpl_collection_list_stack))
      BY <1>4, AtTail DEF TypeInv
    <2> QED
      BY <2>1 DEF RestoreList, Lists
  <1> QED
    BY <1>1, <1>2, <1>3, <1>4, <1>5, <1>6, <1>7 DEF r

LEMMA LinkCollectionStep ==
  ASSUME TypeInv, TypeInv', NEW s \in Shapes, NEW t \in Shapes, Fits(s), KnownInv(s), CountInv(s),
         LinkInv(s), Move("processCollection", s, t), processCollection
  PROVE  LinkInv(t)'
PROOF
  <1> DEFINE r == Tail(s.frames)
             list == bnpl_collection_list
  <1>1. /\ s.frames # <<>> /\ r # <<>> /\ Head(s.frames).kind = "collection"
        /\ t = Shape(r, "any", s.seq)
    BY ClosingFacts
  <1>2. t.frames = r /\ t.seq = s.seq /\ t.frames # <<>>
    <2> HIDE DEF r
    <2> QED
      BY <1>1, ShapeFields
  <1>3. Depth(t) = Depth(s)
    BY <1>1, ClosedSizes DEF Fits, InnerIs
  <1>4. /\ r \in Seq(Frames) /\ Outer \in Seq(Contexts) /\ Len(Outer) = Len(r)
        /\ At(Outer, 1) = At(contexts, 1) /\ At(r, 1) = At(s.frames, 1)
        /\ Lists' = bnpl_collection_list_stack
    <2>1. RestoreList
      BY DEF processCollection
    <2> QED
      BY <1>1, <2>1, ClosingLinked
  <1>5. /\ UNCHANGED <<subject_, first_BNPL, verb_stack, verb_object_pair_list, PairLists>>
        /\ contexts' = Outer /\ denoted' = Node(Inner.items, latest_BN_label, 1)
        /\ element_' = BNode(latest_BN_label' - 1)
        /\ latest_BN_label' = latest_BN_label + (IF list = <<>> THEN 1 ELSE Len(list))
    BY DEF processCollection, verbVars, pairVars, PairLists
  <1>6. /\ list = <<>> => Empties' = Empties \cup {BNode(latest_BN_label)}
        /\ list # <<>> => Empties' = Empties
        /\ Agree(Empties', Empties)
    BY EmptiesCollection
  <1>7. Links(Empties', r, Outer, bnpl_collection_list_stack, PairLists', verb_stack')
    <2>1. \A h \in 1 .. InnerDepth(Tail(s.frames)) : /\ At(PairLists', h) = At(PairLists, h)
                                                     /\ At(verb_stack', h) = At(verb_stack, h)
      BY <1>5
    <2> QED
      BY <1>1, <1>6, <2>1, OuterLinked
  <1>8. SubjectInv(t)'
    <2>1. SubjectInv(s)
      BY DEF LinkInv
    <2>2. At(contexts', 1).subject = At(contexts, 1).subject
      BY <1>4, <1>5
    <2>3. At(t.frames, 1).kind = "begun" => At(s.frames, 1).kind = "begun"
      BY <1>2, <1>4
    <2> QED
      BY <1>1, <1>2, <1>5, <1>6, <2>1, <2>2, <2>3, SubjectKept
  <1>9. Inner.items = ItemsOf(Empties, list) /\ list \in Seq(Values)
    BY <1>1, TopLinked DEF Linked, TypeInv
  <1>10. denoted' = Meant(Empties', element_') /\ denoted' \in Meanings
    <2>1. CASE list = <<>>
      <3>1. Len(Inner.items) = 0
        BY <1>9, <2>1, NoItems, EmptySeq
      <3>2. denoted' = nil
        BY <1>5, <3>1 DEF Node
      <3>3. element_' = BNode(latest_BN_label)
        <4>1. latest_BN_label' = latest_BN_label + 1
          BY <1>5, <2>1
        <4>2. latest_BN_label' - 1 = latest_BN_label
          BY <4>1 DEF TypeInv
        <4> QED
          BY <1>5, <4>2
      <3> QED
        BY <1>6, <2>1, <3>2, <3>3 DEF Meant, Meanings
    <2>2. CASE list # <<>>
      <3> DEFINE n == Len(list)
      <3>1. n \in Nat /\ n >= 1
        BY <1>9, <2>2
      <3>2. Len(Inner.items) = n
        BY <1>9, <3>1 DEF ItemsOf
      <3>3. element_' = BNode(latest_BN_label + n - 1) /\ denoted' = element_'
        <4>1. latest_BN_label' = latest_BN_label + n
          BY <1>5, <2>2
        <4>2. denoted' = BNode(latest_BN_label + n - 1)
          BY <1>5, <3>1, <3>2 DEF Node
        <4>3. latest_BN_label' - 1 = latest_BN_label + n - 1
          <5>1. latest_BN_label \in Nat /\ latest_BN_label' = latest_BN_label + n /\ n \in Nat
            BY <3>1, <4>1 DEF TypeInv
          <5> HIDE DEF n
          <5> QED
            BY <5>1
        <4>4. element_' = BNode(latest_BN_label + n - 1)
          BY <1>5, <4>3
        <4> QED
          BY <4>2, <4>4
      <3>4. element_' \notin Empties
        <4>1. Empties \subseteq NodesMade
          BY EmptiesFacts
        <4>2. \A k \in Nat : BNode(latest_BN_label + k) \notin Known
          BY KnownFacts
        <4>3. n - 1 \in Nat /\ latest_BN_label + n - 1 = latest_BN_label + (n - 1)
          BY <3>1 DEF TypeInv
        <4> HIDE DEF n
        <4>4. BNode(latest_BN_label + n - 1) \notin Known
          BY <4>2, <4>3
        <4> QED
          BY <3>3, <4>1, <4>4 DEF Known
      <3> QED
        BY <1>6, <2>2, <3>3, <3>4 DEF Meant, Meanings, TypeInv
    <2> QED
      BY <2>1, <2>2
  <1>11. Depth(t) = 0 => verb_object_pair_list' = <<>>
    BY <1>3, <1>5 DEF LinkInv
  <1> QED
    BY <1>2, <1>4, <1>5, <1>7, <1>8, <1>10, <1>11 DEF LinkInv

LEMMA PushedOnNothing == \A x : Pushed(x, <<>>) = <<x>>
PROOF
  BY DEF Pushed

LEMMA Singleton ==
  ASSUME NEW S, NEW q \in Seq(S), Len(q) = 1
  PROVE  /\ q # <<>> /\ q = <<Head(q)>> /\ Head(q) \in S /\ q[1] = Head(q) /\ Tail(q) = <<>>
PROOF
  <1>1. q # <<>>
    BY EmptySeq
  <1>2. Tail(q) = <<>>
    <2>1. Tail(q) \in Seq(S) /\ Len(Tail(q)) = 0
      BY <1>1, AtTail
    <2> DEFINE r == Tail(q)
    <2> HIDE DEF r
    <2>2. r \in Seq(S) /\ Len(r) = 0
      BY <2>1 DEF r
    <2>3. r = <<>>
      BY <2>2
    <2> QED
      BY <2>3 DEF r
  <1>3. q = Pushed(Head(q), Tail(q)) /\ Head(q) \in S
    BY <1>1, AtTail
  <1>4. q = <<Head(q)>>
    BY <1>2, <1>3, PushedOnNothing
  <1> QED
    BY <1>1, <1>2, <1>3, <1>4

(* When no verb has been read around a list, it is within the subject.      *)
LEMMA BeginsStatement ==
  ASSUME NEW s \in Shapes, WellFormed(s.frames), s.frames # <<>>, Tail(s.frames) # <<>>,
         InnerDepth(Tail(s.frames)) = 0
  PROVE  At(s.frames, 1).kind = "begun"
PROOF
  <1> DEFINE frames == s.frames
             n == Len(frames)
  <1>1. frames \in Seq(Frames) /\ n \in Nat /\ n > 1
    <2>1. frames \in Seq(Frames)
      BY ShapeFields
    <2> QED
      BY <2>1
  <1>2. At(frames, 1) \in Frames /\ At(frames, 1).depth \in Nat
    <2>1. n + 1 - 1 \in 1 .. n
      <3> HIDE DEF n
      <3> QED
        BY <1>1
    <2>2. At(frames, 1) \in Frames
      BY <1>1, <2>1 DEF At
    <2> QED
      BY <2>2, FrameFields
  <1>3. 1 \in 1 .. n /\ 1 \in 1 .. n - 1 /\ 1 < n
    <2> HIDE DEF n
    <2> QED
      BY <1>1
  <1>4. At(frames, 1).depth = 0
    <2>1. \A i \in 1 .. n - 1 : At(frames, i).depth <= InnerDepth(Tail(frames))
      BY WellFormedTop, ShapeFields
    <2> HIDE DEF n
    <2>2. At(frames, 1).depth <= 0
      BY <1>3, <2>1
    <2> QED
      BY <1>2, <2>2
  <1>5. /\ At(frames, 1).kind \in {"list", "collection"} => 1 > 1
        /\ At(frames, 1).kind \in {"open", "collection", "begun"}
        /\ DepthOver(At(frames, 1), Below(frames, 1))
    BY <1>3 DEF WellFormed
  <1>6. At(frames, 1).kind # "open"
    <2>1. Below(frames, 1) = 0
      BY DEF Below
    <2> QED
      BY <1>4, <1>5, <2>1 DEF DepthOver, Verbal
  <1> QED
    BY <1>5, <1>6

(* What is left when the list that begins a statement is closed.            *)
LEMMA OnlyBegun ==
  ASSUME NEW frames \in Seq(Frames), WellFormed(frames), Len(frames) = 1,
         Head(frames).kind = "begun"
  PROVE  frames = Begun
PROOF
  <1> DEFINE f == Head(frames)
  <1>1. frames # <<>> /\ f \in Frames /\ frames = <<f>> /\ Tail(frames) = <<>>
    BY Singleton
  <1>2. f.depth = 0
    <2>1. FitsOn(f, Tail(frames))
      BY <1>1, WellFormedTop
    <2> QED
      BY <1>1, <2>1 DEF FitsOn, InnerDepth, DepthOver, Verbal
  <1>3. f = Frame("begun", 0)
    BY <1>1, <1>2, FrameFields
  <1> QED
    BY <1>1, <1>3 DEF Begun

(* The sizes before a list is closed.                                       *)
LEMMA ListDepths ==
  ASSUME TypeInv, NEW s \in Shapes, Fits(s), CountInv(s), InnerIs(s, {"shut"})
  PROVE  LET d == InnerDepth(Tail(s.frames))
         IN  /\ d \in Nat /\ Depth(s) = d + 1 /\ Len(verb_object_pair_list_stack) = d
             /\ verb_object_pair_list_stack = <<>> <=> d = 0
PROOF
  <1> DEFINE d == InnerDepth(Tail(s.frames))
  <1>1. VerbDepth(Head(s.frames)) = d + 1 /\ d \in Nat
    BY WellFormedTop, ShapeFields DEF Fits, InnerIs
  <1>2. VerbDepth(Head(s.frames)) = Depth(s)
    BY DEF InnerIs, VerbDepth, Verbal, Depth, InnerDepth
  <1>3. Len(verb_object_pair_list_stack) = Before(Depth(s))
    BY DEF CountInv
  <1> HIDE DEF d
  <1>4. Depth(s) = d + 1 /\ Len(verb_object_pair_list_stack) = d
    BY <1>1, <1>2, <1>3, BeforeFacts
  <1>5. verb_object_pair_list_stack = <<>> <=> d = 0
    <2>1. verb_object_pair_list_stack \in Seq(Seq(Pairs))
      BY DEF TypeInv
    <2> QED
      BY <1>4, <2>1, EmptySeq
  <1> QED
    BY <1>1, <1>4, <1>5 DEF d

(* The context that is left when a list is closed.                          *)
LEMMA ListContext ==
  ASSUME TypeInv, NEW s \in Shapes, Fits(s), KnownInv(s), CountInv(s), LinkInv(s),
         InnerIs(s, {"shut"}), Tail(s.frames) # <<>>, NEW node
  PROVE  /\ Tail(s.frames) = Begun =>
              /\ Outer = <<Head(Outer)>> /\ Head(Outer) \in Contexts
              /\ Head(Outer).verb = None /\ Head(Outer).pairs = {}
              /\ bnpl_collection_list_stack = <<<<>>>>
              /\ ClosedBy(node) = <<[Head(Outer) EXCEPT !.subject = node]>>
         /\ Tail(s.frames) # Begun => ClosedBy(node) = Outer
PROOF
  <1> DEFINE r == Tail(s.frames)
             L == bnpl_collection_list_stack
  <1>1. s.frames # <<>> /\ WellFormed(r) /\ r # <<>>
    BY WellFormedTop, ShapeFields DEF Fits, InnerIs
  <1>2. /\ r \in Seq(Frames) /\ Len(r) > 0 /\ Outer \in Seq(Contexts) /\ Len(Outer) = Len(r) /\ Outer # <<>>
        /\ At(Outer, 1) = At(contexts, 1) /\ At(r, 1) = At(s.frames, 1)
    BY <1>1, ClosingLinked
  <1>3. /\ Links(Empties, r, Outer, L, PairLists, verb_stack) /\ Len(L) = Len(r)
        /\ L \in Seq(Seq(Values))
    BY <1>1, TopLinked DEF TypeInv
  <1>4. Len(r) = 1 => /\ Outer = <<Head(Outer)>> /\ Head(Outer) \in Contexts /\ L = <<Head(L)>>
                      /\ At(r, 1) = Head(r) /\ At(Outer, 1) = Head(Outer) /\ At(L, 1) = Head(L)
                      /\ Tail(Outer) = <<>>
    <2> HIDE DEF r, L
    <2>1. SUFFICES ASSUME Len(r) = 1
                   PROVE  /\ Outer = <<Head(Outer)>> /\ Head(Outer) \in Contexts /\ L = <<Head(L)>>
                          /\ At(r, 1) = Head(r) /\ At(Outer, 1) = Head(Outer) /\ At(L, 1) = Head(L)
                          /\ Tail(Outer) = <<>>
      OBVIOUS
    <2>3. Len(Outer) = 1 /\ Len(L) = 1 /\ 1 + 1 - 1 = 1
      BY <1>2, <1>3, <2>1
    <2>4. r[1] = Head(r)
      BY <1>2, <2>1, Singleton
    <2>5. Outer = <<Head(Outer)>> /\ Head(Outer) \in Contexts /\ Outer[1] = Head(Outer) /\ Tail(Outer) = <<>>
      BY <1>2, <2>3, Singleton
    <2>6. L = <<Head(L)>> /\ L[1] = Head(L)
      BY <1>3, <2>3, Singleton
    <2> QED
      BY <2>1, <2>3, <2>4, <2>5, <2>6 DEF At
  <1>5. Len(r) = 1 => Linked(Empties, Head(r), Head(Outer), Head(L), At(PairLists, Head(r).depth),
                             At(verb_stack, Head(r).depth))
    <2> HIDE DEF r, L
    <2>1. Len(r) = 1 => 1 \in 1 .. Len(r)
      BY <1>2
    <2> QED
      BY <1>3, <1>4, <2>1 DEF Links
  <1>6. Head(r).kind = "begun" /\ Len(r) = 1 => Head(Outer).subject = None
    <2>1. Len(r) = 1 => At(contexts, 1) = Head(Outer) /\ At(s.frames, 1) = Head(r)
      <3> HIDE DEF r
      <3> QED
        BY <1>2, <1>4
    <2> QED
      BY <1>1, <2>1 DEF LinkInv, SubjectInv
  <1>7. r = Begun => Len(r) = 1 /\ Head(r).kind = "begun"
    BY StatementFrames
  <1>8. r # Begun /\ Len(r) = 1 => Head(Outer).verb # None
    <2>1. r # Begun /\ Len(r) = 1 => Head(r).kind = "open"
      <3>1. SUFFICES ASSUME r # Begun, Len(r) = 1
                     PROVE  Head(r).kind = "open"
        OBVIOUS
      <3>2. Head(r).kind # "begun"
        <4> HIDE DEF r
        <4> QED
          BY <1>1, <1>2, <3>1, OnlyBegun
      <3>3. FitsOn(Head(s.frames), r)
        BY <1>1, WellFormedTop, ShapeFields DEF Fits
      <3>4. Head(r).kind \in {"open", "collection", "begun"}
        BY <1>1, <3>3 DEF FitsOn
      <3>5. Head(r).kind # "collection"
        <4> HIDE DEF r
        <4>1. FitsOn(Head(r), Tail(r))
          BY <1>1, <1>2, WellFormedTop
        <4>2. Tail(r) = <<>>
          BY <1>2, <3>1, Singleton
        <4> QED
          BY <4>1, <4>2 DEF FitsOn
      <3> QED
        BY <3>2, <3>4, <3>5
    <2> QED
      BY <1>5, <2>1 DEF Linked
  <1> HIDE DEF r, L
  <1>9. r # Begun => ClosedBy(node) = Outer
    BY <1>2, <1>8 DEF ClosedBy
  <1>10. r = Begun => /\ Head(Outer).verb = None /\ Head(Outer).pairs = {} /\ Head(L) = <<>>
    BY <1>5, <1>7 DEF Linked
  <1>11. r = Begun => ClosedBy(node) = <<[Head(Outer) EXCEPT !.subject = node]>>
    <2>1. SUFFICES ASSUME r = Begun
                   PROVE  ClosedBy(node) = <<[Head(Outer) EXCEPT !.subject = node]>>
      OBVIOUS
    <2>2. ClosedBy(node) = Pushed([Head(Outer) EXCEPT !.subject = node], Tail(Outer))
      BY <1>2, <1>6, <1>7, <1>10, <2>1 DEF ClosedBy
    <2>3. Tail(Outer) = <<>>
      BY <1>4, <1>7, <2>1
    <2> QED
      BY <2>2, <2>3, PushedOnNothing
  <1> QED
    BY <1>4, <1>7, <1>9, <1>10, <1>11 DEF r, L

(* What closing a list changes.                                             *)
LEMMA ListClosing ==
  ASSUME TypeInv, NEW s \in Shapes, NEW t \in Shapes, Fits(s), KnownInv(s), CountInv(s), LinkInv(s),
         Move("processBlankNodePropertyList", s, t), processBlankNodePropertyList
  PROVE  LET d == InnerDepth(Tail(s.frames))
             node == BNode(latest_BN_label)
         IN  /\ InnerIs(s, {"shut"}) /\ s.frames # <<>> /\ Tail(s.frames) # <<>> /\ d \in Nat
             /\ Lists' = bnpl_collection_list_stack
             /\ contexts' = ClosedBy(node) /\ denoted' = node /\ element_' = node
             /\ UNCHANGED <<subject_, verb_stack>>
             /\ d = 0 => verb_object_pair_list' = <<>> /\ first_BNPL' = node
             /\ d # 0 => first_BNPL' = first_BNPL
             /\ \A h \in 1 .. d : At(PairLists', h) = At(PairLists, h)
             /\ Empties' = Empties /\ Agree(Empties', Empties)
             /\ node \notin Empties /\ node \in Meanings
PROOF
  <1> DEFINE d == InnerDepth(Tail(s.frames))
             node == BNode(latest_BN_label)
             p == verb_object_pair_list
             L == verb_object_pair_list_stack
  <1>1. /\ s.frames # <<>> /\ Tail(s.frames) # <<>> /\ Head(s.frames).kind = "shut"
        /\ bnpl_collection_list_stack # <<>>
    BY ClosingFacts
  <1>2. InnerIs(s, {"shut"})
    BY <1>1 DEF InnerIs
  <1>3. d \in Nat /\ Depth(s) = d + 1 /\ Len(L) = d /\ (L = <<>> <=> d = 0)
    BY <1>2, ListDepths
  <1>4. /\ contexts' = ClosedBy(node) /\ denoted' = node /\ element_' = node
        /\ UNCHANGED <<subject_, verb_stack>>
        /\ L = <<>> => p' = <<>> /\ first_BNPL' = node
        /\ L # <<>> => first_BNPL' = first_BNPL /\ p' = Head(L) /\ L' = Tail(L)
        /\ parsed' = parsed \o Triples(node)
        /\ RestoreList
    BY DEF processBlankNodePropertyList, verbVars
  <1>5. Lists' = bnpl_collection_list_stack
    BY <1>1, <1>4, ClosingLinked
  <1>6. \A h \in 1 .. d : At(PairLists', h) = At(PairLists, h)
    <2>1. CASE d = 0
      BY <2>1
    <2>2. CASE d # 0
      <3>1. L # <<>> /\ L \in Seq(Seq(Pairs)) /\ p \in Seq(Pairs)
        BY <1>3, <2>2 DEF TypeInv
      <3>2. L = Pushed(Head(L), Tail(L))
        BY <3>1, AtTail
      <3>3. PairLists' = L
        BY <1>4, <3>1, <3>2 DEF PairLists
      <3>4. PairLists = Pushed(p, L)
        BY DEF PairLists
      <3> HIDE DEF p, L, d
      <3>5. \A h \in 1 .. Len(L) : At(Pushed(p, L), h) = At(L, h)
        BY <3>1, AtPushed
      <3> QED
        BY <1>3, <3>3, <3>4, <3>5
    <2> QED
      BY <2>1, <2>2
  <1>7. Empties' = Empties /\ Agree(Empties', Empties)
    BY <1>4, EmptiesStay
  <1>8. node \notin Empties /\ node \in Meanings
    <2>1. 0 \in Nat /\ latest_BN_label + 0 = latest_BN_label /\ latest_BN_label \in Nat
      BY DEF TypeInv
    <2>2. node \notin Known
      BY <2>1, KnownFacts
    <2>3. Empties \subseteq NodesMade
      BY EmptiesFacts
    <2> QED
      BY <2>1, <2>2, <2>3 DEF Known, Meanings, Values
  <1> HIDE DEF d, node
  <1> QED
    BY <1>1, <1>2, <1>3, <1>4, <1>5, <1>6, <1>7, <1>8 DEF d, node

LEMMA LinkListStep ==
  ASSUME TypeInv, TypeInv', NEW s \in Shapes, NEW t \in Shapes, Fits(s), KnownInv(s), CountInv(s),
         LinkInv(s), Move("processBlankNodePropertyList", s, t), processBlankNodePropertyList
  PROVE  LinkInv(t)'
PROOF
  <1> DEFINE r == Tail(s.frames)
             d == InnerDepth(r)
             node == BNode(latest_BN_label)
  <1>1. /\ InnerIs(s, {"shut"}) /\ s.frames # <<>> /\ r # <<>> /\ d \in Nat
        /\ Lists' = bnpl_collection_list_stack
        /\ contexts' = ClosedBy(node) /\ denoted' = node /\ element_' = node
        /\ UNCHANGED <<subject_, verb_stack>>
        /\ d = 0 => verb_object_pair_list' = <<>> /\ first_BNPL' = node
        /\ d # 0 => first_BNPL' = first_BNPL
        /\ \A h \in 1 .. d : At(PairLists', h) = At(PairLists, h)
        /\ Empties' = Empties /\ Agree(Empties', Empties)
        /\ node \notin Empties /\ node \in Meanings
    BY ListClosing
  <1>2. t = ListClosed(r, s.seq) /\ WellFormed(r) /\ r \in Seq(Frames)
    BY ClosingFacts
  <1>3. denoted' = Meant(Empties', element_') /\ denoted' \in Meanings
    BY <1>1 DEF Meant
  <1>4. CASE r = Begun
    <2>1. t = Shape(Subject, "any", 2)
      BY <1>2, <1>4 DEF ListClosed
    <2>2. t.frames = Subject /\ t.seq = 2 /\ Depth(t) = 0
      BY <2>1, ShapeFields, StatementSizes
    <2>3. d = 0
      BY <1>4, StatementFrames DEF InnerDepth
    <2> DEFINE c == [Head(Outer) EXCEPT !.subject = node]
               f == Frame("subject", 0)
               L == bnpl_collection_list_stack
    <2>4. /\ Head(Outer) \in Contexts /\ Head(Outer).verb = None /\ Head(Outer).pairs = {}
          /\ L = <<<<>>>> /\ contexts' = <<c>>
      BY <1>1, <1>4, ListContext
    <2>5. c \in Contexts /\ c.subject = node /\ c.verb = None /\ c.pairs = {}
      BY <1>1, <2>4, ContextFacts
    <2>6. f \in Frames /\ f.kind = "subject" /\ Subject = Pushed(f, <<>>) /\ f.depth = 0
      BY FrameFields DEF Subject, Pushed
    <2> HIDE DEF c, f
    <2>7. contexts' = Pushed(c, <<>>)
      BY <2>4, PushedOnNothing
    <2>8. bnpl_collection_list' = <<>> /\ bnpl_collection_list_stack' = <<>>
      <3>1. bnpl_collection_list' = Head(L) /\ bnpl_collection_list_stack' = Tail(L)
        BY DEF processBlankNodePropertyList, RestoreList
      <3>2. Head(<<<<>>>>) = <<>> /\ Tail(<<<<>>>>) = <<>>
        OBVIOUS
      <3> QED
        BY <2>4, <3>1, <3>2
    <2>9. /\ contexts' \in Seq(Contexts) /\ Len(contexts') = Len(Pushed(f, <<>>))
          /\ Links(Empties', Pushed(f, <<>>), contexts', Lists', PairLists', verb_stack')
      <3>1. <<>> \in Seq(Frames)
        OBVIOUS
      <3>2. <<>> \in Seq(Contexts)
        OBVIOUS
      <3>3. Len(bnpl_collection_list_stack') = Len(<<>>)
        BY <2>8
      <3>4. Links(Empties', <<>>, <<>>, bnpl_collection_list_stack', PairLists', verb_stack')
        BY DEF Links
      <3>5. Linked(Empties', f, c, bnpl_collection_list', At(PairLists', f.depth),
                   At(verb_stack', f.depth))
        BY <2>5, <2>6, <2>8 DEF Linked
      <3> QED
        BY <2>5, <2>6, <2>7, <3>1, <3>2, <3>3, <3>4, <3>5, LinkedAgain
    <2>10. SubjectInv(t)'
      <3>1. <<>> \in Seq(Frames) /\ <<>> \in Seq(Contexts) /\ Len(<<>>) = 0
        BY EmptySeq
      <3>2. At(Subject, 1) = f /\ At(contexts', 1) = c
        BY <2>5, <2>6, <2>7, <3>1, BottomPushed
      <3>3. first_BNPL' = node /\ Meant(Empties', node) = node
        BY <1>1, <2>3 DEF Meant
      <3> HIDE DEF node
      <3> QED
        BY <2>2, <2>5, <2>6, <3>2, <3>3 DEF SubjectInv
    <2>11. Subject # <<>> /\ verb_object_pair_list' = <<>>
      BY <1>1, <2>3, StatementFrames
    <2> QED
      BY <1>3, <2>2, <2>6, <2>9, <2>10, <2>11 DEF LinkInv
  <1>5. CASE r # Begun
    <2>1. t.frames = r /\ t.seq = s.seq /\ t.frames # <<>>
      <3>1. t = Shape(r, "any", s.seq)
        BY <1>2, <1>5 DEF ListClosed
      <3> HIDE DEF r
      <3> QED
        BY <1>1, <3>1, ShapeFields
    <2>2. contexts' = Outer
      BY <1>1, <1>5, ListContext
    <2>3. /\ Outer \in Seq(Contexts) /\ Len(Outer) = Len(r)
          /\ At(Outer, 1) = At(contexts, 1) /\ At(r, 1) = At(s.frames, 1)
      BY <1>1, ClosingLinked
    <2>4. Links(Empties', r, Outer, bnpl_collection_list_stack, PairLists', verb_stack')
      <3>1. \A h \in 1 .. InnerDepth(Tail(s.frames)) : /\ At(PairLists', h) = At(PairLists, h)
                                                       /\ At(verb_stack', h) = At(verb_stack, h)
        BY <1>1
      <3> QED
        BY <1>1, <3>1, OuterLinked
    <2>5. Depth(t) = 0 => verb_object_pair_list' = <<>>
      <3>1. Depth(t) = d
        BY <2>1 DEF Depth
      <3> QED
        BY <1>1, <3>1
    <2>6. SubjectInv(t)'
      <3>1. SubjectInv(s)
        BY DEF LinkInv
      <3>2. At(t.frames, 1).kind = "begun" => At(contexts', 1).subject = None /\ t.seq = 0
        BY <1>1, <2>1, <2>2, <2>3, <3>1 DEF SubjectInv
      <3>3. t.seq = 1 => At(contexts', 1).subject = Meant(Empties', subject_')
        BY <1>1, <2>1, <2>2, <2>3, <3>1 DEF SubjectInv
      <3>4. t.seq = 2 => first_BNPL' = first_BNPL
        <4>1. d = 0 => At(s.frames, 1).kind = "begun"
          BY <1>1, BeginsStatement DEF Fits
        <4>2. d = 0 => s.seq = 0
          BY <1>1, <3>1, <4>1 DEF SubjectInv
        <4> QED
          BY <1>1, <2>1, <4>2
      <3>5. t.seq = 2 => At(contexts', 1).subject = Meant(Empties', first_BNPL')
        BY <1>1, <2>1, <2>2, <2>3, <3>1, <3>4 DEF SubjectInv
      <3> QED
        BY <3>2, <3>3, <3>5 DEF SubjectInv
    <2> HIDE DEF r, node, d
    <2> QED
      BY <1>1, <1>3, <2>1, <2>2, <2>3, <2>4, <2>5, <2>6 DEF LinkInv
  <1> QED
    BY <1>4, <1>5

LEMMA LinkStill ==
  ASSUME NEW s, NEW t, Still(s, t), LinkInv(s)
  PROVE  LinkInv(t)'
PROOF
  <1>1. t = s /\ UNCHANGED <<element_, subject_, verb_stack, bnpl_collection_list,
                             bnpl_collection_list_stack, verb_object_pair_list,
                             verb_object_pair_list_stack, first_BNPL, parsed, denoted, contexts>>
    BY StillStep
  <1>2. UNCHANGED <<Empties, Lists, PairLists>>
    BY <1>1 DEF Empties, Parsed, Lists, PairLists
  <1> QED
    BY <1>1, <1>2 DEF LinkInv, SubjectInv

LEMMA LinkStep ==
  ASSUME TypeInv, TypeInv', NEW s \in Shapes, NEW t \in Shapes, Fits(s), KnownInv(s), CountInv(s),
         LinkInv(s), Fits(t)', CountInv(t)', NEW rule, Matched(rule), Move(rule, s, t), Next, ~MatchRule
  PROVE  LinkInv(t)'
PROOF
  <1>1. CASE ReadTerm
    BY <1>1, LinkTermStep
  <1>2. CASE BeginStatement
    BY <1>2, LinkBeginStep DEF BeginStatement, Matched
  <1>3. CASE setSubject
    BY <1>3, LinkSubjectStep DEF setSubject, Matched
  <1>4. CASE processVerb
    BY <1>4, LinkVerbStep DEF processVerb, Matched
  <1>5. CASE pushCurrentTermIntoBnpl_collection_list
    BY <1>5, LinkObjectStep DEF pushCurrentTermIntoBnpl_collection_list, Matched
  <1>6. CASE moveBnpl_collection_listIntoStack
    BY <1>6, LinkMoveStep
  <1>7. CASE processPredicateObjectListInner
    BY <1>7, LinkPairsStep DEF processPredicateObjectListInner, Matched
  <1>8. CASE processCollection
    BY <1>8, LinkCollectionStep DEF processCollection, Matched
  <1>9. CASE processBlankNodePropertyList
    BY <1>9, LinkListStep DEF processBlankNodePropertyList, Matched
  <1>10. CASE processTripleSeq
    BY <1>10, LinkStatementStep
  <1>11. CASE clearTripleParameters
    BY <1>11, LinkClearStep DEF clearTripleParameters, Matched
  <1>12. ~Done
    BY DEF Done, Matched
  <1> QED
    BY <1>1, <1>2, <1>3, <1>4, <1>5, <1>6, <1>7, <1>8, <1>9, <1>10, <1>11, <1>12 DEF Next

-----------------------------------------------------------------------------
(* The triples with rdf:nil for the empty collections are the meaning.      *)

Fold(E, T) == {<<Meant(E, t[1]), t[2], Meant(E, t[3])>> : t \in {u \in T : u[2] = first => u[1] \notin E}}

FoldInv ==
  /\ meaning = Fold(Empties, Parsed)
  /\ \A t \in Parsed : t[2] = rest => t[1] \notin Empties

LEMMA FoldedMeans ==
  ASSUME FoldInv
  PROVE  Folded = meaning
PROOF
  <1> DEFINE E == EmptyNodes
  <1>1. E = Empties
    BY DEF FoldInv, EmptyNodes, Empties, Emptied
  <1>2. Folded = {<<Meant(E, t[1]), t[2], Meant(E, t[3])>> :
                    t \in {u \in Parsed : u[2] = first => u[1] \notin E}}
    BY DEF Folded, Meant
  <1> HIDE DEF E
  <1>3. Folded = Fold(E, Parsed)
    BY <1>2 DEF Fold
  <1> QED
    BY <1>1, <1>3 DEF FoldInv

LEMMA FoldUnion ==
  ASSUME NEW E, NEW S, NEW T
  PROVE  Fold(E, S \cup T) = Fold(E, S) \cup Fold(E, T)
PROOF
  BY DEF Fold

LEMMA FoldAgrees ==
  ASSUME NEW E, NEW D, NEW T,
         \A t \in T : (t[1] \in E <=> t[1] \in D) /\ (t[3] \in E <=> t[3] \in D)
  PROVE  Fold(E, T) = Fold(D, T)
PROOF
  BY DEF Fold, Meant

LEMMA FoldTriples ==
  ASSUME NEW s, KnownInv(s), NEW E, NEW subject
  PROVE  /\ Fold(E, Entries(Triples(subject))) =
              {<<Meant(E, subject), pair[1], pair[2]>> : pair \in PairsOf(E, verb_object_pair_list)}
         /\ \A t \in Entries(Triples(subject)) : t[2] \notin {first, rest}
PROOF
  <1> DEFINE list == verb_object_pair_list
             new == Triples(subject)
             n == Len(list)
             A == {<<Meant(E, subject), pair[1], pair[2]>> : pair \in PairsOf(E, list)}
  <1>1. list \in Seq(KnownPairs) /\ n \in Nat
    BY DEF KnownInv
  <1>2. /\ Len(new) = n
        /\ \A i \in 1 .. n : new[i] = <<subject, list[i][1], list[i][2]>>
    <2> DEFINE T == {subject} \X TermsRead \X Known
    <2>1. \A pair \in KnownPairs : <<subject, pair[1], pair[2]>> \in T
      BY DEF KnownPairs
    <2>2. verb_object_pair_list \in Seq(KnownPairs)
      BY <1>1
    <2> HIDE DEF list, new, n, A, T
    <2>3. /\ Len(Triples(subject)) = Len(verb_object_pair_list)
          /\ \A i \in 1 .. Len(verb_object_pair_list) :
               Triples(subject)[i] =
                 <<subject, verb_object_pair_list[i][1], verb_object_pair_list[i][2]>>
      BY <2>1, <2>2, TriplesFacts
    <2> QED
      BY <2>3 DEF list, new, n
  <1>3. \A i \in 1 .. n : new[i][1] = subject /\ new[i][2] = list[i][1] /\ new[i][3] = list[i][2]
    BY <1>2
  <1>4. \A i \in 1 .. n : list[i][1] \in TermsRead
    BY <1>1 DEF KnownPairs
  <1>5. first \notin TermsRead /\ rest \notin TermsRead
    BY ValueFacts DEF TermsRead
  <1> HIDE DEF list, new, n
  <1>6. \A t \in Entries(new) : t[2] \notin {first, rest}
    BY <1>2, <1>3, <1>4, <1>5 DEF Entries
  <1>7. \A x \in Fold(E, Entries(new)) : x \in A
    <2>1. SUFFICES ASSUME NEW i \in 1 .. n
                   PROVE  <<Meant(E, new[i][1]), new[i][2], Meant(E, new[i][3])>> \in A
      BY <1>2 DEF Fold, Entries
    <2> DEFINE pair == <<list[i][1], Meant(E, list[i][2])>>
    <2>2. pair \in PairsOf(E, list)
      BY DEF PairsOf, n
    <2>3. pair[1] = list[i][1] /\ pair[2] = Meant(E, list[i][2])
      OBVIOUS
    <2> HIDE DEF pair
    <2> QED
      BY <1>3, <2>2, <2>3
  <1>8. \A x \in A : x \in Fold(E, Entries(new))
    <2>1. SUFFICES ASSUME NEW pair \in PairsOf(E, list)
                   PROVE  <<Meant(E, subject), pair[1], pair[2]>> \in Fold(E, Entries(new))
      OBVIOUS
    <2>2. PICK i \in 1 .. n : pair = <<list[i][1], Meant(E, list[i][2])>>
      BY DEF PairsOf, n
    <2>3. pair[1] = list[i][1] /\ pair[2] = Meant(E, list[i][2])
      BY <2>2
    <2>4. new[i] \in Entries(new)
      BY <1>2 DEF Entries
    <2>5. new[i][2] # first
      BY <1>6, <2>4
    <2>6. <<Meant(E, new[i][1]), new[i][2], Meant(E, new[i][3])>> \in Fold(E, Entries(new))
      BY <2>4, <2>5 DEF Fold
    <2> QED
      BY <1>3, <2>3, <2>6
  <1>9. Fold(E, Entries(new)) = A
    BY <1>7, <1>8
  <1> QED
    BY <1>6, <1>9 DEF new, list

(* The pairs of a subject are inserted with it.                             *)
LEMMA FoldPairsStep ==
  ASSUME TypeInv, NEW s, KnownInv(s), FoldInv, NEW subject, parsed' = parsed \o Triples(subject),
         NEW context, context.pairs = PairsOf(Empties, verb_object_pair_list),
         meaning' = meaning \cup About(Meant(Empties, subject), context)
  PROVE  FoldInv'
PROOF
  <1> DEFINE new == Triples(subject)
             T == (StatedTriples \cup CollectionNodes) \cup ({subject} \X TermsRead \X Known)
  <1>1. Empties' = Empties
    BY EmptiesStay
  <1>2. Parsed' = Parsed \cup Entries(new)
    <2>1. verb_object_pair_list \in Seq(KnownPairs) /\ parsed \in Seq(StatedTriples \cup CollectionNodes)
      BY DEF KnownInv
    <2>2. \A pair \in KnownPairs : <<subject, pair[1], pair[2]>> \in {subject} \X TermsRead \X Known
      BY DEF KnownPairs
    <2>3. new \in Seq({subject} \X TermsRead \X Known)
      <3> HIDE DEF new
      <3>1. Triples(subject) \in Seq({subject} \X TermsRead \X Known)
        BY <2>1, <2>2, TriplesFacts
      <3> QED
        BY <3>1 DEF new
    <2>4. parsed \in Seq(T) /\ new \in Seq(T) /\ parsed' = parsed \o new
      BY <2>1, <2>3, SequencesGrow
    <2> HIDE DEF T, new
    <2> QED
      BY <2>4, ParsedGrows
  <1>3. Fold(Empties, Entries(new)) = About(Meant(Empties, subject), context)
    <2>1. Fold(Empties, Entries(new)) =
            {<<Meant(Empties, subject), pair[1], pair[2]>> : pair \in PairsOf(Empties, verb_object_pair_list)}
      BY FoldTriples
    <2> QED
      BY <2>1 DEF About
  <1>4. \A t \in Entries(new) : t[2] # rest
    BY FoldTriples
  <1> HIDE DEF new
  <1>5. meaning' = Fold(Empties', Parsed')
    BY <1>1, <1>2, <1>3, FoldUnion DEF FoldInv
  <1> QED
    BY <1>1, <1>2, <1>4, <1>5 DEF FoldInv

LEMMA ShutPairs ==
  ASSUME TypeInv, NEW s \in Shapes, Fits(s), CountInv(s), LinkInv(s), InnerIs(s, {"shut"})
  PROVE  Inner.pairs = PairsOf(Empties, verb_object_pair_list)
PROOF
  <1>1. s.frames # <<>> /\ Head(s.frames).kind = "shut"
    BY DEF InnerIs
  <1>2. /\ Linked(Empties, Head(s.frames), Inner, bnpl_collection_list, At(PairLists, Depth(s)),
                  At(verb_stack, Depth(s)))
        /\ Depth(s) > 0 => At(PairLists, Depth(s)) = verb_object_pair_list
    BY <1>1, TopLinked
  <1>3. Depth(s) > 0
    BY DepthFacts DEF Fits, InnerIs
  <1>4. bnpl_collection_list = <<>>
    BY <1>1, <1>2 DEF Linked
  <1>5. Inner.pairs = PairsOf(Empties, verb_object_pair_list)
                        \cup ObjectsOf(Empties, Inner.verb, bnpl_collection_list)
    BY <1>1, <1>2, <1>3 DEF Linked
  <1> QED
    BY <1>4, <1>5, NoObjects

LEMMA FoldStatementStep ==
  ASSUME TypeInv, NEW s \in Shapes, NEW t \in Shapes, Fits(s), KnownInv(s), CountInv(s),
         LinkInv(s), FoldInv, NEW rule, Matched(rule), Move(rule, s, t), processTripleSeq
  PROVE  FoldInv'
PROOF
  <1>1. \/ rule = "processTripleSeq" /\ subject_' = subject_
        \/ rule = "processTripleSeq2" /\ subject_' = first_BNPL
    BY DEF processTripleSeq, Matched
  <1>2. /\ s.frames \in {AfterVerbs, Subject}
        /\ rule = "processTripleSeq" => s.seq = 1
        /\ rule = "processTripleSeq2" => s.seq = 2
    BY <1>1, StatementMoves, ShapeFields
  <1>3. s.frames # <<>> /\ Inner = At(contexts, 1)
    BY <1>2, StatementLinked
  <1>4. Inner.subject = Meant(Empties, subject_')
    BY <1>1, <1>2, <1>3 DEF LinkInv, SubjectInv
  <1>5. Inner.pairs = PairsOf(Empties, verb_object_pair_list)
    <2>1. CASE s.frames = AfterVerbs
      BY <1>3, <2>1, ShutPairs, StatementFrames DEF InnerIs
    <2>2. CASE s.frames = Subject
      <3>1. Head(s.frames).kind = "subject" /\ Depth(s) = 0
        BY <2>2, StatementFrames DEF Depth, InnerDepth
      <3>2. Linked(Empties, Head(s.frames), Inner, bnpl_collection_list, At(PairLists, Depth(s)),
                   At(verb_stack, Depth(s)))
        BY <1>3, TopLinked
      <3>3. Inner.pairs = {} /\ verb_object_pair_list = <<>>
        BY <3>1, <3>2 DEF Linked, LinkInv
      <3> QED
        BY <3>3, NoObjects
    <2> QED
      BY <1>2, <2>1, <2>2
  <1>6. /\ parsed' = parsed \o Triples(subject_')
        /\ meaning' = meaning \cup About(Inner.subject, Inner)
    BY DEF processTripleSeq
  <1> DEFINE subject == subject_'
  <1> HIDE DEF subject
  <1>7. /\ parsed' = parsed \o Triples(subject)
        /\ meaning' = meaning \cup About(Meant(Empties, subject), Inner)
    BY <1>4, <1>6 DEF subject
  <1> QED
    BY <1>5, <1>7, FoldPairsStep

LEMMA FoldListStep ==
  ASSUME TypeInv, NEW s \in Shapes, NEW t \in Shapes, Fits(s), KnownInv(s), CountInv(s), LinkInv(s),
         FoldInv, Move("processBlankNodePropertyList", s, t), processBlankNodePropertyList
  PROVE  FoldInv'
PROOF
  <1> DEFINE node == BNode(latest_BN_label)
  <1>1. InnerIs(s, {"shut"}) /\ node \notin Empties
    BY ListClosing
  <1>2. Inner.pairs = PairsOf(Empties, verb_object_pair_list)
    BY <1>1, ShutPairs
  <1>3. /\ parsed' = parsed \o Triples(node)
        /\ meaning' = meaning \cup About(node, Inner)
    BY DEF processBlankNodePropertyList
  <1>4. Meant(Empties, node) = node
    BY <1>1 DEF Meant
  <1> HIDE DEF node
  <1> QED
    BY <1>2, <1>3, <1>4, FoldPairsStep

(* The two triples of each node of a collection.                            *)
NodeTriples(label, k, item) ==
  {<<BNode(label + k - 1), rest, IF k = 1 THEN nil ELSE BNode(label + k - 2)>>,
   <<BNode(label + k - 1), first, item>>}

LEMMA CollectionEntries ==
  ASSUME TypeInv, bnpl_collection_list # <<>>
  PROVE  LET n == Len(bnpl_collection_list)
         IN  Entries(CollectionTriples) =
               UNION {NodeTriples(latest_BN_label, k, bnpl_collection_list[n + 1 - k]) : k \in 1 .. n}
PROOF
  <1> DEFINE n == Len(bnpl_collection_list)
             new == CollectionTriples
             B(k) == NodeTriples(latest_BN_label, k, bnpl_collection_list[n + 1 - k])
  <1>1. /\ n \in Nat \ {0} /\ Len(new) = 2 * n
        /\ \A k \in 1 .. n :
             /\ 2 * k - 1 \in 1 .. 2 * n /\ 2 * k \in 1 .. 2 * n
             /\ B(k) = {new[2 * k - 1], new[2 * k]}
        /\ \A j \in 1 .. 2 * n : \E k \in 1 .. n : j = 2 * k - 1 \/ j = 2 * k
    BY CollectionTriplesFacts DEF NodeTriples
  <1> HIDE DEF new, n, B
  <1>2. \A x \in Entries(new) : \E k \in 1 .. n : x \in B(k)
    <2>1. SUFFICES ASSUME NEW j \in 1 .. 2 * n
                   PROVE  \E k \in 1 .. n : new[j] \in B(k)
      BY <1>1 DEF Entries
    <2>2. PICK k \in 1 .. n : j = 2 * k - 1 \/ j = 2 * k
      BY <1>1
    <2>3. new[j] \in {new[2 * k - 1], new[2 * k]}
      BY <2>2
    <2>4. B(k) = {new[2 * k - 1], new[2 * k]}
      BY <1>1
    <2> QED
      BY <2>3, <2>4
  <1>3. \A k \in 1 .. n : \A x \in B(k) : x \in Entries(new)
    <2>1. SUFFICES ASSUME NEW k \in 1 .. n
                   PROVE  new[2 * k - 1] \in Entries(new) /\ new[2 * k] \in Entries(new)
      BY <1>1
    <2>2. 2 * k - 1 \in 1 .. Len(new) /\ 2 * k \in 1 .. Len(new)
      BY <1>1
    <2> DEFINE i == 2 * k - 1
               j == 2 * k
    <2>3. i \in 1 .. Len(new) /\ j \in 1 .. Len(new)
      BY <2>2
    <2> HIDE DEF i, j
    <2>4. new[i] \in Entries(new) /\ new[j] \in Entries(new)
      BY <2>3 DEF Entries
    <2> QED
      BY <2>4 DEF i, j
  <1>4. Entries(new) = UNION {B(k) : k \in 1 .. n}
    BY <1>2, <1>3
  <1> QED
    BY <1>4 DEF new, n, B

(* The nodes of a collection in the order of its items.                     *)
LEMMA ChainNodes ==
  ASSUME NEW items, NEW n \in Nat, Len(items) = n, NEW label \in Nat, NEW k \in 1 .. n
  PROVE  LET i == n + 1 - k
         IN  {<<Node(items, label, i), first, items[i]>>,
              <<Node(items, label, i), rest, Node(items, label, i + 1)>>} =
               NodeTriples(label, k, items[i])
PROOF
  <1> DEFINE i == n + 1 - k
  <1>1. i \in 1 .. n /\ label + n - i = label + k - 1
    OBVIOUS
  <1>2. k = 1 => i + 1 > n
    OBVIOUS
  <1>3. k # 1 => ~(i + 1 > n) /\ label + n - (i + 1) = label + k - 2
    OBVIOUS
  <1>4. ~(i > n)
    BY <1>1
  <1> HIDE DEF i
  <1>5. Node(items, label, i) = BNode(label + k - 1)
    BY <1>1, <1>4 DEF Node
  <1>6. Node(items, label, i + 1) = IF k = 1 THEN nil ELSE BNode(label + k - 2)
    BY <1>2, <1>3 DEF Node
  <1>7. {<<Node(items, label, i), first, items[i]>>,
         <<Node(items, label, i), rest, Node(items, label, i + 1)>>} = NodeTriples(label, k, items[i])
    BY <1>5, <1>6 DEF NodeTriples
  <1> QED
    BY <1>7 DEF i

LEMMA ChainEntries ==
  ASSUME NEW items, NEW n \in Nat, Len(items) = n, NEW label \in Nat
  PROVE  Chain(items, label) = UNION {NodeTriples(label, k, items[n + 1 - k]) : k \in 1 .. n}
PROOF
  <1> DEFINE C(i) == {<<Node(items, label, i), first, items[i]>>,
                      <<Node(items, label, i), rest, Node(items, label, i + 1)>>}
             B(k) == NodeTriples(label, k, items[n + 1 - k])
  <1>1. \A k \in 1 .. n : C(n + 1 - k) = B(k)
    BY ChainNodes
  <1>2. \A k \in 1 .. n : n + 1 - k \in 1 .. n /\ n + 1 - (n + 1 - k) = k
    OBVIOUS
  <1>3. Chain(items, label) = UNION {C(i) : i \in 1 .. n}
    BY DEF Chain
  <1> HIDE DEF B, C
  <1>4. \A i \in 1 .. n : C(i) = B(n + 1 - i)
    <2>1. SUFFICES ASSUME NEW i \in 1 .. n
                   PROVE  C(i) = B(n + 1 - i)
      OBVIOUS
    <2> DEFINE k == n + 1 - i
    <2>2. k \in 1 .. n /\ n + 1 - k = i
      OBVIOUS
    <2> HIDE DEF k
    <2>3. C(i) = B(k)
      BY <1>1, <2>2
    <2> QED
      BY <2>3 DEF k
  <1>5. UNION {C(i) : i \in 1 .. n} = UNION {B(k) : k \in 1 .. n}
    <2>1. \A i \in 1 .. n : \E k \in 1 .. n : C(i) = B(k)
      BY <1>2, <1>4
    <2>2. \A k \in 1 .. n : \E i \in 1 .. n : B(k) = C(i)
      BY <1>1, <1>2
    <2> QED
      BY <2>1, <2>2
  <1>6. Chain(items, label) = UNION {B(k) : k \in 1 .. n}
    BY <1>3, <1>5
  <1> QED
    BY <1>6 DEF B

(* New nodes are not empty collections.                                     *)
LEMMA FoldNode ==
  ASSUME NEW E, NEW label \in Nat, NEW k \in Nat, k >= 1, NEW item, nil \notin E,
         BNode(label + k - 1) \notin E, k # 1 => BNode(label + k - 2) \notin E
  PROVE  Fold(E, NodeTriples(label, k, item)) = NodeTriples(label, k, Meant(E, item))
PROOF
  <1> DEFINE a == BNode(label + k - 1)
             b == IF k = 1 THEN nil ELSE BNode(label + k - 2)
  <1>1. a \notin E /\ b \notin E
    OBVIOUS
  <1> HIDE DEF a, b
  <1>2. Fold(E, {<<a, rest, b>>, <<a, first, item>>}) = {<<a, rest, b>>, <<a, first, Meant(E, item)>>}
    <2> DEFINE u == <<a, rest, b>>
               v == <<a, first, item>>
    <2>1. u[1] = a /\ u[2] = rest /\ u[3] = b /\ v[1] = a /\ v[2] = first /\ v[3] = item
      OBVIOUS
    <2> HIDE DEF u, v
    <2>2. Fold(E, {u, v}) = {<<Meant(E, u[1]), u[2], Meant(E, u[3])>>,
                             <<Meant(E, v[1]), v[2], Meant(E, v[3])>>}
      BY <1>1, <2>1 DEF Fold
    <2>3. Meant(E, a) = a /\ Meant(E, b) = b
      BY <1>1 DEF Meant
    <2>4. Fold(E, {u, v}) = {<<a, rest, b>>, <<a, first, Meant(E, item)>>}
      BY <2>1, <2>2, <2>3
    <2> QED
      BY <2>4 DEF u, v
  <1> QED
    BY <1>2 DEF NodeTriples, a, b

LEMMA NewNodes ==
  ASSUME TypeInv, NEW s, KnownInv(s)
  PROVE  /\ \A j \in Nat : BNode(latest_BN_label + j) \notin Empties
         /\ nil \notin Empties /\ latest_BN_label \in Nat
PROOF
  <1>1. Empties \subseteq NodesMade /\ nil \notin Empties
    BY EmptiesFacts
  <1>2. \A j \in Nat : BNode(latest_BN_label + j) \notin Known
    BY KnownFacts
  <1> QED
    BY <1>1, <1>2 DEF Known, TypeInv

(* The chain of the nodes of a collection is inserted.                      *)
LEMMA FoldChain ==
  ASSUME TypeInv, NEW s, KnownInv(s), bnpl_collection_list # <<>>
  PROVE  /\ Fold(Empties, Entries(CollectionTriples)) =
              Chain(ItemsOf(Empties, bnpl_collection_list), latest_BN_label)
         /\ \A t \in Entries(CollectionTriples) : t[1] \notin Empties
PROOF
  <1> DEFINE list == bnpl_collection_list
             n == Len(list)
             label == latest_BN_label
             items == ItemsOf(Empties, list)
             B(k) == NodeTriples(label, k, list[n + 1 - k])
             C(k) == NodeTriples(label, k, items[n + 1 - k])
             new == Entries(CollectionTriples)
  <1>1. /\ label \in Nat /\ nil \notin Empties
        /\ \A j \in Nat : BNode(label + j) \notin Empties
    BY NewNodes
  <1>2. n \in Nat /\ n >= 1
    BY DEF TypeInv
  <1>3. new = UNION {B(k) : k \in 1 .. n}
    BY CollectionEntries
  <1>4. Len(items) = n /\ \A i \in 1 .. n : items[i] = Meant(Empties, list[i])
    <2> HIDE DEF list
    <2>1. items = [i \in 1 .. n |-> Meant(Empties, list[i])]
      BY DEF ItemsOf
    <2> HIDE DEF items, n
    <2> QED
      BY <1>2, <2>1
  <1>5. Chain(items, label) = UNION {C(k) : k \in 1 .. n}
    <2> HIDE DEF items, n, label
    <2> QED
      BY <1>1, <1>2, <1>4, ChainEntries
  <1>6. \A k \in 1 .. n : /\ BNode(label + k - 1) \notin Empties
                          /\ k # 1 => BNode(label + k - 2) \notin Empties
    <2>1. SUFFICES ASSUME NEW k \in 1 .. n
                   PROVE  /\ BNode(label + k - 1) \notin Empties
                          /\ k # 1 => BNode(label + k - 2) \notin Empties
      OBVIOUS
    <2> HIDE DEF label, n
    <2>2. k - 1 \in Nat /\ label + k - 1 = label + (k - 1)
      BY <1>1, <1>2
    <2>3. k # 1 => k - 2 \in Nat /\ label + k - 2 = label + (k - 2)
      BY <1>1, <1>2
    <2>4. BNode(label + k - 1) \notin Empties
      BY <1>1, <2>2
    <2>5. k # 1 => BNode(label + k - 2) \notin Empties
      BY <1>1, <2>3
    <2> QED
      BY <2>4, <2>5
  <1>7. \A k \in 1 .. n : Fold(Empties, B(k)) = C(k)
    <2>1. SUFFICES ASSUME NEW k \in 1 .. n
                   PROVE  Fold(Empties, B(k)) = C(k)
      OBVIOUS
    <2> HIDE DEF label, n, list, items
    <2>2. k \in Nat /\ k >= 1 /\ n + 1 - k \in 1 .. n
      BY <1>2
    <2>3. items[n + 1 - k] = Meant(Empties, list[n + 1 - k])
      BY <1>4, <2>2
    <2> QED
      BY <1>1, <1>6, <2>2, <2>3, FoldNode
  <1>8. \A k \in 1 .. n : \A t \in B(k) : t[1] \notin Empties
    <2>1. SUFFICES ASSUME NEW k \in 1 .. n, NEW t \in B(k)
                   PROVE  t[1] \notin Empties
      OBVIOUS
    <2>2. t[1] = BNode(label + k - 1)
      BY DEF NodeTriples
    <2> HIDE DEF label
    <2> QED
      BY <1>6, <2>2
  <1> HIDE DEF B, C, n, label, items, list, new
  <1>9. Fold(Empties, UNION {B(k) : k \in 1 .. n}) = UNION {C(k) : k \in 1 .. n}
    <2>1. \A x \in Fold(Empties, UNION {B(k) : k \in 1 .. n}) : \E k \in 1 .. n : x \in Fold(Empties, B(k))
      BY DEF Fold
    <2>2. \A k \in 1 .. n : \A x \in Fold(Empties, B(k)) : x \in Fold(Empties, UNION {B(j) : j \in 1 .. n})
      BY DEF Fold
    <2> QED
      BY <1>7, <2>1, <2>2
  <1>10. \A t \in new : t[1] \notin Empties
    BY <1>3, <1>8
  <1>11. Fold(Empties, new) = Chain(items, label)
    BY <1>3, <1>5, <1>9
  <1> QED
    BY <1>10, <1>11 DEF new, items, label, list

LEMMA FoldCollectionStep ==
  ASSUME TypeInv, TypeInv', NEW s \in Shapes, NEW t \in Shapes, Fits(s), KnownInv(s), CountInv(s),
         LinkInv(s), FoldInv, Move("processCollection", s, t), processCollection
  PROVE  FoldInv'
PROOF
  <1> DEFINE list == bnpl_collection_list
             label == latest_BN_label
             new == Entries(CollectionTriples)
  <1>1. /\ list = <<>> => Empties' = Empties \cup {BNode(label)}
        /\ list # <<>> => Empties' = Empties
        /\ Agree(Empties', Empties) /\ Parsed' = Parsed \cup new
    BY EmptiesCollection
  <1>2. Inner.items = ItemsOf(Empties, list)
    <2>1. s.frames # <<>> /\ Head(s.frames).kind = "collection"
      BY ClosingFacts
    <2>2. Linked(Empties, Head(s.frames), Inner, list, At(PairLists, Depth(s)), At(verb_stack, Depth(s)))
      BY <2>1, TopLinked
    <2> QED
      BY <2>1, <2>2 DEF Linked
  <1>3. meaning' = meaning \cup Chain(Inner.items, label)
    BY DEF processCollection
  <1>4. \A u \in Parsed : u[1] \in Known /\ u[3] \in Known \cup {nil}
    <2>1. \A u \in Parsed : u \in StatedTriples \cup CollectionNodes
      BY DEF KnownInv, Parsed
    <2>2. \A u \in StatedTriples : u[1] \in Known /\ u[3] \in Known
      BY DEF StatedTriples
    <2>3. \A u \in CollectionNodes : u[1] \in NodesMade /\ u[3] \in Known \cup {nil}
      BY DEF CollectionNodes
    <2> QED
      BY <2>1, <2>2, <2>3 DEF Known
  <1>5. nil \notin Empties /\ nil \notin Empties'
    <2>1. nil \notin Empties /\ nil # BNode(label)
      BY NewNodes, ValueFacts
    <2> QED
      BY <1>1, <2>1
  <1>6. Fold(Empties', Parsed) = meaning
    <2> DEFINE E == Empties'
               D == Empties
    <2> HIDE DEF E, D
    <2>1. Agree(E, D) /\ nil \notin D /\ nil \notin E
      BY <1>1, <1>5 DEF E, D
    <2>2. \A u \in Parsed : (u[1] \in E <=> u[1] \in D) /\ (u[3] \in E <=> u[3] \in D)
      BY <1>4, <2>1 DEF Agree
    <2>3. Fold(E, Parsed) = Fold(D, Parsed)
      BY <2>2, FoldAgrees
    <2> QED
      BY <2>3 DEF E, D, FoldInv
  <1>7. \A u \in Parsed : u[2] = rest => u[1] \notin Empties'
    BY <1>1, <1>4 DEF FoldInv, Agree
  <1>8. CASE list = <<>>
    <2> DEFINE v == <<BNode(label), first, nil>>
    <2>1. new = {v}
      <3>1. CollectionTriples = <<v>>
        <4>1. label + 1 - 1 = label
          BY DEF TypeInv
        <4> QED
          BY <1>8, <4>1 DEF CollectionTriples, ItemNode
      <3> HIDE DEF v
      <3>2. Len(<<v>>) = 1 /\ <<v>>[1] = v /\ 1 .. 1 = {1}
        OBVIOUS
      <3> QED
        BY <3>1, <3>2 DEF Entries
    <2>2. v[1] = BNode(label) /\ v[2] = first
      OBVIOUS
    <2> HIDE DEF v
    <2>3. first # rest
      BY ValueFacts
    <2>4. Fold(Empties', new) = {}
      <3>1. v[1] \in Empties'
        BY <1>1, <1>8, <2>2
      <3> DEFINE E == Empties'
      <3> HIDE DEF E
      <3>2. Fold(E, {v}) = {}
        BY <2>2, <3>1 DEF Fold, E
      <3> QED
        BY <2>1, <3>2 DEF E
    <2>5. Chain(Inner.items, label) = {}
      <3>1. Inner.items = <<>>
        BY <1>2, <1>8, NoItems
      <3>2. Len(<<>>) = 0 /\ 1 .. 0 = {}
        BY EmptySeq
      <3> QED
        BY <3>1, <3>2 DEF Chain
    <2>6. \A u \in new : u[2] # rest
      BY <2>1, <2>2, <2>3
    <2> HIDE DEF new
    <2>7. meaning' = meaning /\ Parsed' = Parsed \cup new
      BY <1>1, <1>3, <2>5
    <2>8. meaning' = Fold(Empties', Parsed')
      BY <1>6, <2>4, <2>7, FoldUnion
    <2> QED
      BY <1>1, <1>7, <2>6, <2>8 DEF FoldInv
  <1>9. CASE list # <<>>
    <2>1. /\ Fold(Empties, new) = Chain(ItemsOf(Empties, list), label)
          /\ \A u \in new : u[1] \notin Empties
      BY <1>9, FoldChain
    <2> HIDE DEF new, list, label
    <2>2. meaning' = Fold(Empties', Parsed')
      BY <1>1, <1>2, <1>3, <1>6, <1>9, <2>1, FoldUnion
    <2> QED
      BY <1>1, <1>7, <1>9, <2>1, <2>2 DEF FoldInv
  <1> QED
    BY <1>8, <1>9

(* The other actions insert nothing.                                        *)
LEMMA FoldKept ==
  ASSUME FoldInv, UNCHANGED <<parsed, meaning>>
  PROVE  FoldInv'
PROOF
  BY DEF FoldInv, Empties, Parsed

LEMMA FoldStep ==
  ASSUME TypeInv, TypeInv', NEW s \in Shapes, NEW t \in Shapes, Fits(s), KnownInv(s), CountInv(s),
         LinkInv(s), FoldInv, NEW rule, Matched(rule), Move(rule, s, t), Next, ~MatchRule
  PROVE  FoldInv'
PROOF
  <1>1. CASE ReadTerm \/ BeginStatement \/ setSubject \/ pushCurrentTermIntoBnpl_collection_list
    <2>1. UNCHANGED <<parsed, meaning>>
      BY <1>1 DEF ReadTerm, BeginStatement, setSubject, pushCurrentTermIntoBnpl_collection_list
    <2> QED
      BY <2>1, FoldKept
  <1>2. CASE processVerb \/ moveBnpl_collection_listIntoStack \/ processPredicateObjectListInner
               \/ clearTripleParameters
    <2>1. UNCHANGED <<parsed, meaning>>
      BY <1>2 DEF processVerb, moveBnpl_collection_listIntoStack, processPredicateObjectListInner,
                  clearTripleParameters, meaningVars
    <2> QED
      BY <2>1, FoldKept
  <1>3. CASE processCollection
    BY <1>3, FoldCollectionStep DEF processCollection, Matched
  <1>4. CASE processBlankNodePropertyList
    BY <1>4, FoldListStep DEF processBlankNodePropertyList, Matched
  <1>5. CASE processTripleSeq
    BY <1>5, FoldStatementStep
  <1>6. ~Done
    BY DEF Done, Matched
  <1> QED
    BY <1>1, <1>2, <1>3, <1>4, <1>5, <1>6 DEF Next

LEMMA InitMeaning ==
  ASSUME Init
  PROVE  OpeningInv /\ CountInv(Nothing) /\ LinkInv(Nothing) /\ FoldInv
PROOF
  <1>1. /\ Nothing.frames = <<>> /\ Nothing.held = "none" /\ Nothing.seq = 0
        /\ Depth(Nothing) = 0 /\ Len(Nothing.frames) = 0
    BY ShapeFields, StatementSizes DEF Nothing
  <1>2. /\ lists = <<>> /\ verb_stack = <<>> /\ bnpl_collection_list = <<>> /\ contexts = <<>>
        /\ verb_object_pair_list = <<>> /\ verb_object_pair_list_stack = <<>> /\ parsed = <<>>
        /\ denoted = None /\ meaning = {}
    BY DEF Init
  <1>3. <<>> \in Seq(Nat) /\ <<>> \in Seq(Contexts) /\ Len(<<>>) = 0
    BY EmptySeq
  <1>4. OpeningInv
    <2> DEFINE rule == IF sparqlQuery THEN "triplesBlock" ELSE "turtleDoc"
    <2>1. rules = <<rule>> /\ rule \notin Opening
      BY DEF Init, Opening
    <2> HIDE DEF rule
    <2>2. Len(rules) = 1 /\ 2 .. 1 = {}
      BY <2>1
    <2> QED
      BY <1>2, <2>2 DEF OpeningInv, OpensNext
  <1>5. CountInv(Nothing)
    <2>1. ~InnerIs(Nothing, {"list"}) /\ ~InnerIs(Nothing, {"shut"}) /\ ~InnerIs(Nothing, {"list", "shut"})
      BY <1>1 DEF InnerIs
    <2>2. Before(0) = 0
      BY DEF Before
    <2>3. 1 .. Len(lists) - 1 = {}
      BY <1>2, <1>3
    <2> QED
      BY <1>1, <1>2, <1>3, <2>1, <2>2, <2>3 DEF CountInv
  <1>6. LinkInv(Nothing)
    <2>1. Links(Empties, <<>>, contexts, Lists, PairLists, verb_stack)
      BY <1>3 DEF Links
    <2>2. None \in Meanings
      BY DEF Meanings, Values
    <2> QED
      BY <1>1, <1>2, <1>3, <2>1, <2>2 DEF LinkInv, SubjectInv
  <1>7. FoldInv
    <2>1. Parsed = {}
      BY <1>2, <1>3 DEF Parsed
    <2> QED
      BY <1>2, <2>1 DEF FoldInv, Fold
  <1> QED
    BY <1>4, <1>5, <1>6, <1>7

(* Between statements, and at all other times, the triples inserted are the *)
(* meaning of what has been read.                                           *)
MeaningInv ==
  /\ TypeInv /\ VerbInv /\ OpeningInv /\ FoldInv
  /\ \E s \in Shapes : /\ Ahead(s) /\ Fits(s) /\ KnownInv(s) /\ OnceInv(s)
                       /\ CountInv(s) /\ LinkInv(s)

LEMMA MeaningStep ==
  ASSUME OneListPerVerb, MeaningInv, [Next]_vars
  PROVE  MeaningInv'
PROOF
  <1>1. PICK s \in Shapes : /\ Ahead(s) /\ Fits(s) /\ KnownInv(s) /\ OnceInv(s)
                            /\ CountInv(s) /\ LinkInv(s)
    BY DEF MeaningInv
  <1>2. TypeInv /\ VerbInv /\ OpeningInv /\ FoldInv
    BY DEF MeaningInv
  <1>3. /\ TypeInv' /\ VerbInv'
        /\ \E t \in Shapes : Ahead(t)' /\ Fits(t)' /\ (Still(s, t) \/ Acted(s, t))
    BY <1>1, <1>2, ShapeStep
  <1>4. PICK t \in Shapes : Ahead(t)' /\ Fits(t)' /\ (Still(s, t) \/ Acted(s, t))
    BY <1>3
  <1>5. CASE Still(s, t)
    <2>1. KnownInv(t)' /\ OnceInv(t)'
      BY <1>1, <1>5, OnceStill
    <2>2. LinkInv(t)'
      BY <1>1, <1>5, LinkStill
    <2>3. t = s /\ UNCHANGED <<lists, verb_stack, verb_stack_one_step_pre_size,
                               verb_object_pair_list_stack, parsed, meaning>>
      BY <1>5, StillStep
    <2>4. CountInv(t)'
      BY <1>1, <2>3 DEF CountInv
    <2>5. FoldInv'
      BY <1>2, <2>3, FoldKept
    <2>6. OpeningInv'
      <3>1. CASE MatchRule
        BY <1>2, <3>1, OpeningStill
      <3>2. CASE UNCHANGED vars
        BY <1>2, <3>2 DEF OpeningInv, OpensNext, vars, docVars
      <3> QED
        BY <1>5, <3>1, <3>2 DEF Still
    <2> QED
      BY <1>3, <1>4, <2>1, <2>2, <2>4, <2>5, <2>6 DEF MeaningInv
  <1>6. CASE Acted(s, t)
    <2>1. PICK rule : rule \notin DOMAIN Alternatives /\ Matched(rule) /\ Move(rule, s, t)
      BY <1>6 DEF Acted
    <2>2. Next /\ ~MatchRule
      BY <1>6 DEF Acted
    <2>3. KnownInv(t)' /\ OnceInv(t)'
      BY <1>1, <1>2, <1>3, <2>1, <2>2, KnownStep, OnceStep
    <2>4. CountInv(t)'
      BY <1>1, <1>2, <2>1, <2>2, CountStep
    <2>5. LinkInv(t)'
      BY <1>1, <1>2, <1>3, <1>4, <2>1, <2>2, <2>4, LinkStep
    <2>6. FoldInv'
      BY <1>1, <1>2, <1>3, <2>1, <2>2, FoldStep
    <2>7. OpeningInv'
      BY <1>2, <2>1, OpeningStep
    <2> QED
      BY <1>3, <1>4, <2>3, <2>4, <2>5, <2>6, <2>7 DEF MeaningInv
  <1> QED
    BY <1>4, <1>5, <1>6

(* State gives insertTriple the triples that the document means and no      *)
(* others, whatever the document, as long as a verb has no more than one    *)
(* list among its objects.                                                  *)
THEOREM TriplesAreTheMeaning ==
  ASSUME OneListPerVerb
  PROVE  Spec => []MeaningPreserved
PROOF
  <1>1. Init => MeaningInv
    <2>1. SUFFICES ASSUME Init
                   PROVE  MeaningInv
      OBVIOUS
    <2>2. /\ TypeInv /\ VerbInv /\ Ahead(Nothing) /\ Fits(Nothing) /\ Nothing \in Shapes
          /\ KnownInv(Nothing) /\ OnceInv(Nothing)
      BY <2>1, InitStack, InitOnce
    <2>3. OpeningInv /\ CountInv(Nothing) /\ LinkInv(Nothing) /\ FoldInv
      BY <2>1, InitMeaning
    <2> QED
      BY <2>2, <2>3 DEF MeaningInv
  <1>2. MeaningInv /\ [Next]_vars => MeaningInv'
    BY MeaningStep
  <1>3. MeaningInv => MeaningPreserved
    <2>1. SUFFICES ASSUME MeaningInv
                   PROVE  MeaningPreserved
      OBVIOUS
    <2>2. Folded = meaning
      BY <2>1, FoldedMeans DEF MeaningInv
    <2> QED
      BY <2>2 DEF MeaningPreserved
  <1> QED
    BY <1>1, <1>2, <1>3, PTL DEF Spec

=============================================================================
