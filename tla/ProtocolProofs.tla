--------------------------- MODULE ProtocolProofs ---------------------------
(***************************************************************************)
(* Proofs about Protocol, for every set of requests and every limit: a part  *)
(* of a request is never acted on, a whole one only as it was asked, and the *)
(* line protocol implements the exchange.                                    *)
(***************************************************************************)
EXTENDS Protocol, SequenceTheorems, FiniteSetTheorems, NaturalsInduction,
        WellFoundedInduction, TLAPS

\* encode_request() gives something that ends in a newline.
LEMMA OneLine ==
  ASSUME NEW a \in Asks
  PROVE  /\ encode_request(a) \in Seq(Tokens)
         /\ Len(encode_request(a)) \in Nat \ {0}
         /\ encode_request(a)[Len(encode_request(a))] = "NL"
PROOF
  <1> DEFINE front == <<"V1", "TAB", a.kind>>
             fields == IF a.kind = "AUTH"
                         THEN <<"TAB">> \o a.user \o <<"TAB">> \o a.reason ELSE <<>>
             body == front \o fields
  <1>1. a.kind \in Tokens /\ a.user \in Seq(Tokens) /\ a.reason \in Seq(Tokens)
    BY ProtocolAssumption DEF Tokens
  <1>2. front \in Seq(Tokens) /\ <<"TAB">> \in Seq(Tokens) /\ <<"NL">> \in Seq(Tokens)
    <2>1. "V1" \in Tokens /\ "TAB" \in Tokens /\ "NL" \in Tokens
      BY DEF Tokens, Controls
    <2> QED  BY <1>1, <2>1
  <1>3. \A s, t \in Seq(Tokens) : s \o t \in Seq(Tokens)
    OBVIOUS
  <1>4. fields \in Seq(Tokens)
    BY <1>1, <1>2, <1>3
  <1>5. body \in Seq(Tokens) /\ encode_request(a) = body \o <<"NL">>
    BY <1>2, <1>3, <1>4 DEF encode_request
  <1> HIDE DEF body
  <1> QED  BY <1>2, <1>5

\* The first n tokens of a sequence.
LEMMA LeadFacts ==
  ASSUME NEW S, NEW l \in Seq(S), NEW n \in Nat
  PROVE  /\ Lead(l, n) \in Seq(S)
         /\ Len(Lead(l, n)) = IF n < Len(l) THEN n ELSE Len(l)
         /\ \A i \in 1..Len(Lead(l, n)) : Lead(l, n)[i] = l[i]
  BY DEF Lead

\* A set of naturals has a least one.
LEMMA FirstOf ==
  ASSUME NEW S \in SUBSET Nat, S # {}
  PROVE  \E i \in S : \A j \in S : i <= j
PROOF
  <1> DEFINE R == {ss \in Nat \X Nat : ss[1] < ss[2]}
  <1>1. IsWellFoundedOn(R, Nat)
    BY Zenon, NatLessThanWellFounded DEF OpToRel
  <1>2. PICK i \in S : \A j \in S : ~(<<j, i>> \in R)
    BY <1>1, WFMin
  <1>3. \A j \in S : j < i => <<j, i>> \in R
    OBVIOUS
  <1>4. \A j \in S : ~(j < i)
    BY Zenon, <1>2, <1>3
  <1> HIDE DEF R
  <1>5. \A j \in S : i <= j
    BY <1>4
  <1> QED  BY <1>5

\* The first line ends where the first newline is, or with the sequence.
LEMMA FirstLineAt ==
  ASSUME NEW l \in Seq(Tokens), NEW n \in 0..Len(l),
         n = Len(l) \/ (n > 0 /\ l[n] = "NL"),
         \A i \in 1..n - 1 : l[i] # "NL"
  PROVE  FirstLine(l) = Lead(l, n)
PROOF
  <1> DEFINE At(m) == /\ m = Len(l) \/ (m > 0 /\ l[m] = "NL")
                      /\ \A i \in 1..m - 1 : l[i] # "NL"
  <1>1. FirstLine(l) = Lead(l, CHOOSE m \in 0..Len(l) : At(m))
    BY DEF FirstLine
  <1>2. ASSUME NEW m \in 0..Len(l), At(m) PROVE m = n
    <2>1. CASE m < n
      BY <1>2, <2>1
    <2>2. CASE n < m
      BY <1>2, <2>2
    <2> QED  BY <2>1, <2>2
  <1>3. At(n)
    OBVIOUS
  <1> HIDE DEF At
  <1>4. (CHOOSE m \in 0..Len(l) : At(m)) = n
    BY <1>2, <1>3
  <1> QED  BY <1>1, <1>4

\* Every sequence has a first line.
LEMMA FirstLineExists ==
  ASSUME NEW l \in Seq(Tokens)
  PROVE  \E n \in 0..Len(l) :
           /\ n = Len(l) \/ (n > 0 /\ l[n] = "NL")
           /\ \A i \in 1..n - 1 : l[i] # "NL"
           /\ FirstLine(l) = Lead(l, n)
PROOF
  <1> DEFINE S == {i \in DOMAIN l : l[i] = "NL"}
  <1>1. CASE S = {}
    <2>1. /\ Len(l) \in 0..Len(l)
          /\ \A i \in 1..Len(l) - 1 : l[i] # "NL"
      BY <1>1
    <2>2. FirstLine(l) = Lead(l, Len(l))
      BY <2>1, FirstLineAt
    <2> QED  BY <2>1, <2>2
  <1>2. CASE S # {}
    <2>1. S \in SUBSET Nat
      OBVIOUS
    <2>2. PICK n \in S : \A i \in S : n <= i
      <3> HIDE DEF S
      <3> QED  BY <1>2, <2>1, FirstOf
    <2>3. n \in 0..Len(l) /\ n > 0 /\ l[n] = "NL"
      OBVIOUS
    <2>4. ASSUME NEW i \in 1..n - 1 PROVE l[i] # "NL"
      <3>1. i \in DOMAIN l /\ ~(n <= i)
        BY <2>3
      <3> QED  BY <2>2, <3>1
    <2>5. FirstLine(l) = Lead(l, n)
      BY <2>3, <2>4, FirstLineAt
    <2> QED  BY <2>3, <2>4, <2>5
  <1> QED  BY <1>1, <1>2

\* What was read ends in a newline only if it is all of the request's first line.
LEMMA NewlineMeansWhole ==
  ASSUME ask \in Asks, sent \in 0..Len(Wire), EndsLine(Received)
  PROVE  /\ Received = FirstLine(Wire)
         /\ Len(FirstLine(Wire)) <= sent /\ Len(FirstLine(Wire)) <= MaxRequest
PROOF
  <1>1. Wire \in Seq(Tokens) /\ Len(Wire) \in Nat
    BY OneLine DEF Wire
  <1>2. sent \in Nat /\ sent <= Len(Wire) /\ MaxRequest \in Nat
    BY <1>1, ProtocolAssumption
  <1> DEFINE s == Lead(Wire, sent)
             r == Lead(s, MaxRequest)
  <1>3. s \in Seq(Tokens) /\ Len(s) = sent /\ \A i \in 1..Len(s) : s[i] = Wire[i]
    BY <1>1, <1>2, LeadFacts
  <1>4. /\ r \in Seq(Tokens) /\ Len(r) = IF MaxRequest < Len(s) THEN MaxRequest ELSE Len(s)
        /\ \A i \in 1..Len(r) : r[i] = s[i]
    BY <1>2, <1>3, LeadFacts
  <1>5. Received = FirstLine(r)
    BY DEF Received
  <1> HIDE DEF s, r
  <1>6. Len(r) \in Nat /\ Len(r) <= sent /\ Len(r) <= MaxRequest /\ Len(r) <= Len(Wire)
        /\ \A i \in 1..Len(r) : r[i] = Wire[i]
    BY <1>2, <1>3, <1>4
  <1>7. PICK n \in 0..Len(r) : /\ \A i \in 1..n - 1 : r[i] # "NL"
                               /\ FirstLine(r) = Lead(r, n)
    BY <1>4, FirstLineExists
  <1> DEFINE f == Lead(r, n)
  <1>8. f \in Seq(Tokens) /\ Len(f) = n /\ \A i \in 1..n : f[i] = r[i]
    <2>1. Len(f) = IF n < Len(r) THEN n ELSE Len(r)
      BY <1>4, LeadFacts
    <2>2. Len(f) = n
      BY <1>6, <2>1
    <2> QED  BY <1>4, <2>2, LeadFacts
  <1> HIDE DEF f
  <1>9. f # <<>> /\ f[Len(f)] = "NL"
    BY <1>5, <1>7 DEF EndsLine, f
  <1>10. n > 0 /\ n \in 1..Len(r) /\ r[n] = "NL"
    <2>1. n # 0
      BY <1>8, <1>9
    <2>2. n > 0 /\ n \in 1..Len(r) /\ n \in 1..n
      BY <1>6, <2>1
    <2> QED  BY <1>8, <1>9, <2>2
  <1>11. FirstLine(Wire) = Lead(Wire, n)
    <2>1. n \in 0..Len(Wire) /\ Wire[n] = "NL"
      BY <1>1, <1>6, <1>10
    <2>2. \A i \in 1..n - 1 : Wire[i] # "NL"
      BY <1>6, <1>7
    <2> QED  BY <1>1, <1>10, <2>1, <2>2, FirstLineAt
  <1> DEFINE g == Lead(Wire, n)
  <1>12. g \in Seq(Tokens) /\ Len(g) = n /\ \A i \in 1..n : g[i] = Wire[i]
    <2>1. Len(g) = IF n < Len(Wire) THEN n ELSE Len(Wire)
      BY <1>1, LeadFacts
    <2>2. Len(g) = n
      BY <1>1, <1>6, <2>1
    <2> QED  BY <1>1, <2>2, LeadFacts
  <1> HIDE DEF g
  <1>13. \A i \in 1..Len(f) : f[i] = g[i]
    BY <1>6, <1>8, <1>10, <1>12
  <1>14. f = g
    BY <1>8, <1>12, <1>13, SeqEqual
  <1>15. Received = f /\ FirstLine(Wire) = g
    BY <1>5, <1>7, <1>11 DEF f, g
  <1>16. Len(g) <= sent /\ Len(g) <= MaxRequest
    BY <1>2, <1>6, <1>10, <1>12
  <1> QED  BY <1>14, <1>15, <1>16

-----------------------------------------------------------------------------
\* Type correctness, of which the bound on what was sent is used below.
LEMMA DecodedKind ==
  ASSUME NEW l
  PROVE  decode_request(l) = NoAsk \/ decode_request(l).kind \in Kinds
  BY DEF decode_request, Kinds, NoAsk

LEMMA TypeInit == Init => TypeOK
  BY OneLine DEF Init, TypeOK, NoAsk, Replies, Wire

LEMMA TypeStep == TypeOK /\ [Next]_vars => TypeOK'
PROOF
  <1> SUFFICES ASSUME TypeOK, [Next]_vars PROVE TypeOK'
    OBVIOUS
  <1>0. ask \in Asks /\ Len(Wire) \in Nat
    BY OneLine DEF TypeOK, Wire
  <1>r. \A l \in Replies : Len(l) \in Nat
    BY DEF Replies
  <1> USE DEF TypeOK, Wire
  <1>1. CASE ReadLine
    BY <1>0, <1>1, DecodedKind DEF ReadLine, clientVars
  <1>2. CASE ReadFails
    BY <1>0, <1>2 DEF ReadFails, clientVars
  <1>3. CASE Decide
    <2>1. reply' \in Replies /\ outcome' \in {"refused", "granted", "denied", "pong", "status"}
      BY <1>3 DEF Decide, Answer, Replies
    <2>2. out' = 0 /\ Len(reply') \in Nat
      BY <1>r, <1>3, <2>1 DEF Decide
    <2> QED  BY <1>0, <1>3, <2>1, <2>2 DEF Decide, clientVars
  <1>4. CASE WriteReply
    <2>1. out' \in 0..Len(reply)
      BY <1>r, <1>4 DEF WriteReply
    <2> QED  BY <1>0, <1>4, <2>1 DEF WriteReply, clientVars
  <1>5. CASE DaemonEnds
    BY <1>0, <1>5 DEF DaemonEnds, clientVars
  <1>6. CASE Push
    BY <1>0, <1>6 DEF Push
  <1>7. CASE Hear
    BY <1>0, <1>7 DEF Hear
  <1>8. CASE GiveUp
    BY <1>0, <1>8 DEF GiveUp
  <1>9. CASE UNCHANGED vars
    BY <1>0, <1>9 DEF vars, clientVars
  <1> QED  BY <1>1, <1>2, <1>3, <1>4, <1>5, <1>6, <1>7, <1>8, <1>9 DEF Next

\* Every state of a connection is well-formed.
THEOREM TypeCorrect == Spec => []TypeOK
  BY TypeInit, TypeStep, PTL DEF Spec

\* The inductive invariant: what the daemon has decoded it had in full, and
\* nothing is decoded while it reads.
WInv == /\ ask \in Asks /\ sent \in 0..Len(Wire)
        /\ daemon = "reading" => request = NoAsk
        /\ WholeLineOnly

LEMMA WInvInit == Init => WInv
  BY OneLine DEF Init, WInv, WholeLineOnly, NoAsk, Wire

LEMMA WInvStep == WInv /\ [Next]_vars => WInv'
PROOF
  <1> SUFFICES ASSUME WInv, [Next]_vars PROVE WInv'
    OBVIOUS
  <1>0. /\ ask \in Asks /\ Len(Wire) \in Nat /\ sent \in 0..Len(Wire)
        /\ daemon = "reading" => request = NoAsk /\ WholeLineOnly
    BY OneLine DEF WInv, Wire
  <1> USE DEF WInv, WholeLineOnly, Wire
  <1>1. CASE ReadLine
    <2>1. EndsLine(Received) => Len(FirstLine(Wire)) <= sent /\ Len(FirstLine(Wire)) <= MaxRequest
      BY <1>0, NewlineMeansWhole
    <2>2. request'.kind # "none" => EndsLine(Received)
      BY <1>1 DEF ReadLine, IsLine, NoAsk
    <2> QED  BY <1>0, <1>1, <2>1, <2>2 DEF ReadLine, clientVars
  <1>2. CASE ReadFails
    BY <1>0, <1>2 DEF ReadFails, clientVars
  <1>3. CASE Decide
    BY <1>0, <1>3 DEF Decide, clientVars
  <1>4. CASE WriteReply
    BY <1>0, <1>4 DEF WriteReply, clientVars
  <1>5. CASE DaemonEnds
    BY <1>0, <1>5 DEF DaemonEnds, clientVars
  <1>6. CASE Push
    BY <1>0, <1>6 DEF Push
  <1>7. CASE Hear
    BY <1>0, <1>7 DEF Hear
  <1>8. CASE GiveUp
    BY <1>0, <1>8 DEF GiveUp
  <1>9. CASE UNCHANGED vars
    BY <1>0, <1>9 DEF vars, clientVars
  <1> QED  BY <1>1, <1>2, <1>3, <1>4, <1>5, <1>6, <1>7, <1>8, <1>9 DEF Next

\* handle() never acts on a part of a line: neither on one that the client did not
\* finish, nor on the first 1024 bytes of a longer one.
THEOREM ActsOnWholeLines == Spec => []WholeLineOnly
PROOF
  <1>1. WInv => WholeLineOnly
    BY DEF WInv
  <1> QED  BY <1>1, WInvInit, WInvStep, PTL DEF Spec

-----------------------------------------------------------------------------
\* The answer on its way is the one that was decided, and a client that was told
\* yes was told so by it.
Decision == [AUTH |-> "granted", PING |-> "pong", STATUS |-> "status"]
YesIsDecided == client = "yes" => outcome = Decision[ask.kind]

Answers == { <<"nothing", <<>>>>,
             <<"granted", <<"OK", "TAB", "text", "NL">>>>,
             <<"denied", <<"ERR", "TAB", "text", "NL">>>>,
             <<"refused", <<"ERR", "TAB", "text", "NL">>>>,
             <<"pong", <<"PONG", "NL">>>>,
             <<"status", <<"STATUS", "TAB", "text", "NL">>>> }

YInv == /\ ask \in Asks /\ out \in Nat
        /\ <<outcome, reply>> \in Answers
        /\ daemon \in {"reading", "deciding"} => outcome = "nothing"
        /\ client = "yes" => outcome # "nothing"
        /\ YesIsDecided

\* A line, whole or cut, is a success for one decision only.
LEMMA SuccessDecides ==
  ASSUME NEW o, NEW l, <<o, l>> \in Answers, NEW n \in Nat, NEW k \in Kinds,
         Success(k, Lead(l, n))
  PROVE  o = Decision[k]
PROOF
  <1> DEFINE S == {"OK", "ERR", "PONG", "STATUS", "TAB", "text", "NL"}
             c == Lead(l, n)
  <1>1. l \in Seq(S)
    <2>1. /\ <<"OK", "TAB", "text", "NL">> \in Seq(S) /\ <<"PONG", "NL">> \in Seq(S)
          /\ <<"ERR", "TAB", "text", "NL">> \in Seq(S) /\ <<>> \in Seq(S)
          /\ <<"STATUS", "TAB", "text", "NL">> \in Seq(S)
      OBVIOUS
    <2> HIDE DEF S
    <2> QED  BY <2>1 DEF Answers
  <1>2. /\ c \in Seq(S) /\ Len(c) \in Nat /\ Len(c) <= Len(l)
        /\ \A i \in 1..Len(c) : c[i] = l[i]
    BY <1>1, LeadFacts
  <1>6. ASSUME NEW m \in {1, 2}, Len(Lead(c, m)) = m
        PROVE  Len(c) > 0 /\ Lead(c, m)[1] = c[1]
    BY <1>2, <1>6, LeadFacts
  <1> HIDE DEF S, c
  <1>3. CASE k = "AUTH"
    <2>1. Lead(c, 2) = <<"OK", "TAB">>
      BY <1>3 DEF Success, c
    <2>2. Len(c) > 0 /\ c[1] = "OK"
      BY <1>6, <2>1
    <2>3. l[1] = "OK" /\ l # <<>>
      BY <1>1, <1>2, <2>2
    <2> QED  BY <1>3, <2>3 DEF Answers, Decision
  <1>4. CASE k = "PING"
    <2>1. Lead(c, 1) = <<"PONG">>
      BY <1>4 DEF Success, c
    <2>2. Len(c) > 0 /\ c[1] = "PONG"
      BY <1>6, <2>1
    <2>3. l[1] = "PONG" /\ l # <<>>
      BY <1>1, <1>2, <2>2
    <2> QED  BY <1>4, <2>3 DEF Answers, Decision
  <1>5. CASE k = "STATUS"
    <2>1. Lead(c, 1) = <<"STATUS">>
      BY <1>5 DEF Success, c
    <2>2. Len(c) > 0 /\ c[1] = "STATUS"
      BY <1>6, <2>1
    <2>3. l[1] = "STATUS" /\ l # <<>>
      BY <1>1, <1>2, <2>2
    <2> QED  BY <1>5, <2>3 DEF Answers, Decision
  <1> QED  BY <1>3, <1>4, <1>5 DEF Kinds

LEMMA YInvInit == Init => YInv
  BY DEF Init, YInv, Answers, YesIsDecided

LEMMA YInvStep == YInv /\ [Next]_vars => YInv'
PROOF
  <1> SUFFICES ASSUME YInv, [Next]_vars PROVE YInv'
    OBVIOUS
  <1>k. ask.kind \in Kinds
    BY ProtocolAssumption DEF YInv
  <1> USE DEF YInv, YesIsDecided
  <1>1. CASE ReadLine
    BY <1>1 DEF ReadLine, clientVars
  <1>2. CASE ReadFails
    BY <1>2 DEF ReadFails, clientVars
  <1>3. CASE Decide
    <2>1. <<outcome, reply>>' \in Answers
      BY <1>3 DEF Decide, Answer, Answers
    <2>2. client # "yes" /\ outcome' # "nothing"
      BY <1>3 DEF Decide, Answer
    <2> QED  BY <1>3, <2>1, <2>2 DEF Decide, clientVars
  <1>4. CASE WriteReply
    BY <1>4 DEF WriteReply, clientVars
  <1>5. CASE DaemonEnds
    BY <1>5 DEF DaemonEnds, clientVars
  <1>6. CASE Push
    BY <1>6 DEF Push
  <1>7. CASE Hear
    <2>1. CASE Success(ask.kind, Lead(reply, out))
      <3>1. outcome = Decision[ask.kind]
        BY <1>k, <2>1, SuccessDecides
      <3> QED  BY <1>k, <1>7, <3>1 DEF Hear, Decision, Kinds
    <2>2. CASE ~Success(ask.kind, Lead(reply, out))
      BY <1>7, <2>2 DEF Hear
    <2> QED  BY <2>1, <2>2
  <1>8. CASE GiveUp
    BY <1>8 DEF GiveUp
  <1>9. CASE UNCHANGED vars
    BY <1>9 DEF vars, clientVars
  <1> QED  BY <1>1, <1>2, <1>3, <1>4, <1>5, <1>6, <1>7, <1>8, <1>9 DEF Next

\* The PAM module reports success only for a line the daemon sent because it had
\* granted the request, also when the answer was cut short or the daemon died;
\* and setup takes nothing but an answered ping for a ready daemon.
THEOREM YesIsTheDecision == Spec => []YesIsDecided
PROOF
  <1>1. YInv => YesIsDecided
    BY DEF YInv
  <1> QED  BY <1>1, YInvInit, YInvStep, PTL DEF Spec

-----------------------------------------------------------------------------
(* decode_request() undoes encode_request(), or gives an error.             *)

\* The tabs of a line, and the cuts split('\t') makes up to position i.
Tabs(l) == {j \in DOMAIN l : l[j] = "TAB"}
Cuts(l, i) == {j \in 1..i : j = Len(l) + 1 \/ l[j] = "TAB"}

LEMMA CutsFinite ==
  ASSUME NEW l \in Seq(Tokens), NEW i \in 0..Len(l) + 1
  PROVE  IsFiniteSet(Cuts(l, i))
PROOF
  <1>1. i \in Int /\ Cuts(l, i) \in SUBSET (1..i)
    BY DEF Cuts
  <1>2. IsFiniteSet(1..i)
    BY <1>1, FS_Interval
  <1> QED  BY <1>1, <1>2, FS_Subset

\* The k-th cut is where it is counted: no two cuts have the same number.
LEMMA BarIs ==
  ASSUME NEW l \in Seq(Tokens), NEW i \in 0..Len(l) + 1, NEW k,
         i \in {0, Len(l) + 1} \/ l[i] = "TAB",
         Cardinality(Cuts(l, i)) = k
  PROVE  Bar(l, k) = i
PROOF
  <1> DEFINE At(m) == m \in {0, Len(l) + 1} \/ l[m] = "TAB"
  <1>1. ASSUME NEW m \in 0..Len(l) + 1, NEW n \in 0..Len(l) + 1, At(n), m < n,
               Cardinality(Cuts(l, m)) = Cardinality(Cuts(l, n))
        PROVE  FALSE
    <2>1. Cuts(l, m) \in SUBSET Cuts(l, n)
      BY <1>1 DEF Cuts
    <2>2. n \in Cuts(l, n) /\ n \notin Cuts(l, m)
      BY <1>1 DEF Cuts
    <2>3. IsFiniteSet(Cuts(l, n))
      BY CutsFinite
    <2>4. Cuts(l, m) = Cuts(l, n)
      BY <1>1, <2>1, <2>3, FS_Subset
    <2> QED  BY <2>2, <2>4
  <1>2. ASSUME NEW n \in 0..Len(l) + 1, At(n), Cardinality(Cuts(l, n)) = k
        PROVE  n = i
    <2>1. CASE n < i
      BY <1>1, <1>2, <2>1
    <2>2. CASE i < n
      BY <1>1, <1>2, <2>2
    <2> QED  BY <2>1, <2>2
  <1>3. Bar(l, k) = CHOOSE n \in 0..Len(l) + 1 : At(n) /\ Cardinality(Cuts(l, n)) = k
    BY DEF Bar, Cuts
  <1> HIDE DEF At
  <1>4. At(i)
    BY DEF At
  <1> QED  BY <1>2, <1>3, <1>4

\* Small sets are counted one by one.
LEMMA OneMore ==
  ASSUME NEW S, NEW T, NEW x, IsFiniteSet(S), x \notin S, T = S \cup {x}
  PROVE  IsFiniteSet(T) /\ Cardinality(T) = Cardinality(S) + 1
  BY FS_AddElement

LEMMA CountTwo ==
  ASSUME NEW a, NEW b, a # b
  PROVE  IsFiniteSet({a, b}) /\ Cardinality({a, b}) = 2
PROOF
  <1>1. IsFiniteSet({a}) /\ Cardinality({a}) = 1 /\ b \notin {a} /\ {a, b} = {a} \cup {b}
    BY FS_Singleton
  <1>2. IsFiniteSet({a, b}) /\ Cardinality({a, b}) = Cardinality({a}) + 1
    BY <1>1, OneMore
  <1> QED  BY <1>1, <1>2

LEMMA CountThree ==
  ASSUME NEW a, NEW b, NEW c, a # b, c \notin {a, b}
  PROVE  IsFiniteSet({a, b, c}) /\ Cardinality({a, b, c}) = 3
PROOF
  <1>1. IsFiniteSet({a, b}) /\ Cardinality({a, b}) = 2 /\ {a, b, c} = {a, b} \cup {c}
    BY CountTwo
  <1>2. IsFiniteSet({a, b, c}) /\ Cardinality({a, b, c}) = Cardinality({a, b}) + 1
    BY <1>1, OneMore
  <1> QED  BY <1>1, <1>2

LEMMA CountFour ==
  ASSUME NEW a, NEW b, NEW c, NEW d, a # b, c \notin {a, b}, d \notin {a, b, c}
  PROVE  Cardinality({a, b, c, d}) = 4
PROOF
  <1>1. IsFiniteSet({a, b, c}) /\ Cardinality({a, b, c}) = 3
        /\ {a, b, c, d} = {a, b, c} \cup {d}
    BY CountThree
  <1>2. Cardinality({a, b, c, d}) = Cardinality({a, b, c}) + 1
    BY <1>1, OneMore
  <1> QED  BY <1>1, <1>2

\* The pieces are as many as the tabs, and one.
LEMMA TupleLength ==
  ASSUME NEW m \in Nat, NEW f, f = [i \in 1..m |-> f[i]]
  PROVE  Len(f) = m
PROOF
  <1> DEFINE S == {f[i] : i \in 1..m}
  <1>1. f \in [1..m -> S]
    OBVIOUS
  <1>2. f \in Seq(S)
    BY <1>1
  <1> QED  BY <1>1, <1>2, LenProperties

LEMMA PiecesFcn ==
  ASSUME NEW l \in Seq(Tokens), NEW n \in Nat, Cardinality(Tabs(l)) = n
  PROVE  /\ Len(Pieces(l)) = n + 1
         /\ \A k \in 1..n + 1 :
              Pieces(l)[k] = SubSeq(l, Bar(l, k - 1) + 1, Bar(l, k) - 1)
PROOF
  <1>1. Pieces(l) = [k \in 1..n + 1 |-> SubSeq(l, Bar(l, k - 1) + 1, Bar(l, k) - 1)]
    BY DEF Pieces, Tabs
  <1>2. \A k \in 1..n + 1 :
          Pieces(l)[k] = SubSeq(l, Bar(l, k - 1) + 1, Bar(l, k) - 1)
    BY <1>1
  <1>3. Pieces(l) = [k \in 1..n + 1 |-> Pieces(l)[k]]
    BY <1>1
  <1>4. Len(Pieces(l)) = n + 1
    BY <1>3, TupleLength
  <1> QED  BY <1>2, <1>4

\* A line with one tab has two pieces, and one with three has four.
LEMMA OneTab ==
  ASSUME NEW l \in Seq(Tokens), NEW a \in DOMAIN l, Tabs(l) = {a}
  PROVE  /\ Len(Pieces(l)) = 2
         /\ Pieces(l)[1] = SubSeq(l, 1, a - 1)
         /\ Pieces(l)[2] = SubSeq(l, a + 1, Len(l))
PROOF
  <1>1. Cuts(l, 0) = {} /\ Cuts(l, a) = {a} /\ Cuts(l, Len(l) + 1) = {a, Len(l) + 1}
    BY DEF Tabs, Cuts
  <1>2. a # Len(l) + 1 /\ l[a] = "TAB" /\ a \in 0..Len(l) + 1 /\ Len(l) \in Nat
    BY DEF Tabs
  <1> HIDE DEF Cuts
  <1>3. Bar(l, 0) = 0
    <2>1. Cardinality(Cuts(l, 0)) = 0
      BY <1>1, FS_EmptySet
    <2> QED  BY <1>2, <2>1, BarIs
  <1>4. Bar(l, 1) = a
    <2>1. Cardinality(Cuts(l, a)) = 1
      BY <1>1, FS_Singleton
    <2> QED  BY <1>2, <2>1, BarIs
  <1>5. Bar(l, 2) = Len(l) + 1
    <2>1. Cardinality(Cuts(l, Len(l) + 1)) = 2
      <3>1. ASSUME NEW e, a # e PROVE Cardinality({a, e}) = 2
        BY <3>1, CountTwo
      <3> QED  BY <1>1, <1>2, <3>1
    <2> QED  BY <1>2, <2>1, BarIs
  <1>6. /\ Len(Pieces(l)) = 2
        /\ \A k \in 1..2 : Pieces(l)[k] = SubSeq(l, Bar(l, k - 1) + 1, Bar(l, k) - 1)
    <2>1. Cardinality(Tabs(l)) = 1
      BY FS_Singleton
    <2>2. /\ Len(Pieces(l)) = 1 + 1
          /\ \A k \in 1..1 + 1 :
               Pieces(l)[k] = SubSeq(l, Bar(l, k - 1) + 1, Bar(l, k) - 1)
      BY <2>1, PiecesFcn
    <2> QED  BY <2>2
  <1>7. /\ Pieces(l)[1] = SubSeq(l, Bar(l, 1 - 1) + 1, Bar(l, 1) - 1)
        /\ Pieces(l)[2] = SubSeq(l, Bar(l, 2 - 1) + 1, Bar(l, 2) - 1)
    BY <1>6
  <1>8. 1 - 1 = 0 /\ 2 - 1 = 1 /\ (Len(l) + 1) - 1 = Len(l) /\ 0 + 1 = 1
    BY <1>2
  <1> QED  BY <1>3, <1>4, <1>5, <1>6, <1>7, <1>8

LEMMA ThreeTabs ==
  ASSUME NEW l \in Seq(Tokens), NEW a \in DOMAIN l, NEW b \in DOMAIN l, NEW c \in DOMAIN l,
         a < b, b < c, Tabs(l) = {a, b, c}
  PROVE  /\ Len(Pieces(l)) = 4
         /\ Pieces(l)[3] = SubSeq(l, b + 1, c - 1)
         /\ Pieces(l)[4] = SubSeq(l, c + 1, Len(l))
PROOF
  <1>0. Len(l) \in Nat /\ a \in Nat /\ b \in Nat /\ c \in Nat /\ c <= Len(l)
    OBVIOUS
  <1>1. Cuts(l, b) = {a, b} /\ Cuts(l, c) = {a, b, c}
    BY <1>0 DEF Tabs, Cuts
  <1>2. Cuts(l, Len(l) + 1) = {a, b, c, Len(l) + 1}
    BY <1>0 DEF Tabs, Cuts
  <1>3. a # b /\ a # c /\ b # c /\ c \notin {a, b} /\ Len(l) + 1 \notin {a, b, c}
    BY <1>0
  <1>4. l[b] = "TAB" /\ l[c] = "TAB" /\ b \in 0..Len(l) + 1 /\ c \in 0..Len(l) + 1
    BY <1>0 DEF Tabs
  <1>5. Bar(l, 2) = b
    <2>1. Cardinality(Cuts(l, b)) = 2
      BY <1>1, <1>3, CountTwo
    <2> QED  BY <1>4, <2>1, BarIs
  <1>6. Bar(l, 3) = c
    <2>1. Cardinality(Cuts(l, c)) = 3
      BY ZenonT(60), <1>1, <1>3, CountThree
    <2> QED  BY <1>4, <2>1, BarIs
  <1>7. Bar(l, 4) = Len(l) + 1
    <2>1. Cardinality(Cuts(l, Len(l) + 1)) = 4
      <3>1. ASSUME NEW e, e \notin {a, b, c} PROVE Cardinality({a, b, c, e}) = 4
        BY <1>3, <3>1, CountFour
      <3> QED  BY <1>2, <1>3, <3>1
    <2> QED  BY <1>0, <2>1, BarIs
  <1>8. /\ Len(Pieces(l)) = 4
        /\ \A k \in 1..4 : Pieces(l)[k] = SubSeq(l, Bar(l, k - 1) + 1, Bar(l, k) - 1)
    <2>1. Cardinality(Tabs(l)) = 3
      BY ZenonT(60), <1>3, CountThree
    <2>2. /\ Len(Pieces(l)) = 3 + 1
          /\ \A k \in 1..3 + 1 :
               Pieces(l)[k] = SubSeq(l, Bar(l, k - 1) + 1, Bar(l, k) - 1)
      BY <2>1, PiecesFcn
    <2> QED  BY <2>2
  <1>9. /\ Pieces(l)[3] = SubSeq(l, Bar(l, 3 - 1) + 1, Bar(l, 3) - 1)
        /\ Pieces(l)[4] = SubSeq(l, Bar(l, 4 - 1) + 1, Bar(l, 4) - 1)
    BY <1>8
  <1>10. 3 - 1 = 2 /\ 4 - 1 = 3 /\ (Len(l) + 1) - 1 = Len(l)
    BY <1>0
  <1> QED  BY <1>5, <1>6, <1>7, <1>8, <1>9, <1>10

\* The elements of a concatenation.
LEMMA Joined ==
  ASSUME NEW S, NEW s \in Seq(S), NEW t \in Seq(S)
  PROVE  /\ s \o t \in Seq(S) /\ Len(s \o t) = Len(s) + Len(t)
         /\ \A i \in 1..Len(s) : (s \o t)[i] = s[i]
         /\ \A i \in 1..Len(t) : (s \o t)[Len(s) + i] = t[i]
  BY ConcatProperties

\* The line ends that trim_end_matches() strips.
Ends == {"CR", "NL"}

\* Trim() keeps all up to the last token that ends no line.
LEMMA TrimIs ==
  ASSUME NEW l \in Seq(Tokens), NEW n \in 0..Len(l),
         \A i \in n + 1 .. Len(l) : l[i] \in Ends,
         n = 0 \/ l[n] \notin Ends
  PROVE  Trim(l) = Lead(l, n)
PROOF
  <1> DEFINE S == {k \in 0..Len(l) : \A i \in k + 1 .. Len(l) : l[i] \in Ends}
  <1>1. Trim(l) = Lead(l, CHOOSE k \in S : \A j \in S : k <= j)
    BY DEF Trim, Ends
  <1>2. n \in S
    OBVIOUS
  <1>3. ASSUME NEW k \in S PROVE n <= k
    <2>1. k \in 0..Len(l) /\ \A i \in k + 1 .. Len(l) : l[i] \in Ends
      BY <1>3
    <2>2. k < n => n \in k + 1 .. Len(l) /\ n # 0
      BY <2>1
    <2> QED  BY <2>1, <2>2
  <1>4. ASSUME NEW k \in S, \A j \in S : k <= j
        PROVE  k = n
    <2>1. k <= n /\ n <= k /\ k \in Nat /\ n \in Nat
      BY <1>2, <1>3, <1>4
    <2> QED  BY <2>1
  <1>5. (CHOOSE k \in S : \A j \in S : k <= j) = n
    <2> HIDE DEF S
    <2> QED  BY <1>2, <1>3, <1>4
  <1> QED  BY <1>1, <1>5

LEMMA TrimFacts ==
  ASSUME NEW l \in Seq(Tokens)
  PROVE  \E n \in 0..Len(l) :
           /\ Trim(l) = Lead(l, n)
           /\ \A i \in n + 1 .. Len(l) : l[i] \in Ends
           /\ n = 0 \/ l[n] \notin Ends
PROOF
  <1> DEFINE S == {k \in 0..Len(l) : \A i \in k + 1 .. Len(l) : l[i] \in Ends}
  <1>1. S \in SUBSET Nat /\ Len(l) \in S
    OBVIOUS
  <1>2. PICK n \in S : \A k \in S : n <= k
    <2> HIDE DEF S
    <2> QED  BY <1>1, FirstOf
  <1>3. n = 0 \/ l[n] \notin Ends
    <2> SUFFICES ASSUME n # 0, l[n] \in Ends PROVE FALSE
      OBVIOUS
    <2>1. n - 1 \in 0..Len(l) /\ n \in Nat
      OBVIOUS
    <2>2. \A i \in (n - 1) + 1 .. Len(l) : l[i] \in Ends
      BY <2>1
    <2>3. n - 1 \in S
      BY <2>1, <2>2
    <2> HIDE DEF S
    <2> QED  BY <1>2, <2>1, <2>3
  <1>4. n \in 0..Len(l) /\ \A i \in n + 1 .. Len(l) : l[i] \in Ends
    OBVIOUS
  <1> QED  BY <1>3, <1>4, TrimIs

\* The line of a request with fields.
LEMMA AuthLine ==
  ASSUME NEW a \in Asks, a.kind = "AUTH"
  PROVE  LET w == encode_request(a)
             u == Len(a.user)
             r == Len(a.reason)
         IN  /\ w \in Seq(Tokens) /\ u \in Nat /\ r \in Nat /\ Len(w) = 6 + u + r
             /\ w[1] = "V1" /\ w[2] = "TAB" /\ w[3] = "AUTH" /\ w[4] = "TAB"
             /\ \A i \in 1..u : w[4 + i] = a.user[i]
             /\ w[5 + u] = "TAB"
             /\ \A i \in 1..r : w[5 + u + i] = a.reason[i]
             /\ w[6 + u + r] = "NL"
PROOF
  <1> DEFINE w == encode_request(a)
             u == Len(a.user)
             r == Len(a.reason)
             h == <<"V1", "TAB", "AUTH">>
             b == (<<"TAB">> \o a.user) \o (<<"TAB">> \o a.reason)
  <1>1. w \in Seq(Tokens)
    BY OneLine
  <1>2. a.user \in Seq(Tokens) /\ a.reason \in Seq(Tokens) /\ u \in Nat /\ r \in Nat
    BY ProtocolAssumption
  <1>3. /\ {"V1", "TAB", "AUTH", "NL"} \subseteq Tokens
        /\ <<"TAB">> \in Seq(Tokens) /\ <<"NL">> \in Seq(Tokens) /\ h \in Seq(Tokens)
    <2>1. "V1" \in Tokens /\ "TAB" \in Tokens /\ "AUTH" \in Tokens /\ "NL" \in Tokens
      BY DEF Tokens, Controls, Kinds
    <2> QED  BY <2>1
  <1>4. <<"TAB">> \o a.user \o <<"TAB">> \o a.reason = b
    <2>1. <<"TAB">> \o a.user \in Seq(Tokens)
      BY <1>2, <1>3, ConcatProperties
    <2>2. \A x, y, z \in Seq(Tokens) : (x \o y) \o z = x \o (y \o z)
      BY ConcatAssociative
    <2> QED  BY <1>2, <1>3, <2>1, <2>2
  <1>5. w = h \o b \o <<"NL">>
    BY <1>4 DEF encode_request
  <1> DEFINE s == <<"TAB">> \o a.user
             t == <<"TAB">> \o a.reason
  <1>6. /\ s \in Seq(Tokens) /\ Len(s) = 1 + u /\ s[1] = "TAB"
        /\ \A i \in 1..u : s[1 + i] = a.user[i]
    BY <1>2, <1>3
  <1>7. /\ t \in Seq(Tokens) /\ Len(t) = 1 + r /\ t[1] = "TAB"
        /\ \A i \in 1..r : t[1 + i] = a.reason[i]
    BY <1>2, <1>3
  <1>8. b = s \o t
    OBVIOUS
  <1> HIDE DEF s, t, u, r, b, w
  <1>9. /\ b \in Seq(Tokens) /\ Len(b) = 2 + u + r
        /\ \A i \in 1..1 + u : b[i] = s[i]
        /\ \A i \in 1..1 + r : b[1 + u + i] = t[i]
    <2>1. /\ s \o t \in Seq(Tokens) /\ Len(s \o t) = Len(s) + Len(t)
          /\ \A i \in 1..Len(s) : (s \o t)[i] = s[i]
          /\ \A i \in 1..Len(t) : (s \o t)[Len(s) + i] = t[i]
      <3>1. s \in Seq(Tokens) /\ t \in Seq(Tokens)
        BY <1>6, <1>7
      <3> QED  BY <3>1, Joined
    <2> QED  BY <1>2, <1>6, <1>7, <1>8, <2>1
  <1>10. /\ Len(h \o b) = 5 + u + r /\ h \o b \in Seq(Tokens)
         /\ \A i \in 1..3 : (h \o b)[i] = h[i]
         /\ \A i \in 1..2 + u + r : (h \o b)[3 + i] = b[i]
    <2>1. /\ h \o b \in Seq(Tokens) /\ Len(h \o b) = Len(h) + Len(b)
          /\ \A i \in 1..Len(h) : (h \o b)[i] = h[i]
          /\ \A i \in 1..Len(b) : (h \o b)[Len(h) + i] = b[i]
      BY <1>3, <1>9, Joined
    <2>2. Len(h) = 3
      OBVIOUS
    <2> HIDE DEF h
    <2> QED  BY <1>2, <1>9, <2>1, <2>2
  <1>11. /\ Len(w) = 6 + u + r
         /\ \A i \in 1..5 + u + r : w[i] = (h \o b)[i]
         /\ w[6 + u + r] = "NL"
    BY <1>2, <1>3, <1>5, <1>10
  <1>12. \A i \in 1..3 : w[i] = h[i]
    BY <1>2, <1>10, <1>11
  <1>13. \A i \in 1..2 + u + r : w[3 + i] = b[i]
    BY <1>2, <1>10, <1>11
  <1>14. w[4] = "TAB"
    <2>1. w[3 + 1] = b[1] /\ b[1] = s[1]
      BY <1>2, <1>9, <1>13
    <2> QED  BY <1>6, <2>1
  <1>15. ASSUME NEW i \in 1..u PROVE w[4 + i] = a.user[i]
    <2>1. 1 + i \in 1..2 + u + r /\ 1 + i \in 1..1 + u /\ 3 + (1 + i) = 4 + i
      BY <1>2
    <2>2. w[3 + (1 + i)] = b[1 + i] /\ b[1 + i] = s[1 + i] /\ s[1 + i] = a.user[i]
      BY <1>6, <1>9, <1>13, <2>1
    <2> QED  BY <2>1, <2>2
  <1>16. w[5 + u] = "TAB"
    <2>1. 2 + u \in 1..2 + u + r /\ 1 \in 1..1 + r /\ 3 + (2 + u) = 5 + u /\ 2 + u = 1 + u + 1
      BY <1>2
    <2>2. w[3 + (2 + u)] = b[2 + u] /\ b[1 + u + 1] = t[1]
      BY <1>9, <1>13, <2>1
    <2> QED  BY <1>7, <2>1, <2>2
  <1>17. ASSUME NEW i \in 1..r PROVE w[5 + u + i] = a.reason[i]
    <2>1. /\ 1 + i \in 1..1 + r /\ 1 + u + (1 + i) \in 1..2 + u + r
          /\ 3 + (1 + u + (1 + i)) = 5 + u + i
      BY <1>2
    <2>2. w[3 + (1 + u + (1 + i))] = b[1 + u + (1 + i)] /\ b[1 + u + (1 + i)] = t[1 + i]
          /\ t[1 + i] = a.reason[i]
      BY <1>7, <1>9, <1>13, <2>1
    <2> QED  BY <2>1, <2>2
  <1>18. w[1] = "V1" /\ w[2] = "TAB" /\ w[3] = "AUTH"
    BY <1>12
  <1> QED  BY <1>1, <1>2, <1>11, <1>18, <1>14, <1>15, <1>16, <1>17 DEF w, u, r

\* Parts of the beginning of a line are parts of the line.
LEMMA LeadOf ==
  ASSUME NEW w \in Seq(Tokens), NEW n \in 0..Len(w)
  PROVE  Lead(w, n) \in Seq(Tokens) /\ Len(Lead(w, n)) = n
         /\ \A k \in 1..n : Lead(w, n)[k] = w[k]
  BY LeadFacts

LEMMA LeadTwice ==
  ASSUME NEW w \in Seq(Tokens), NEW n \in 0..Len(w), NEW i \in Nat, NEW j \in Nat,
         1 <= i, j <= n
  PROVE  SubSeq(Lead(w, n), i, j) = SubSeq(w, i, j)
PROOF
  <1> DEFINE l == Lead(w, n)
  <1>1. l \in Seq(Tokens) /\ Len(l) = n /\ \A k \in 1..n : l[k] = w[k]
    BY LeadOf
  <1>2. \A k \in i..j : l[k] = w[k] /\ l[k] \in Tokens /\ w[k] \in Tokens
    BY <1>1
  <1>3. /\ SubSeq(l, i, j) \in Seq(Tokens)
        /\ Len(SubSeq(l, i, j)) = IF i <= j THEN j - i + 1 ELSE 0
        /\ \A k \in 1..j - i + 1 : SubSeq(l, i, j)[k] = l[i + k - 1]
    BY <1>2, SubSeqProperties
  <1>4. /\ SubSeq(w, i, j) \in Seq(Tokens)
        /\ Len(SubSeq(w, i, j)) = IF i <= j THEN j - i + 1 ELSE 0
        /\ \A k \in 1..j - i + 1 : SubSeq(w, i, j)[k] = w[i + k - 1]
    BY <1>2, SubSeqProperties
  <1> HIDE DEF l
  <1>5. \A k \in 1..Len(SubSeq(l, i, j)) : i + k - 1 \in i..j /\ k \in 1..j - i + 1
    BY <1>3
  <1>6. \A k \in 1..Len(SubSeq(l, i, j)) : SubSeq(l, i, j)[k] = SubSeq(w, i, j)[k]
    BY <1>2, <1>3, <1>4, <1>5
  <1>7. SubSeq(l, i, j) = SubSeq(w, i, j)
    BY <1>3, <1>4, <1>6, SeqEqual
  <1> QED  BY <1>7 DEF l

\* A part of w that reads like s is s's beginning.
LEMMA SamePart ==
  ASSUME NEW w \in Seq(Tokens), NEW s \in Seq(Tokens), NEW i \in Nat, NEW m \in 0..Len(s),
         i + m <= Len(w), \A k \in 1..m : w[i + k] = s[k]
  PROVE  SubSeq(w, i + 1, i + m) = SubSeq(s, 1, m)
PROOF
  <1>1. \A k \in i + 1 .. i + m : w[k] \in Tokens
    OBVIOUS
  <1>2. /\ SubSeq(w, i + 1, i + m) \in Seq(Tokens)
        /\ Len(SubSeq(w, i + 1, i + m)) = IF i + 1 <= i + m THEN i + m - (i + 1) + 1 ELSE 0
        /\ \A k \in 1..i + m - (i + 1) + 1 : SubSeq(w, i + 1, i + m)[k] = w[(i + 1) + k - 1]
    BY <1>1, SubSeqProperties
  <1>3. \A k \in 1..m : s[k] \in Tokens
    OBVIOUS
  <1>4. /\ SubSeq(s, 1, m) \in Seq(Tokens)
        /\ Len(SubSeq(s, 1, m)) = IF 1 <= m THEN m - 1 + 1 ELSE 0
        /\ \A k \in 1..m - 1 + 1 : SubSeq(s, 1, m)[k] = s[1 + k - 1]
    BY <1>3, SubSeqProperties
  <1>5. /\ Len(SubSeq(w, i + 1, i + m)) = m /\ Len(SubSeq(s, 1, m)) = m
        /\ \A k \in 1..m : SubSeq(w, i + 1, i + m)[k] = w[i + k]
        /\ \A k \in 1..m : SubSeq(s, 1, m)[k] = s[k]
    BY <1>2, <1>4
  <1> QED  BY <1>2, <1>4, <1>5, SeqEqual

\* What a tab separates, joined again.
LEMMA Rejoined ==
  ASSUME NEW l \in Seq(Tokens), NEW c \in DOMAIN l, NEW i \in 1..c, l[c] = "TAB"
  PROVE  SubSeq(l, i, c - 1) \o <<"TAB">> \o SubSeq(l, c + 1, Len(l)) = SubSeq(l, i, Len(l))
PROOF
  <1> DEFINE x == SubSeq(l, i, c - 1)
             y == SubSeq(l, c + 1, Len(l))
             z == SubSeq(l, i, Len(l))
             t == <<"TAB">>
  <1>0. c \in Nat /\ i \in Nat /\ Len(l) \in Nat /\ 1 <= i /\ i <= c /\ c <= Len(l)
        /\ \A k \in 1..Len(l) : l[k] \in Tokens
    OBVIOUS
  <1>1. x \in Seq(Tokens) /\ Len(x) = c - i /\ \A k \in 1..c - i : x[k] = l[i + k - 1]
    <2>1. \A k \in i..c - 1 : l[k] \in Tokens
      BY <1>0
    <2> QED  BY <1>0, <2>1, SubSeqProperties
  <1>2. y \in Seq(Tokens) /\ Len(y) = Len(l) - c /\ \A k \in 1..Len(l) - c : y[k] = l[c + k]
    <2>1. \A k \in c + 1 .. Len(l) : l[k] \in Tokens
      BY <1>0
    <2>2. /\ y \in Seq(Tokens)
          /\ Len(y) = IF c + 1 <= Len(l) THEN Len(l) - (c + 1) + 1 ELSE 0
          /\ \A k \in 1..Len(l) - (c + 1) + 1 : y[k] = l[(c + 1) + k - 1]
      BY <1>0, <2>1, SubSeqProperties
    <2> HIDE DEF y
    <2> QED  BY <1>0, <2>2
  <1>3. z \in Seq(Tokens) /\ Len(z) = Len(l) - i + 1
        /\ \A k \in 1..Len(l) - i + 1 : z[k] = l[i + k - 1]
    <2>1. \A k \in i..Len(l) : l[k] \in Tokens
      BY <1>0
    <2> QED  BY <1>0, <2>1, SubSeqProperties
  <1>4. t \in Seq(Tokens) /\ Len(t) = 1 /\ t[1] = "TAB"
    BY DEF Tokens, Controls
  <1> HIDE DEF x, y, z, t
  <1> DEFINE v == x \o t
             e == v \o y
  <1>5. /\ v \in Seq(Tokens) /\ Len(v) = c - i + 1
        /\ \A k \in 1..c - i : v[k] = x[k]
        /\ v[c - i + 1] = "TAB"
    <2>1. x \in Seq(Tokens) /\ t \in Seq(Tokens)
      BY <1>1, <1>4
    <2>2. /\ v \in Seq(Tokens) /\ Len(v) = Len(x) + Len(t)
          /\ \A k \in 1..Len(x) : v[k] = x[k]
          /\ \A k \in 1..Len(t) : v[Len(x) + k] = t[k]
      BY <2>1, Joined
    <2> HIDE DEF v
    <2>3. 1 \in 1..Len(t)
      BY <1>4
    <2>4. v[Len(x) + 1] = "TAB"
      BY <1>4, <2>2, <2>3
    <2> QED  BY <1>0, <1>1, <1>4, <2>2, <2>4
  <1> HIDE DEF v
  <1>6. /\ e \in Seq(Tokens) /\ Len(e) = Len(l) - i + 1
        /\ \A k \in 1..c - i + 1 : e[k] = v[k]
        /\ \A k \in 1..Len(l) - c : e[c - i + 1 + k] = y[k]
    <2>1. v \in Seq(Tokens) /\ y \in Seq(Tokens)
      BY <1>2, <1>5
    <2>2. /\ e \in Seq(Tokens) /\ Len(e) = Len(v) + Len(y)
          /\ \A k \in 1..Len(v) : e[k] = v[k]
          /\ \A k \in 1..Len(y) : e[Len(v) + k] = y[k]
      BY <2>1, Joined
    <2> HIDE DEF e
    <2> QED  BY <1>0, <1>2, <1>5, <2>2
  <1> HIDE DEF e
  <1>7. ASSUME NEW k \in 1..Len(l) - i + 1
        PROVE  e[k] = z[k]
    <2>1. CASE k < c - i + 1
      <3>1. k \in 1..c - i /\ k \in 1..c - i + 1
        BY <1>0, <2>1
      <3> QED  BY <1>1, <1>3, <1>5, <1>6, <3>1
    <2>2. CASE k = c - i + 1
      <3>1. k \in 1..c - i + 1 /\ i + k - 1 = c
        BY <1>0, <2>2
      <3> QED  BY <1>3, <1>5, <1>6, <2>2, <3>1
    <2>3. CASE k > c - i + 1
      <3>1. /\ k - (c - i + 1) \in 1..Len(l) - c
            /\ c - i + 1 + (k - (c - i + 1)) = k
            /\ i + k - 1 = c + (k - (c - i + 1))
        <4>1. /\ Len(l) \in Int /\ c \in Int /\ i \in Int /\ k \in Int
              /\ k <= Len(l) - i + 1 /\ k > c - i + 1
          BY <1>0, <2>3
        <4>2. c - i + 1 + (k - (c - i + 1)) = k
          BY <4>1
        <4>3. i + k - 1 = c + (k - (c - i + 1))
          BY <4>1
        <4>4. k - (c - i + 1) \in Int /\ 1 <= k - (c - i + 1) /\ k - (c - i + 1) <= Len(l) - c
          BY <4>1
        <4> QED  BY <4>1, <4>2, <4>3, <4>4
      <3>2. e[c - i + 1 + (k - (c - i + 1))] = y[k - (c - i + 1)]
            /\ y[k - (c - i + 1)] = l[c + (k - (c - i + 1))]
        BY <1>2, <1>6, <3>1
      <3>3. z[k] = l[i + k - 1]
        BY <1>3
      <3> QED  BY <3>1, <3>2, <3>3
    <2>4. k \in Int /\ c - i + 1 \in Int
      BY <1>0
    <2> QED  BY <2>1, <2>2, <2>3, <2>4
  <1>8. e = z
    BY <1>3, <1>6, <1>7, SeqEqual
  <1> QED  BY <1>8 DEF e, v, x, y, z, t

\* decode_request() on the first line of a request with fields.
LEMMA AuthRoundTrip ==
  ASSUME NEW a \in Asks, a.kind = "AUTH",
         NEW q, q = decode_request(FirstLine(encode_request(a))), q.kind # "none"
  PROVE  /\ q.kind = "AUTH"
         /\ q.user \o <<"TAB">> \o q.reason
              = Trim(FirstLine(a.user \o <<"TAB">> \o a.reason))
         /\ (\A i \in DOMAIN a.user : a.user[i] # "NL") => q.user = a.user
PROOF
  <1> DEFINE w == encode_request(a)
             u == Len(a.user)
             r == Len(a.reason)
             s == a.user \o <<"TAB">> \o a.reason
  <1>1. /\ w \in Seq(Tokens) /\ u \in Nat /\ r \in Nat /\ Len(w) = 6 + u + r
        /\ w[1] = "V1" /\ w[2] = "TAB" /\ w[3] = "AUTH" /\ w[4] = "TAB"
        /\ \A i \in 1..u : w[4 + i] = a.user[i]
        /\ w[5 + u] = "TAB"
        /\ \A i \in 1..r : w[5 + u + i] = a.reason[i]
        /\ w[6 + u + r] = "NL"
    BY AuthLine
  <1>2. a.user \in Seq(Tokens) /\ a.reason \in Seq(Tokens)
    BY ProtocolAssumption
  <1>d. DOMAIN a.user = 1..u
    BY <1>2
  <1> HIDE DEF w
  <1>3. /\ s \in Seq(Tokens) /\ Len(s) = 1 + u + r
        /\ \A i \in 1..u : s[i] = a.user[i]
        /\ s[1 + u] = "TAB"
        /\ \A i \in 1..r : s[1 + u + i] = a.reason[i]
    <2> DEFINE t == <<"TAB">>
               b == a.user \o t
    <2>1. t \in Seq(Tokens) /\ Len(t) = 1 /\ t[1] = "TAB"
      BY DEF Tokens, Controls
    <2> HIDE DEF t
    <2>2. /\ b \in Seq(Tokens) /\ Len(b) = u + Len(t)
          /\ \A i \in 1..u : b[i] = a.user[i]
          /\ \A i \in 1..Len(t) : b[u + i] = t[i]
      BY <1>2, <2>1, Joined
    <2> HIDE DEF b
    <2>3. /\ b \o a.reason \in Seq(Tokens) /\ Len(b \o a.reason) = Len(b) + r
          /\ \A i \in 1..Len(b) : (b \o a.reason)[i] = b[i]
          /\ \A i \in 1..r : (b \o a.reason)[Len(b) + i] = a.reason[i]
      <3>1. b \in Seq(Tokens) /\ a.reason \in Seq(Tokens)
        BY <1>2, <2>2
      <3> QED  BY <3>1, Joined
    <2>4. s = b \o a.reason
      BY DEF b, t
    <2> HIDE DEF s, u, r
    <2>5. b[u + 1] = "TAB" /\ Len(b) = 1 + u /\ u + 1 = 1 + u
      BY <1>1, <2>1, <2>2
    <2>6. 1 + u \in 1..Len(b) /\ \A i \in 1..u : i \in 1..Len(b)
      BY <1>1, <2>5
    <2> QED  BY <1>1, <2>2, <2>3, <2>4, <2>5, <2>6
  <1> HIDE DEF s, u, r
  <1>4. ASSUME NEW i \in 1..1 + u + r
        PROVE  w[4 + i] = s[i]
    <2>1. CASE i \in 1..u
      BY <1>1, <1>3, <2>1
    <2>2. CASE i = 1 + u
      <3>1. 4 + i = 5 + u
        BY <1>1, <2>2
      <3> QED  BY <1>1, <1>3, <2>2, <3>1
    <2>3. CASE i > 1 + u
      <3>1. i - 1 - u \in 1..r /\ 5 + u + (i - 1 - u) = 4 + i /\ 1 + u + (i - 1 - u) = i
        BY <1>1, <2>3
      <3>2. w[5 + u + (i - 1 - u)] = a.reason[i - 1 - u]
            /\ s[1 + u + (i - 1 - u)] = a.reason[i - 1 - u]
        BY <1>1, <1>3, <3>1
      <3> QED  BY <3>1, <3>2
    <2> QED  BY <1>1, <2>1, <2>2, <2>3
  <1>5. PICK N \in 0..Len(w) : /\ N = Len(w) \/ (N > 0 /\ w[N] = "NL")
                               /\ \A i \in 1..N - 1 : w[i] # "NL"
                               /\ FirstLine(w) = Lead(w, N)
    BY <1>1, FirstLineExists
  <1>6. N \in Nat /\ N >= 5 /\ N <= 6 + u + r /\ w[N] = "NL"
    <2>0. Len(w) = 6 + u + r /\ w[6 + u + r] = "NL" /\ u \in Nat /\ r \in Nat
      BY <1>1
    <2>1. N \in Nat /\ N > 0 /\ N <= 6 + u + r /\ w[N] = "NL"
      BY <2>0, <1>5
    <2>2. N \notin {1, 2, 3, 4}
      BY <1>1, <2>1
    <2> QED  BY <2>1, <2>2
  <1> DEFINE f == Lead(w, N)
  <1>7. f \in Seq(Tokens) /\ Len(f) = N /\ \A i \in 1..N : f[i] = w[i]
    BY <1>1, LeadOf
  <1>8. PICK n \in 0..Len(f) : /\ Trim(f) = Lead(f, n)
                               /\ \A i \in n + 1 .. Len(f) : f[i] \in Ends
                               /\ n = 0 \/ f[n] \notin Ends
    BY <1>7, TrimFacts
  <1> DEFINE l == Lead(f, n)
  <1>9. l \in Seq(Tokens) /\ Len(l) = n /\ \A i \in 1..n : l[i] = f[i]
    BY <1>7, LeadOf
  <1> HIDE DEF f, l
  <1>10. n \in Nat /\ n <= N /\ \A i \in n + 1 .. N : w[i] \in Ends
    BY <1>6, <1>7, <1>8
  <1>11. 4 <= n /\ n < N /\ w[n] \notin Ends
    <2>1. w[4] \notin Ends /\ w[N] \in Ends
      BY <1>1, <1>6 DEF Ends
    <2>2. 4 <= n
      <3>1. ~(4 \in n + 1 .. N)
        BY <1>10, <2>1
      <3> QED  BY <1>6, <1>10, <3>1
    <2>3. n \in 1..N /\ f[n] = w[n]
      BY <1>6, <1>7, <1>10, <2>2
    <2>4. w[n] \notin Ends
      BY <1>8, <2>2, <2>3
    <2>5. n # N
      BY <2>1, <2>4
    <2> QED  BY <1>6, <1>10, <2>2, <2>4, <2>5
  <1>12. DOMAIN l = 1..n /\ \A i \in 1..n : l[i] = w[i]
    BY <1>6, <1>7, <1>9, <1>10
  <1>13. {2, 4} \subseteq Tabs(l) /\ l[1] = "V1" /\ l[3] = "AUTH"
    <2>1. 1 \in 1..n /\ 2 \in 1..n /\ 3 \in 1..n /\ 4 \in 1..n
      BY <1>10, <1>11
    <2> QED  BY <1>1, <1>12, <2>1 DEF Tabs
  <1>14. IsFiniteSet(Tabs(l)) /\ Cardinality(Tabs(l)) \in Nat
    <2>1. Tabs(l) \in SUBSET (1..n) /\ n \in Int
      BY <1>10, <1>12 DEF Tabs
    <2>2. IsFiniteSet(1..n)
      BY <2>1, FS_Interval
    <2>3. IsFiniteSet(Tabs(l))
      BY <2>1, <2>2, FS_Subset
    <2> QED  BY <2>3, FS_CardinalityType
  <1>15. Cardinality({2, 4}) = 2 /\ Cardinality(Tabs(l)) >= 2
    <2> DEFINE T == {2, 4}
    <2>1. Cardinality(T) = 2
      <3>1. \A b, c : b # c => Cardinality({b, c}) = 2
        BY CountTwo
      <3>2. 2 # 4
        OBVIOUS
      <3> QED  BY <3>1, <3>2
    <2>2. T \in SUBSET Tabs(l)
      BY <1>13
    <2> HIDE DEF T
    <2>3. Cardinality(T) <= Cardinality(Tabs(l))
      BY <1>14, <2>2, FS_Subset
    <2> QED  BY <1>14, <2>1, <2>3 DEF T
  <1> DEFINE p == Pieces(l)
  <1>16. Len(p) = Cardinality(Tabs(l)) + 1
    BY <1>9, <1>14, PiecesFcn
  <1> HIDE DEF p
  <1>17. Len(p) = 4 /\ q = [kind |-> "AUTH", user |-> p[3], reason |-> p[4]]
    <2>1. Len(p) # 2
      BY <1>14, <1>15, <1>16
    <2>2. Trim(FirstLine(w)) = l
      BY <1>5, <1>8 DEF f, l
    <2>3. q # NoAsk
      BY DEF NoAsk
    <2>4. q \in {NoAsk, [kind |-> "AUTH", user |-> p[3], reason |-> p[4]]}
          /\ (q # NoAsk => Len(p) = 4)
      BY <2>1, <2>2 DEF decode_request, IsAuth, p, w
    <2> QED  BY <2>3, <2>4
  <1>18. Cardinality(Tabs(l)) = 3
    <2>1. \A k \in Nat : k + 1 = 4 => k = 3
      OBVIOUS
    <2>2. Cardinality(Tabs(l)) + 1 = 4
      BY <1>16, <1>17
    <2> QED  BY <1>14, <2>1, <2>2
  <1>19. PICK c \in Tabs(l) : c \notin {2, 4}
    <2>1. Tabs(l) # {2, 4}
      BY SMTT(30), <1>15, <1>18
    <2> QED  BY <1>13, <2>1
  <1>20. c \in 1..n /\ c \in DOMAIN l /\ l[c] = "TAB" /\ 4 < c
    <2>1. c \in 1..n /\ c \in DOMAIN l /\ l[c] = "TAB"
      BY <1>12 DEF Tabs
    <2>2. c \notin {1, 2, 3, 4}
      BY <1>13, <1>19, <2>1
    <2> QED  BY <1>10, <2>1, <2>2
  <1>21. Tabs(l) = {2, 4, c}
    <2> DEFINE T == {2, 4, c}
    <2>1. Cardinality(T) = 3
      <3>1. 2 # 4 /\ c \notin {2, 4}
        BY <1>19
      <3> QED  BY <3>1, CountThree
    <2>2. T \in SUBSET Tabs(l)
      BY <1>13, <1>19
    <2> HIDE DEF T
    <2>3. T = Tabs(l)
      BY <1>14, <1>18, <2>1, <2>2, FS_Subset
    <2> QED  BY <2>3 DEF T
  <1>22. p[3] = SubSeq(l, 5, c - 1) /\ p[4] = SubSeq(l, c + 1, Len(l))
    <2>1. 2 \in DOMAIN l /\ 4 \in DOMAIN l /\ 2 < 4
      BY <1>10, <1>11, <1>12
    <2>2. p[3] = SubSeq(l, 4 + 1, c - 1) /\ p[4] = SubSeq(l, c + 1, Len(l))
      BY <1>9, <1>20, <1>21, <2>1, ThreeTabs DEF p
    <2> QED  BY <2>2
  <1>23. q.user \o <<"TAB">> \o q.reason = SubSeq(l, 5, n)
    <2>1. 5 \in 1..c
      BY <1>10, <1>20
    <2>2. SubSeq(l, 5, c - 1) \o <<"TAB">> \o SubSeq(l, c + 1, Len(l)) = SubSeq(l, 5, Len(l))
      BY <1>9, <1>20, <2>1, Rejoined
    <2>3. q.user = p[3] /\ q.reason = p[4] /\ Len(l) = n
      BY <1>9, <1>17
    <2> QED  BY <1>22, <2>2, <2>3
  <1>24. SubSeq(l, 5, n) = SubSeq(s, 1, n - 4)
    <2>1. n - 4 \in 0..Len(s) /\ 4 + (n - 4) = n /\ 4 + 1 = 5
      BY <1>1, <1>3, <1>6, <1>10, <1>11
    <2>2. \A k \in 1..n - 4 : l[4 + k] = s[k]
      <3>1. \A k \in 1..n - 4 : k \in 1..1 + u + r /\ 4 + k \in 1..n
        BY <1>1, <1>6, <1>10, <1>11
      <3> QED  BY <1>4, <1>12, <3>1
    <2>3. SubSeq(l, 4 + 1, 4 + (n - 4)) = SubSeq(s, 1, n - 4)
      <3>1. 4 \in Nat /\ 4 + (n - 4) <= Len(l)
        BY <1>9, <2>1
      <3> QED  BY <1>3, <1>9, <2>1, <2>2, <3>1, SamePart
    <2> QED  BY <2>1, <2>3
  <1> DEFINE M == IF N = Len(w) THEN Len(s) ELSE N - 4
  <1>25. M \in 0..Len(s) /\ n - 4 <= M /\ M <= N - 4
    BY <1>1, <1>3, <1>6, <1>10, <1>11
  <1>26. FirstLine(s) = Lead(s, M)
    <2>1. M = Len(s) \/ (M > 0 /\ s[M] = "NL")
      <3>1. CASE N = Len(w)
        BY <3>1
      <3>2. CASE N # Len(w)
        <4>1. M \in 1..1 + u + r /\ 4 + M = N
          BY <1>1, <1>6, <3>2
        <4> QED  BY <1>4, <1>6, <4>1
      <3> QED  BY <3>1, <3>2
    <2>2. ASSUME NEW i \in 1..M - 1 PROVE s[i] # "NL"
      <3>1. i \in 1..1 + u + r /\ 4 + i \in 1..N - 1
        BY <1>1, <1>3, <1>6, <1>25
      <3> QED  BY <1>4, <1>5, <3>1
    <2> HIDE DEF M
    <2> QED  BY <1>3, <1>25, <2>1, <2>2, FirstLineAt
  <1> HIDE DEF M
  <1> DEFINE t == Lead(s, M)
  <1>27. t \in Seq(Tokens) /\ Len(t) = M /\ \A i \in 1..M : t[i] = s[i]
    BY <1>3, <1>25, LeadOf
  <1> HIDE DEF t
  <1>28. Trim(t) = Lead(t, n - 4)
    <2>1. n - 4 \in 0..Len(t)
      BY <1>10, <1>11, <1>25, <1>27
    <2>2. ASSUME NEW i \in (n - 4) + 1 .. Len(t) PROVE t[i] \in Ends
      <3>1. i \in 1..M /\ i \in 1..1 + u + r /\ 4 + i \in n + 1 .. N
        BY <1>1, <1>3, <1>6, <1>10, <1>11, <1>25, <1>27
      <3> QED  BY <1>4, <1>10, <1>27, <3>1
    <2>3. n - 4 = 0 \/ t[n - 4] \notin Ends
      <3>1. CASE n = 4
        BY <3>1
      <3>2. CASE n # 4
        <4>1. n - 4 \in 1..M /\ n - 4 \in 1..1 + u + r /\ 4 + (n - 4) = n
          BY <1>1, <1>3, <1>10, <1>11, <1>25, <3>2
        <4> QED  BY <1>4, <1>11, <1>27, <4>1
      <3> QED  BY <3>1, <3>2
    <2> QED  BY <1>27, <2>1, <2>2, <2>3, TrimIs
  <1>29. Lead(t, n - 4) = SubSeq(s, 1, n - 4)
    <2>1. n - 4 \in Nat /\ n - 4 <= M /\ 1 \in Nat /\ 1 <= 1
      BY <1>10, <1>11, <1>25
    <2>2. SubSeq(t, 1, n - 4) = SubSeq(s, 1, n - 4)
      BY <1>3, <1>25, <2>1, LeadTwice DEF t
    <2>3. Lead(t, n - 4) = SubSeq(t, 1, n - 4)
      BY <1>25, <1>27, <2>1 DEF Lead
    <2> QED  BY <2>2, <2>3
  <1>30. q.user \o <<"TAB">> \o q.reason = Trim(FirstLine(s))
    BY <1>23, <1>24, <1>26, <1>28, <1>29 DEF t
  <1>31. ASSUME \A i \in DOMAIN a.user : a.user[i] # "NL"
         PROVE  q.user = a.user
    <2>1. ASSUME NEW i \in 1..5 + u PROVE w[i] # "NL"
      <3>1. CASE i <= 4
        BY <1>1, <3>1
      <3>2. CASE i = 5 + u
        BY <1>1, <3>2
      <3>3. CASE i > 4 /\ i # 5 + u
        <4>1. i - 4 \in 1..u /\ 4 + (i - 4) = i
          BY <1>1, <3>3
        <4>2. w[4 + (i - 4)] = a.user[i - 4] /\ i - 4 \in DOMAIN a.user
          BY <1>1, <1>d, <4>1
        <4> QED  BY <1>31, <4>1, <4>2
      <3> QED  BY <1>1, <3>1, <3>2, <3>3
    <2>2. N > 5 + u
      <3>1. ~(N \in 1..5 + u)
        BY <1>6, <2>1
      <3> QED  BY <1>1, <1>6, <3>1
    <2>3. 5 + u <= n
      <3>1. w[5 + u] \notin Ends
        BY <1>1 DEF Ends
      <3>2. ~(5 + u \in n + 1 .. N)
        BY <1>10, <3>1
      <3> QED  BY <1>1, <1>6, <1>10, <2>2, <3>2
    <2>4. c = 5 + u
      <3>1. 5 + u \in 1..n
        BY <1>1, <1>10, <2>3
      <3>2. 5 + u \in Tabs(l)
        BY <1>1, <1>12, <3>1 DEF Tabs
      <3> QED  BY <1>1, <1>21, <3>2
    <2>5. SubSeq(l, 4 + 1, 4 + u) = SubSeq(a.user, 1, u)
      <3>1. 4 \in Nat /\ u \in 0..Len(a.user) /\ 4 + u <= Len(l)
        BY <1>1, <1>9, <2>3 DEF u
      <3>2. \A k \in 1..u : l[4 + k] = a.user[k]
        <4>1. \A k \in 1..u : 4 + k \in 1..n
          BY <1>1, <1>10, <2>3
        <4> QED  BY <1>1, <1>12, <4>1
      <3> QED  BY <1>2, <1>9, <3>1, <3>2, SamePart
    <2>6. SubSeq(a.user, 1, u) = a.user
      BY <1>2, SubSeqFull DEF u
    <2>7. c - 1 = 4 + u /\ 4 + 1 = 5
      BY <1>1, <2>4
    <2>8. q.user = p[3]
      BY <1>17
    <2> QED  BY <1>22, <2>5, <2>6, <2>7, <2>8
  <1>32. q.kind = "AUTH"
    BY <1>17
  <1> QED  BY <1>30, <1>31, <1>32 DEF s

\* And on the line of a request without fields.
LEMMA BareRoundTrip ==
  ASSUME NEW a \in Asks, a.kind # "AUTH"
  PROVE  decode_request(FirstLine(encode_request(a))) \in {NoAsk, [NoAsk EXCEPT !.kind = a.kind]}
PROOF
  <1> DEFINE w == encode_request(a)
             l == Lead(w, 3)
  <1>1. a.kind \in {"STATUS", "PING"}
    BY ProtocolAssumption DEF Kinds
  <1>2. w \in Seq(Tokens)
    BY OneLine
  <1>3. w = <<"V1", "TAB", a.kind>> \o <<"NL">>
    <2> DEFINE h == <<"V1", "TAB", a.kind>>
    <2>1. w = h \o <<>> \o <<"NL">>
      BY DEF encode_request
    <2>2. h \in Seq(Tokens)
      BY <1>1 DEF Tokens, Kinds, Controls
    <2> HIDE DEF h
    <2>3. h \o <<>> = h
      BY <2>2, ConcatEmptySeq
    <2> QED  BY <2>1, <2>3 DEF h
  <1> HIDE DEF w
  <1>4. Len(w) = 4 /\ w[1] = "V1" /\ w[2] = "TAB" /\ w[3] = a.kind /\ w[4] = "NL"
    <2> DEFINE h == <<"V1", "TAB", a.kind>>
    <2>1. h \in Seq(Tokens) /\ <<"NL">> \in Seq(Tokens)
      BY <1>1 DEF Tokens, Kinds, Controls
    <2>2. Len(h) = 3 /\ Len(<<"NL">>) = 1 /\ <<"NL">>[1] = "NL"
          /\ h[1] = "V1" /\ h[2] = "TAB" /\ h[3] = a.kind
      OBVIOUS
    <2> HIDE DEF h
    <2>3. /\ Len(h \o <<"NL">>) = Len(h) + Len(<<"NL">>)
          /\ \A i \in 1..Len(h) : (h \o <<"NL">>)[i] = h[i]
          /\ \A i \in 1..Len(<<"NL">>) : (h \o <<"NL">>)[Len(h) + i] = <<"NL">>[i]
      BY <2>1, Joined
    <2>4. w = h \o <<"NL">>
      BY <1>3 DEF h
    <2> QED  BY <2>2, <2>3, <2>4
  <1>f. FirstLine(w) = w
    <2>1. 4 \in 0..Len(w) /\ 4 = Len(w) /\ \A i \in 1..4 - 1 : w[i] # "NL"
      BY <1>1, <1>4
    <2>2. FirstLine(w) = Lead(w, 4)
      BY <1>2, <2>1, FirstLineAt
    <2>3. Lead(w, 4) = w
      BY <1>2, <2>1, SubSeqFull DEF Lead
    <2> QED  BY <2>2, <2>3
  <1>5. Trim(w) = l
    <2>1. w[3] \notin Ends
      BY <1>1, <1>4 DEF Ends
    <2>2. 3 \in 0..Len(w) /\ \A i \in 3 + 1 .. Len(w) : w[i] \in Ends
      BY <1>4 DEF Ends
    <2> QED  BY <1>2, <2>1, <2>2, TrimIs
  <1>6. l \in Seq(Tokens) /\ Len(l) = 3 /\ l[1] = "V1" /\ l[2] = "TAB" /\ l[3] = a.kind
    <2>1. 3 \in 0..Len(w)
      BY <1>4
    <2>2. l \in Seq(Tokens) /\ Len(l) = 3 /\ \A k \in 1..3 : l[k] = w[k]
      BY <1>2, <2>1, LeadOf
    <2> HIDE DEF l
    <2>3. l[1] = w[1] /\ l[2] = w[2] /\ l[3] = w[3]
      BY <2>2
    <2> QED  BY <1>4, <2>2, <2>3
  <1> HIDE DEF l
  <1>7. 2 \in DOMAIN l /\ Tabs(l) = {2}
    BY <1>1, <1>6 DEF Tabs
  <1> DEFINE p == Pieces(l)
  <1>8. Len(p) = 2 /\ p[2] = SubSeq(l, 3, 3)
    <2>1. Len(p) = 2 /\ p[2] = SubSeq(l, 2 + 1, Len(l))
      BY <1>6, <1>7, OneTab
    <2> QED  BY <1>6, <2>1
  <1>9. p[2][1] = a.kind
    BY <1>6, <1>8
  <1> HIDE DEF p
  <1> QED  BY <1>5, <1>8, <1>9, <1>f DEF decode_request, IsAuth, p, w

\* What is decoded from a request's first line is what its client asked for.
LEMMA RoundTrip ==
  ASSUME NEW a \in Asks, NEW q, q = decode_request(FirstLine(encode_request(a))),
         q.kind # "none"
  PROVE  /\ q.kind = a.kind
         /\ a.kind = "AUTH" =>
              /\ q.user \o <<"TAB">> \o q.reason
                   = Trim(FirstLine(a.user \o <<"TAB">> \o a.reason))
              /\ (\A i \in DOMAIN a.user : a.user[i] # "NL") => q.user = a.user
PROOF
  <1>1. CASE a.kind = "AUTH"
    BY <1>1, AuthRoundTrip
  <1>2. CASE a.kind # "AUTH"
    <2>1. q.kind = a.kind
      BY <1>2, BareRoundTrip DEF NoAsk
    <2> QED  BY <1>2, <2>1
  <1> QED  BY <1>1, <1>2

-----------------------------------------------------------------------------
\* What the daemon has decoded it had in full, and is what the client asked for.
AInv == WInv /\ ActedAsAsked

LEMMA AInvInit == Init => AInv
  BY WInvInit DEF Init, AInv, ActedAsAsked, NoAsk

LEMMA AInvStep == AInv /\ [Next]_vars => AInv'
PROOF
  <1> SUFFICES ASSUME AInv, [Next]_vars PROVE AInv'
    OBVIOUS
  <1>0. WInv' /\ ActedAsAsked /\ ask \in Asks /\ sent \in 0..Len(Wire)
    BY WInvStep DEF AInv, WInv
  <1> SUFFICES ActedAsAsked'
    BY <1>0 DEF AInv
  <1>1. CASE ReadLine
    <2>1. ask' = ask /\ (request'.kind # "none" =>
                           EndsLine(Received) /\ request' = decode_request(Received))
      BY <1>1 DEF ReadLine, IsLine, NoAsk, clientVars
    <2>2. request'.kind # "none" => request' = decode_request(FirstLine(encode_request(ask)))
      BY <1>0, <2>1, NewlineMeansWhole DEF Wire
    <2> QED  BY <1>0, <2>1, <2>2, RoundTrip DEF ActedAsAsked, Fields
  <1>2. CASE UNCHANGED <<ask, request>>
    BY <1>0, <1>2 DEF ActedAsAsked, Fields
  <1> QED  BY <1>1, <1>2 DEF Next, ReadFails, Decide, WriteReply, DaemonEnds, Push, Hear,
                             GiveUp, vars, clientVars

\* The daemon acts on what the client asked for or on nothing, whatever is in the
\* name and the reason: on the two fields of the first line, where a tab in one of
\* them makes too many, and for the user asked for unless a newline cuts the name.
THEOREM ActsAsAsked == Spec => []ActedAsAsked
PROOF
  <1>1. AInv => ActedAsAsked
    BY DEF AInv
  <1> QED  BY <1>1, AInvInit, AInvStep, PTL DEF Spec

-----------------------------------------------------------------------------
(* The protocol implements the exchange.                                    *)

XInv == TypeOK /\ YInv /\ ActedAsAsked

LEMMA ExchangeInit == Init => Abstract!Init
  BY DEF Init, Abstract!Init, Told

LEMMA ExchangeStep ==
  XInv /\ XInv' /\ [Next]_vars => [Abstract!Next]_<<ask, outcome, Told>>
PROOF
  <1> SUFFICES ASSUME XInv, XInv', [Next]_vars
               PROVE  [Abstract!Next]_<<ask, outcome, Told>>
    OBVIOUS
  <1>1. CASE Decide
    <2>1. ask' = ask /\ Told' = Told
      BY <1>1 DEF Decide, clientVars, Told
    <2>2. outcome = "nothing"
      BY <1>1 DEF Decide, XInv, YInv
    <2>3. request.kind # "none" => request.kind = ask.kind
      BY DEF XInv, ActedAsAsked
    <2>4. \/ outcome' = "refused"
          \/ ask.kind = "AUTH" /\ outcome' \in {"granted", "denied"}
          \/ ask.kind = "PING" /\ outcome' = "pong"
          \/ ask.kind = "STATUS" /\ outcome' = "status"
      BY <1>1, <2>3 DEF Decide, Answer
    <2> QED  BY <2>1, <2>2, <2>4 DEF Abstract!Next, Abstract!Do
  <1>2. CASE Hear
    <2>1. ask' = ask /\ outcome' = outcome /\ Told = "nothing" /\ Told' = client'
          /\ client' \in {"yes", "no"}
      BY <1>2 DEF Hear, Told
    <2>2. ask.kind \in Kinds
      BY ProtocolAssumption DEF XInv, YInv
    <2>3. client' = "yes" => outcome \in {"granted", "pong", "status"}
      BY <2>1, <2>2 DEF XInv, YInv, YesIsDecided, Decision, Kinds
    <2> QED  BY <2>1, <2>3 DEF Abstract!Next, Abstract!Tell
  <1>3. CASE GiveUp
    <2>1. ask' = ask /\ outcome' = outcome /\ Told = "nothing" /\ Told' = "no"
      BY <1>3 DEF GiveUp, Told
    <2> QED  BY <2>1 DEF Abstract!Next, Abstract!Tell
  <1>4. CASE Push
    BY <1>4 DEF Push, Told
  <1>5. CASE UNCHANGED <<ask, outcome, client>>
    BY <1>5 DEF Told
  <1> QED  BY <1>1, <1>2, <1>3, <1>4, <1>5
             DEF Next, ReadLine, ReadFails, WriteReply, DaemonEnds, vars, clientVars

\* Every run of the line protocol is a run of the exchange that Irauthd is
\* written with: cuts, a lost half of a line and a dying daemon are all in it.
THEOREM ImplementsExchange == Spec => IsExchange
PROOF
  <1>1. Spec => []XInv
    <2>1. Spec => []TypeOK
      BY TypeCorrect
    <2>2. Spec => []YInv
      BY YInvInit, YInvStep, PTL DEF Spec
    <2>3. Spec => []ActedAsAsked
      BY ActsAsAsked
    <2> QED  BY <2>1, <2>2, <2>3, PTL DEF XInv
  <1> QED  BY <1>1, ExchangeInit, ExchangeStep, PTL DEF Spec, IsExchange, Abstract!Spec
=============================================================================
