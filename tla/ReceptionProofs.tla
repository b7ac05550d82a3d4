-------------------------- MODULE ReceptionProofs --------------------------
(***************************************************************************)
(* Proofs about the checks of messages, for buffers of every length and    *)
(* with every contents, and about Reception.                               *)
(*                                                                         *)
(* A check is a sequence of tests put together of parts.  Its result is    *)
(* that of its first part, or of the rest if that accepts (ResultOfParts); *)
(* from there, a lemma on each check says exactly what it accepts, what    *)
(* its errors are, and that it does not read outside.  What Reception      *)
(* claims of messages follows for every buffer that IInv says a read may   *)
(* return.                                                                 *)
(***************************************************************************)
EXTENDS Reception, SequenceTheorems, WellFoundedInduction, TLAPS

Tests == [upto : Nat, error : Errors, fails : BOOLEAN]

LEMMA ErrorsAreNoResults == "ACCEPTED" \notin Errors /\ "OUTSIDE" \notin Errors
  BY DEF Errors

-----------------------------------------------------------------------------
(* The result of a sequence of tests.                                      *)

LEMMA MinIsLeast ==
  ASSUME NEW S \in SUBSET Nat, S # {}
  PROVE  Min(S) \in S /\ \A i \in S : Min(S) <= i
  <1>1. PICK k \in S : \A i \in S : ~(<<i, k>> \in OpToRel(<, Nat))
    BY NatLessThanWellFounded, WFMin
  <1>2. OpToRel(<, Nat) = {ss \in Nat \X Nat : ss[1] < ss[2]}
    BY DEF OpToRel
  <1>3. \A i \in S : k <= i
    <2>1. \A i \in S : ~(i < k)
      BY <1>1, <1>2, Zenon
    <2>2. QED
      BY <2>1
  <1>4. QED
    BY <1>3 DEF Min

\* The m-th test is the first to end the check.
EndsAt(b, s, m) ==
  /\ s[m].fails \/ s[m].upto > b.length
  /\ \A i \in 1 .. m - 1 : ~s[i].fails /\ s[i].upto <= b.length

Passes(b, s) == \A i \in 1 .. Len(s) : ~s[i].fails /\ s[i].upto <= b.length

LEMMA ResultOfTests ==
  ASSUME NEW b \in Buffers, NEW s \in Seq(Tests)
  PROVE  /\ Len(s) \in Nat
         /\ \A i \in 1 .. Len(s) : s[i] \in Tests
         /\ Passes(b, s) => Result(b, s) = "ACCEPTED"
         /\ \A m \in 1 .. Len(s) : EndsAt(b, s, m) =>
              /\ Result(b, s) = IF s[m].upto > b.length THEN "OUTSIDE" ELSE s[m].error
              /\ Result(b, s) # "ACCEPTED"
         /\ Passes(b, s) \/ \E m \in 1 .. Len(s) : EndsAt(b, s, m)
  <1> DEFINE ends == {i \in 1 .. Len(s) : s[i].fails \/ s[i].upto > b.length}
  <1>1. /\ Len(s) \in Nat /\ b.length \in Nat
        /\ \A i \in 1 .. Len(s) : s[i] \in Tests
    BY LenProperties, ElementOfSeq DEF Buffers
  <1>2. \A i \in 1 .. Len(s) : (i \notin ends) <=> (~s[i].fails /\ s[i].upto <= b.length)
    BY <1>1 DEF Tests
  <1>3. Passes(b, s) <=> ends = {}
    BY <1>2 DEF Passes
  <1>4. ends = {} => Result(b, s) = "ACCEPTED"
    BY DEF Result
  <1>5. ASSUME NEW m \in 1 .. Len(s), EndsAt(b, s, m)
        PROVE  /\ Result(b, s) = IF s[m].upto > b.length THEN "OUTSIDE" ELSE s[m].error
               /\ Result(b, s) # "ACCEPTED"
    <2>1. m \in ends /\ \A i \in 1 .. m - 1 : i \notin ends
      BY <1>1, <1>5 DEF EndsAt, Tests
    <2>2. ends \in SUBSET Nat
      BY <1>1
    <2>3. Min(ends) \in ends /\ Min(ends) <= m
      BY <2>1, <2>2, MinIsLeast
    <2>4. Min(ends) = m
      <3> DEFINE k == Min(ends)
      <3>1. k \in 1 .. Len(s) /\ k <= m /\ k \notin 1 .. m - 1
        BY <2>1, <2>3
      <3> HIDE DEF k
      <3>2. k = m
        BY <1>1, <3>1
      <3>3. QED
        BY <3>2 DEF k
    <2>5. Result(b, s) = IF s[m].upto > b.length THEN "OUTSIDE" ELSE s[m].error
      BY <2>1, <2>4 DEF Result
    <2>6. s[m].error # "ACCEPTED"
      BY <1>1, ErrorsAreNoResults DEF Tests
    <2>7. QED
      BY <2>5, <2>6
  <1>6. ASSUME ends # {} PROVE \E m \in 1 .. Len(s) : EndsAt(b, s, m)
    <2> DEFINE m == Min(ends)
    <2>1. ends \in SUBSET Nat
      BY <1>1
    <2>2. m \in ends /\ \A i \in ends : m <= i
      BY <1>6, <2>1, MinIsLeast
    <2> HIDE DEF m
    <2>3. \A i \in 1 .. m - 1 : i \in 1 .. Len(s) /\ i \notin ends
      BY <1>1, <2>2
    <2>4. EndsAt(b, s, m)
      BY <1>2, <2>2, <2>3 DEF EndsAt
    <2>5. QED
      BY <2>2, <2>4
  <1>7. QED
    BY <1>1, <1>3, <1>4, <1>5, <1>6

\* The result of a check put together of two is that of the first, unless it
\* accepts.
LEMMA ResultOfParts ==
  ASSUME NEW b \in Buffers, NEW s \in Seq(Tests), NEW t \in Seq(Tests)
  PROVE  /\ s \o t \in Seq(Tests)
         /\ Result(b, s \o t) = IF Result(b, s) = "ACCEPTED" THEN Result(b, t) ELSE Result(b, s)
  <1> DEFINE u == s \o t
  <1>1. /\ u \in Seq(Tests) /\ Len(u) = Len(s) + Len(t)
        /\ \A i \in 1 .. Len(s) + Len(t) : u[i] = IF i <= Len(s) THEN s[i] ELSE t[i - Len(s)]
    BY ConcatProperties
  <1>2. Len(s) \in Nat /\ Len(t) \in Nat
    BY LenProperties
  <1> HIDE DEF u
  <1>3. /\ \A i \in 1 .. Len(s) : i \in 1 .. Len(u) /\ u[i] = s[i]
        /\ \A i \in 1 .. Len(t) : Len(s) + i \in 1 .. Len(u) /\ u[Len(s) + i] = t[i]
    <2>1. ASSUME NEW i \in 1 .. Len(s) PROVE i \in 1 .. Len(u) /\ u[i] = s[i]
      <3>1. i \in 1 .. Len(s) + Len(t) /\ i <= Len(s)
        BY <1>2
      <3>2. QED
        BY <1>1, <3>1, Zenon
    <2>2. ASSUME NEW i \in 1 .. Len(t)
          PROVE  Len(s) + i \in 1 .. Len(u) /\ u[Len(s) + i] = t[i]
      <3>1. /\ Len(s) + i \in 1 .. Len(s) + Len(t) /\ ~(Len(s) + i <= Len(s))
            /\ (Len(s) + i) - Len(s) = i
        BY <1>2
      <3>2. QED
        BY <1>1, <3>1, Zenon
    <2>3. QED
      BY <2>1, <2>2, Zenon
  <1>4. \A i \in 1 .. Len(u) : i \in 1 .. Len(s) \/ (i - Len(s) \in 1 .. Len(t) /\ i = Len(s) + (i - Len(s)))
    BY <1>1, <1>2
  <1>5. ASSUME NEW m \in 1 .. Len(s), EndsAt(b, s, m)
        PROVE  Result(b, u) = Result(b, s) /\ Result(b, s) # "ACCEPTED"
    <2>1. \A i \in 1 .. m - 1 : u[i] = s[i]
      BY <1>2, <1>3
    <2>2. EndsAt(b, u, m) /\ m \in 1 .. Len(u) /\ u[m] = s[m]
      BY <1>3, <1>5, <2>1 DEF EndsAt
    <2>3. QED
      BY <1>1, <1>5, <2>2, ResultOfTests
  <1>6. ASSUME Passes(b, s), NEW m \in 1 .. Len(t), EndsAt(b, t, m)
        PROVE  Result(b, u) = Result(b, t) /\ Result(b, s) = "ACCEPTED"
    <2>1. \A i \in 1 .. (Len(s) + m) - 1 :
            i \in 1 .. Len(s) \/ (i - Len(s) \in 1 .. m - 1 /\ u[i] = t[i - Len(s)])
      <3>1. m \in Nat /\ m <= Len(t)
        BY <1>2
      <3>2. ASSUME NEW i \in 1 .. (Len(s) + m) - 1, i \notin 1 .. Len(s)
            PROVE  i - Len(s) \in 1 .. m - 1 /\ i \in 1 .. Len(s) + Len(t) /\ ~(i <= Len(s))
        BY <1>2, <3>1, <3>2
      <3>3. ASSUME NEW i \in 1 .. (Len(s) + m) - 1, i \notin 1 .. Len(s)
            PROVE  i - Len(s) \in 1 .. m - 1 /\ u[i] = t[i - Len(s)]
        BY <1>1, <3>2, <3>3
      <3>4. QED
        BY <3>3
    <2>2. \A i \in 1 .. (Len(s) + m) - 1 : ~u[i].fails /\ u[i].upto <= b.length
      BY <1>3, <1>6, <2>1 DEF Passes, EndsAt
    <2>3. /\ EndsAt(b, u, Len(s) + m) /\ Len(s) + m \in 1 .. Len(u)
          /\ u[Len(s) + m] = t[m]
      BY <1>3, <1>6, <2>2 DEF EndsAt
    <2>4. QED
      BY <1>1, <1>6, <2>3, ResultOfTests
  <1>7. ASSUME Passes(b, s), Passes(b, t)
        PROVE  Result(b, u) = "ACCEPTED" /\ Result(b, s) = "ACCEPTED" /\ Result(b, t) = "ACCEPTED"
    <2>1. Passes(b, u)
      <3> SUFFICES ASSUME NEW i \in 1 .. Len(u) PROVE ~u[i].fails /\ u[i].upto <= b.length
        BY Zenon DEF Passes
      <3>1. CASE i \in 1 .. Len(s)
        BY <1>3, <1>7, <3>1, Zenon DEF Passes
      <3>2. CASE i - Len(s) \in 1 .. Len(t) /\ i = Len(s) + (i - Len(s))
        <4>1. u[i] = t[i - Len(s)]
          BY <1>3, <3>2, Zenon
        <4>2. QED
          BY <1>7, <3>2, <4>1, Zenon DEF Passes
      <3>3. QED
        BY <1>4, <3>1, <3>2, Zenon
    <2>2. QED
      BY <1>1, <1>7, <2>1, ResultOfTests
  <1>8. Result(b, u) = IF Result(b, s) = "ACCEPTED" THEN Result(b, t) ELSE Result(b, s)
    BY <1>5, <1>6, <1>7, ResultOfTests
  <1>9. QED
    BY <1>1, <1>8 DEF u

LEMMA NoTests == ASSUME NEW b \in Buffers PROVE <<>> \in Seq(Tests) /\ Result(b, <<>>) = "ACCEPTED"
  <1> DEFINE s == <<>>
  <1>1. s \in Seq(Tests) /\ Len(s) = 0
    BY EmptySeq
  <1> HIDE DEF s
  <1>2. Passes(b, s)
    BY <1>1 DEF Passes
  <1>3. QED
    BY <1>1, <1>2, ResultOfTests DEF s

\* Tests that read inside the buffer.
LEMMA InsideResult ==
  ASSUME NEW b \in Buffers, NEW s \in Seq(Tests), \A i \in 1 .. Len(s) : s[i].upto <= b.length
  PROVE  /\ Result(b, s) = "ACCEPTED" <=> \A i \in 1 .. Len(s) : ~s[i].fails
         /\ Result(b, s) # "ACCEPTED" =>
              \E i \in 1 .. Len(s) : s[i].fails /\ Result(b, s) = s[i].error
  <1>1. /\ Len(s) \in Nat /\ b.length \in Nat
        /\ \A i \in 1 .. Len(s) : s[i].upto \in Nat /\ ~(s[i].upto > b.length)
    <2>1. b.length \in Nat
      BY DEF Buffers
    <2>2. \A i \in 1 .. Len(s) : s[i].upto \in Nat
      BY ResultOfTests DEF Tests
    <2>3. QED
      BY <2>1, <2>2, ResultOfTests
  <1>2. Passes(b, s) <=> \A i \in 1 .. Len(s) : ~s[i].fails
    BY DEF Passes
  <1>3. \A m \in 1 .. Len(s) : EndsAt(b, s, m) => s[m].fails
    BY <1>1 DEF EndsAt
  <1>4. QED
    BY <1>1, <1>2, <1>3, ResultOfTests

LEMMA OneTest ==
  ASSUME NEW b \in Buffers, NEW n \in Nat, NEW error \in Errors, NEW fails \in BOOLEAN
  PROVE  LET s == << Test(n, error, fails) >> IN
         /\ s \in Seq(Tests)
         /\ n <= b.length => Result(b, s) = IF fails THEN error ELSE "ACCEPTED"
         /\ n > b.length => Result(b, s) = "OUTSIDE"
  <1> DEFINE t == Test(n, error, fails)
             s == << t >>
  <1>1. t \in Tests /\ t.upto = n /\ t.error = error /\ (t.fails <=> fails)
    BY DEF Tests, Test
  <1> HIDE DEF t
  <1>2. s \in Seq(Tests) /\ Len(s) = 1 /\ s[1] = t
    BY <1>1
  <1> HIDE DEF s
  <1>3. b.length \in Nat
    BY DEF Buffers
  <1>4. n <= b.length => Result(b, s) = IF fails THEN error ELSE "ACCEPTED"
    <2>1. ASSUME n <= b.length, fails PROVE Result(b, s) = error
      <3>1. EndsAt(b, s, 1) /\ ~(s[1].upto > b.length) /\ 1 \in 1 .. Len(s)
        BY <1>1, <1>2, <1>3, <2>1 DEF EndsAt
      <3>2. Result(b, s) = IF s[1].upto > b.length THEN "OUTSIDE" ELSE s[1].error
        BY <1>2, <3>1, ResultOfTests
      <3>3. QED
        BY <1>1, <1>2, <3>1, <3>2
    <2>2. ASSUME n <= b.length, ~fails PROVE Result(b, s) = "ACCEPTED"
      <3>1. Passes(b, s)
        BY <1>1, <1>2, <1>3, <2>2 DEF Passes
      <3>2. QED
        BY <1>2, <3>1, ResultOfTests
    <2>3. QED
      BY <2>1, <2>2
  <1>5. n > b.length => Result(b, s) = "OUTSIDE"
    <2>1. ASSUME n > b.length PROVE Result(b, s) = "OUTSIDE"
      <3>1. EndsAt(b, s, 1) /\ s[1].upto > b.length /\ 1 \in 1 .. Len(s)
        BY <1>1, <1>2, <1>3, <2>1 DEF EndsAt
      <3>2. QED
        BY <1>2, <3>1, ResultOfTests
    <2>2. QED
      BY <2>1
  <1>6. QED
    BY <1>2, <1>4, <1>5 DEF s, t

-----------------------------------------------------------------------------
(* Parts of checks.                                                        *)

\* What the check of the header accepts.
HeaderOK(b, type, min_length, max_length) ==
  /\ b.fault # "UNSUPPORTED_VERSION"
  /\ b.type = type
  /\ b.hlen = b.length
  /\ min_length <= b.length /\ b.length <= max_length

LEMMA HeaderResult ==
  ASSUME NEW b \in Buffers, b.length >= 8,
         NEW type \in Types, NEW min_length \in Nat, NEW max_length \in Nat
  PROVE  /\ validate_header(b, type, min_length, max_length) \in Seq(Tests)
         /\ Result(b, validate_header(b, type, min_length, max_length)) = "ACCEPTED"
              <=> HeaderOK(b, type, min_length, max_length)
         /\ Result(b, validate_header(b, type, min_length, max_length))
              \in {"ACCEPTED"} \cup CommonErrors
  <1> DEFINE H == {t \in Tests : t.upto <= b.length /\ t.error \in CommonErrors}
             t1 == Test(0, "TOO_SHORT_MESSAGE", b.length < ofp_header)
             t2 == Field(b, 1, "UNSUPPORTED_VERSION")
             t3 == Test(2, "UNDEFINED_TYPE", b.type \notin Types)
             t4 == Test(2, "INVALID_TYPE", b.type # type)
             t5 == Test(4, "TOO_LONG_MESSAGE", b.hlen > max_length)
             t6 == Test(4, "TOO_SHORT_MESSAGE", b.hlen < min_length)
             t7 == Test(4, "TOO_LONG_MESSAGE", b.hlen < b.length)
             t8 == Test(4, "TOO_SHORT_MESSAGE", b.hlen > b.length)
             t9 == Test(4, "TOO_LONG_MESSAGE", b.length > max_length)
             s1 == << t1, t2, t3, t4, t5, t6 >>
             s2 == << t7, t8 >>
             s3 == << t9 >>
             h == validate_header(b, type, min_length, max_length)
  <1>1. b.length \in Nat /\ b.hlen \in Nat
    BY DEF Buffers
  <1>2. \A e \in CommonErrors : e \in Errors
    BY DEF Errors, CommonErrors
  <1>3. t1 \in H /\ t2 \in H /\ t3 \in H
    BY <1>1, <1>2 DEF Tests, Test, Field, CommonErrors
  <1>4. t4 \in H /\ t5 \in H /\ t6 \in H
    BY <1>1, <1>2 DEF Tests, Test, CommonErrors
  <1>5. t7 \in H /\ t8 \in H /\ t9 \in H
    BY <1>1, <1>2 DEF Tests, Test, CommonErrors
  <1>6. /\ t1.fails <=> (b.length < 8)
        /\ t2.fails <=> (b.fault = "UNSUPPORTED_VERSION")
        /\ t3.fails <=> (b.type \notin Types)
        /\ t4.fails <=> (b.type # type)
        /\ t5.fails <=> (b.hlen > max_length)
        /\ t6.fails <=> (b.hlen < min_length)
        /\ t7.fails <=> (b.hlen < b.length)
        /\ t8.fails <=> (b.hlen > b.length)
        /\ t9.fails <=> (b.length > max_length)
    BY DEF Test, Field, ofp_header
  <1>7. h = (s1 \o s2) \o s3
    BY DEF validate_header, SameLength
  <1> HIDE DEF t1, t2, t3, t4, t5, t6, t7, t8, t9, H, h
  <1>8. /\ s1 \in Seq(H) /\ Len(s1) = 6
        /\ s1[1] = t1 /\ s1[2] = t2 /\ s1[3] = t3 /\ s1[4] = t4 /\ s1[5] = t5 /\ s1[6] = t6
    BY <1>3, <1>4
  <1>9. /\ s2 \in Seq(H) /\ Len(s2) = 2 /\ s2[1] = t7 /\ s2[2] = t8
        /\ s3 \in Seq(H) /\ Len(s3) = 1 /\ s3[1] = t9
    BY <1>5
  <1> HIDE DEF s1, s2, s3
  <1>10. ASSUME NEW s \in Seq(H)
         PROVE  /\ s \in Seq(Tests)
                /\ Result(b, s) = "ACCEPTED" <=> \A i \in 1 .. Len(s) : ~s[i].fails
                /\ Result(b, s) \in {"ACCEPTED"} \cup CommonErrors
    <2>1. H \subseteq Tests /\ \A t \in H : t.upto <= b.length /\ t.error \in CommonErrors
      BY DEF H
    <2>2. s \in Seq(Tests) /\ \A i \in 1 .. Len(s) : s[i] \in H
      BY <2>1, SeqMonotonic, ElementOfSeq
    <2>3. QED
      BY <2>1, <2>2, InsideResult
  <1>11. /\ Result(b, s1) = "ACCEPTED" <=>
              ~t1.fails /\ ~t2.fails /\ ~t3.fails /\ ~t4.fails /\ ~t5.fails /\ ~t6.fails
         /\ Result(b, s2) = "ACCEPTED" <=> ~t7.fails /\ ~t8.fails
         /\ Result(b, s3) = "ACCEPTED" <=> ~t9.fails
    <2>1. \A i \in 1 .. 6 : i = 1 \/ i = 2 \/ i = 3 \/ i = 4 \/ i = 5 \/ i = 6
      OBVIOUS
    <2>2. (\A i \in 1 .. Len(s1) : ~s1[i].fails) <=>
             ~t1.fails /\ ~t2.fails /\ ~t3.fails /\ ~t4.fails /\ ~t5.fails /\ ~t6.fails
      BY <1>8, <2>1
    <2>3. (\A i \in 1 .. Len(s2) : ~s2[i].fails) <=> ~t7.fails /\ ~t8.fails
      BY <1>9
    <2>4. (\A i \in 1 .. Len(s3) : ~s3[i].fails) <=> ~t9.fails
      BY <1>9
    <2>5. QED
      BY <1>8, <1>9, <1>10, <2>2, <2>3, <2>4
  <1>12. /\ h \in Seq(Tests)
         /\ Result(b, h) = "ACCEPTED" <=>
              Result(b, s1) = "ACCEPTED" /\ Result(b, s2) = "ACCEPTED" /\ Result(b, s3) = "ACCEPTED"
         /\ Result(b, h) \in {"ACCEPTED"} \cup CommonErrors
    <2> DEFINE s12 == s1 \o s2
    <2>1. /\ s12 \in Seq(Tests)
          /\ Result(b, s12) = IF Result(b, s1) = "ACCEPTED" THEN Result(b, s2) ELSE Result(b, s1)
      BY <1>8, <1>9, <1>10, ResultOfParts
    <2>2. h = s12 \o s3
      BY <1>7
    <2> HIDE DEF s12
    <2>3. /\ h \in Seq(Tests)
          /\ Result(b, h) = IF Result(b, s12) = "ACCEPTED" THEN Result(b, s3) ELSE Result(b, s12)
      BY <1>9, <1>10, <2>1, <2>2, ResultOfParts
    <2>4. /\ Result(b, s1) \in {"ACCEPTED"} \cup CommonErrors
          /\ Result(b, s2) \in {"ACCEPTED"} \cup CommonErrors
          /\ Result(b, s3) \in {"ACCEPTED"} \cup CommonErrors
      BY <1>8, <1>9, <1>10
    <2>5. QED
      BY <2>1, <2>3, <2>4
  <1>13. Result(b, h) = "ACCEPTED" <=> HeaderOK(b, type, min_length, max_length)
    <2>1. Result(b, h) = "ACCEPTED" <=>
            /\ ~t1.fails /\ ~t2.fails /\ ~t3.fails /\ ~t4.fails /\ ~t5.fails /\ ~t6.fails
            /\ ~t7.fails /\ ~t8.fails /\ ~t9.fails
      BY <1>11, <1>12
    <2>2. QED
      BY <1>1, <1>6, <2>1 DEF HeaderOK
  <1>14. QED
    BY <1>12, <1>13 DEF h

LEMMA ExactlyResult ==
  ASSUME NEW b \in Buffers, b.length >= 8, NEW type \in Types, NEW n \in Nat
  PROVE  /\ Exactly(b, type, n) \in Seq(Tests)
         /\ Result(b, Exactly(b, type, n)) = "ACCEPTED" <=> HeaderOK(b, type, n, n)
         /\ Result(b, Exactly(b, type, n)) \in {"ACCEPTED"} \cup CommonErrors
  BY HeaderResult DEF Exactly

LEMMA AtLeastResult ==
  ASSUME NEW b \in Buffers, b.length >= 8, NEW type \in Types, NEW n \in Nat
  PROVE  /\ AtLeast(b, type, n) \in Seq(Tests)
         /\ Result(b, AtLeast(b, type, n)) = "ACCEPTED" <=> HeaderOK(b, type, n, USHRT_MAX)
         /\ Result(b, AtLeast(b, type, n)) \in {"ACCEPTED"} \cup CommonErrors
  <1>1. USHRT_MAX \in Nat
    BY DEF USHRT_MAX
  <1>2. QED
    BY <1>1, HeaderResult, Zenon DEF AtLeast

LEMMA ResultOfThree ==
  ASSUME NEW b \in Buffers, NEW s \in Seq(Tests), NEW t \in Seq(Tests), NEW u \in Seq(Tests)
  PROVE  /\ (s \o t) \o u \in Seq(Tests)
         /\ Result(b, (s \o t) \o u) =
              IF Result(b, s) # "ACCEPTED" THEN Result(b, s)
              ELSE IF Result(b, t) # "ACCEPTED" THEN Result(b, t) ELSE Result(b, u)
  <1> DEFINE st == s \o t
  <1>1. st \in Seq(Tests) /\ Result(b, st) = IF Result(b, s) = "ACCEPTED" THEN Result(b, t) ELSE Result(b, s)
    BY ResultOfParts
  <1> HIDE DEF st
  <1>2. /\ st \o u \in Seq(Tests)
        /\ Result(b, st \o u) = IF Result(b, st) = "ACCEPTED" THEN Result(b, u) ELSE Result(b, st)
    BY <1>1, ResultOfParts
  <1>3. QED
    BY <1>1, <1>2 DEF st

LEMMA ResultOfFour ==
  ASSUME NEW b \in Buffers, NEW s \in Seq(Tests), NEW t \in Seq(Tests), NEW u \in Seq(Tests),
         NEW v \in Seq(Tests)
  PROVE  /\ ((s \o t) \o u) \o v \in Seq(Tests)
         /\ Result(b, ((s \o t) \o u) \o v) =
              IF Result(b, s) # "ACCEPTED" THEN Result(b, s)
              ELSE IF Result(b, t) # "ACCEPTED" THEN Result(b, t)
              ELSE IF Result(b, u) # "ACCEPTED" THEN Result(b, u) ELSE Result(b, v)
  <1> DEFINE st == s \o t
  <1>1. st \in Seq(Tests) /\ Result(b, st) = IF Result(b, s) = "ACCEPTED" THEN Result(b, t) ELSE Result(b, s)
    BY ResultOfParts
  <1> HIDE DEF st
  <1>2. /\ (st \o u) \o v \in Seq(Tests)
        /\ Result(b, (st \o u) \o v) =
              IF Result(b, st) # "ACCEPTED" THEN Result(b, st)
              ELSE IF Result(b, u) # "ACCEPTED" THEN Result(b, u) ELSE Result(b, v)
    BY <1>1, ResultOfThree
  <1>3. QED
    BY <1>1, <1>2 DEF st

LEMMA TwoTests ==
  ASSUME NEW b \in Buffers, NEW s, NEW t, << s >> \in Seq(Tests), << t >> \in Seq(Tests)
  PROVE  /\ << s, t >> \in Seq(Tests)
         /\ Result(b, << s, t >>) =
              IF Result(b, << s >>) = "ACCEPTED" THEN Result(b, << t >>) ELSE Result(b, << s >>)
  <1> DEFINE s1 == << s >>
             t1 == << t >>
             u  == s1 \o t1
             w  == << s, t >>
  <1>1. s1 \in Seq({s, t}) /\ t1 \in Seq({s, t}) /\ w \in Seq({s, t})
    OBVIOUS
  <1>2. Len(s1) = 1 /\ s1[1] = s /\ Len(t1) = 1 /\ t1[1] = t /\ Len(w) = 2 /\ w[1] = s /\ w[2] = t
    OBVIOUS
  <1>3. /\ u \in Seq({s, t}) /\ Len(u) = Len(s1) + Len(t1)
        /\ \A i \in 1 .. Len(s1) + Len(t1) : u[i] = IF i <= Len(s1) THEN s1[i] ELSE t1[i - Len(s1)]
    <2> HIDE DEF s1, t1
    <2>1. QED
      BY <1>1, ConcatProperties
  <1>4. u \in Seq(Tests) /\ Result(b, u) = IF Result(b, s1) = "ACCEPTED" THEN Result(b, t1) ELSE Result(b, s1)
    <2>1. s1 \in Seq(Tests) /\ t1 \in Seq(Tests)
      OBVIOUS
    <2> HIDE DEF s1, t1
    <2>2. QED
      BY <2>1, ResultOfParts
  <1> HIDE DEF s1, t1, u, w
  <1>5. u[1] = s /\ u[2] = t /\ Len(u) = 2
    BY <1>2, <1>3
  <1>6. \A i \in 1 .. 2 : u[i] = w[i]
    BY <1>2, <1>5
  <1>7. u = w
    BY <1>1, <1>2, <1>3, <1>5, <1>6, SeqEqual
  <1>8. QED
    BY <1>4, <1>7 DEF s1, t1, w

LEMMA FieldResult ==
  ASSUME NEW b \in Buffers, NEW n \in Nat, NEW error \in Errors
  PROVE  LET s == << Field(b, n, error) >> IN
         /\ s \in Seq(Tests)
         /\ n <= b.length => Result(b, s) = IF b.fault = error THEN error ELSE "ACCEPTED"
         /\ n > b.length => Result(b, s) = "OUTSIDE"
  <1> DEFINE fails == b.fault = error
  <1>1. fails \in BOOLEAN
    OBVIOUS
  <1> HIDE DEF fails
  <1>2. LET s == << Test(n, error, fails) >> IN
         /\ s \in Seq(Tests)
         /\ n <= b.length => Result(b, s) = IF fails THEN error ELSE "ACCEPTED"
         /\ n > b.length => Result(b, s) = "OUTSIDE"
    BY <1>1, OneTest
  <1>3. QED
    BY <1>2 DEF fails, Field

LEMMA FieldsResult ==
  ASSUME NEW b \in Buffers, NEW n \in Nat, NEW errors \in Seq(Errors)
  PROVE  LET s == Fields(b, n, errors) IN
         /\ s \in Seq(Tests)
         /\ n <= b.length =>
              Result(b, s) = IF \E i \in 1 .. Len(errors) : errors[i] = b.fault
                             THEN b.fault ELSE "ACCEPTED"
  <1> DEFINE s == Fields(b, n, errors)
  <1>1. Len(errors) \in Nat /\ \A i \in 1 .. Len(errors) : errors[i] \in Errors
    BY LenProperties, ElementOfSeq
  <1>2. \A i \in 1 .. Len(errors) :
          /\ Field(b, n, errors[i]) \in Tests
          /\ Field(b, n, errors[i]).upto = n
          /\ Field(b, n, errors[i]).error = errors[i]
          /\ Field(b, n, errors[i]).fails <=> (b.fault = errors[i])
    BY <1>1 DEF Tests, Test, Field
  <1>3. s \in Seq(Tests) /\ Len(s) = Len(errors)
    <2>1. s = [i \in 1 .. Len(errors) |-> Field(b, n, errors[i])]
      BY DEF Fields
    <2>2. s \in [1 .. Len(errors) -> Tests]
      BY <1>2, <2>1
    <2> HIDE DEF s
    <2>3. QED
      BY <1>1, <2>2, SeqDef, LenProperties
  <1>4. \A i \in 1 .. Len(errors) : s[i] = Field(b, n, errors[i])
    BY DEF Fields
  <1> HIDE DEF s
  <1>5. ASSUME n <= b.length
        PROVE  Result(b, s) = IF \E i \in 1 .. Len(errors) : errors[i] = b.fault
                              THEN b.fault ELSE "ACCEPTED"
    <2>1. \A i \in 1 .. Len(s) : s[i].upto <= b.length
      BY <1>2, <1>3, <1>4, <1>5
    <2>2. /\ Result(b, s) = "ACCEPTED" <=> \A i \in 1 .. Len(s) : ~s[i].fails
          /\ Result(b, s) # "ACCEPTED" =>
              \E i \in 1 .. Len(s) : s[i].fails /\ Result(b, s) = s[i].error
      BY <1>3, <2>1, InsideResult
    <2>3. \A i \in 1 .. Len(s) : (s[i].fails <=> errors[i] = b.fault) /\ s[i].error = errors[i]
      BY <1>2, <1>3, <1>4
    <2>4. QED
      BY <1>3, <2>2, <2>3
  <1>6. QED
    BY <1>3, <1>5 DEF s

LEMMA MatchResult ==
  ASSUME NEW b \in Buffers, NEW n \in Nat
  PROVE  LET s == validate_match(b, n) IN
         /\ s \in Seq(Tests)
         /\ n <= b.length => Result(b, s) = IF b.fault \in MatchFaults THEN b.fault ELSE "ACCEPTED"
  <1> DEFINE errors == <<"INVALID_WILDCARDS", "INVALID_VLAN_VID", "INVALID_VLAN_PCP", "INVALID_NW_TOS">>
  <1>1. errors \in Seq(Errors)
    <2>1. /\ "INVALID_WILDCARDS" \in Errors /\ "INVALID_VLAN_VID" \in Errors
          /\ "INVALID_VLAN_PCP" \in Errors /\ "INVALID_NW_TOS" \in Errors
      BY DEF Errors
    <2>2. QED
      BY <2>1
  <1>2. /\ Len(errors) = 4
        /\ errors[1] = "INVALID_WILDCARDS" /\ errors[2] = "INVALID_VLAN_VID"
        /\ errors[3] = "INVALID_VLAN_PCP" /\ errors[4] = "INVALID_NW_TOS"
    OBVIOUS
  <1>3. validate_match(b, n) = Fields(b, n, errors)
    BY DEF validate_match
  <1> HIDE DEF errors
  <1>4. (\E i \in 1 .. Len(errors) : errors[i] = b.fault) <=> b.fault \in MatchFaults
    <2>1. 1 \in 1 .. 4 /\ 2 \in 1 .. 4 /\ 3 \in 1 .. 4 /\ 4 \in 1 .. 4
      OBVIOUS
    <2>2. \A i \in 1 .. 4 : i = 1 \/ i = 2 \/ i = 3 \/ i = 4
      OBVIOUS
    <2>3. QED
      BY <1>2, <2>1, <2>2 DEF MatchFaults
  <1>5. QED
    BY <1>1, <1>3, <1>4, FieldsResult

LEMMA PhyPortNoResult ==
  ASSUME NEW b \in Buffers, NEW n \in Nat
  PROVE  LET s == validate_phy_port_no(b, n) IN
         /\ s \in Seq(Tests)
         /\ n <= b.length =>
              Result(b, s) = IF b.port \in {"zero", "unused"} THEN "INVALID_PORT_NO" ELSE "ACCEPTED"
  <1> DEFINE fails == b.port \in {"zero", "unused"}
  <1>1. fails \in BOOLEAN /\ "INVALID_PORT_NO" \in Errors
    BY DEF Errors
  <1>2. validate_phy_port_no(b, n) = << Test(n, "INVALID_PORT_NO", fails) >>
    BY DEF validate_phy_port_no
  <1> HIDE DEF fails
  <1>3. LET s == << Test(n, "INVALID_PORT_NO", fails) >> IN
        /\ s \in Seq(Tests)
        /\ n <= b.length => Result(b, s) = IF fails THEN "INVALID_PORT_NO" ELSE "ACCEPTED"
    BY <1>1, OneTest
  <1>4. QED
    BY <1>2, <1>3 DEF fails

LEMMA PhyPortResult ==
  ASSUME NEW b \in Buffers, NEW n \in Nat
  PROVE  LET s == validate_phy_port(b, n) IN
         /\ s \in Seq(Tests)
         /\ n <= b.length =>
              Result(b, s) = IF b.port \in {"zero", "unused"} THEN "INVALID_PORT_NO"
                             ELSE IF b.fault \in PortFaults THEN b.fault ELSE "ACCEPTED"
  <1> DEFINE errors == <<"INVALID_PORT_CONFIG", "INVALID_PORT_STATE", "INVALID_PORT_FEATURES">>
             p == validate_phy_port_no(b, n)
             f == Fields(b, n, errors)
  <1>1. errors \in Seq(Errors)
    <2>1. /\ "INVALID_PORT_CONFIG" \in Errors /\ "INVALID_PORT_STATE" \in Errors
          /\ "INVALID_PORT_FEATURES" \in Errors
      BY DEF Errors
    <2>2. QED
      BY <2>1
  <1>2. /\ Len(errors) = 3
        /\ errors[1] = "INVALID_PORT_CONFIG" /\ errors[2] = "INVALID_PORT_STATE"
        /\ errors[3] = "INVALID_PORT_FEATURES"
    OBVIOUS
  <1>3. validate_phy_port(b, n) = p \o f
    BY DEF validate_phy_port
  <1> HIDE DEF errors
  <1>4. (\E i \in 1 .. Len(errors) : errors[i] = b.fault) <=> b.fault \in PortFaults
    <2>1. 1 \in 1 .. 3 /\ 2 \in 1 .. 3 /\ 3 \in 1 .. 3
      OBVIOUS
    <2>2. \A i \in 1 .. 3 : i = 1 \/ i = 2 \/ i = 3
      OBVIOUS
    <2>3. QED
      BY <1>2, <2>1, <2>2 DEF PortFaults
  <1>5. /\ p \in Seq(Tests)
        /\ n <= b.length =>
             Result(b, p) = IF b.port \in {"zero", "unused"} THEN "INVALID_PORT_NO" ELSE "ACCEPTED"
    BY PhyPortNoResult
  <1>6. /\ f \in Seq(Tests)
        /\ n <= b.length => Result(b, f) = IF b.fault \in PortFaults THEN b.fault ELSE "ACCEPTED"
    BY <1>1, <1>4, FieldsResult
  <1> HIDE DEF p, f
  <1>7. p \o f \in Seq(Tests) /\ Result(b, p \o f) = IF Result(b, p) = "ACCEPTED" THEN Result(b, f) ELSE Result(b, p)
    BY <1>5, <1>6, ResultOfParts
  <1>8. QED
    BY <1>3, <1>5, <1>6, <1>7

\* What an action may be guilty of.
LEMMA ActionErrorsAre ==
  ActionErrors = {"TOO_SHORT_ACTION", "UNDEFINED_ACTION_TYPE", "SHORT_ACTION", "LONG_ACTION",
                  "INVALID_PORT_NO", "INVALID_VLAN_VID", "INVALID_VLAN_PCP", "INVALID_NW_TOS"}
  <1>1. /\ validate_action("OUTPUT") = {"SHORT_ACTION", "LONG_ACTION", "INVALID_PORT_NO"}
        /\ validate_action("SET_VLAN_VID") = {"SHORT_ACTION", "LONG_ACTION", "INVALID_VLAN_VID"}
        /\ validate_action("SET_VLAN_PCP") = {"SHORT_ACTION", "LONG_ACTION", "INVALID_VLAN_PCP"}
        /\ validate_action("SET_NW_TOS") = {"SHORT_ACTION", "LONG_ACTION", "INVALID_NW_TOS"}
    BY DEF validate_action
  <1>2. ASSUME NEW k \in ActionTypes
        PROVE  validate_action(k) \subseteq
                 {"SHORT_ACTION", "LONG_ACTION", "INVALID_PORT_NO", "INVALID_VLAN_VID",
                  "INVALID_VLAN_PCP", "INVALID_NW_TOS"}
    BY DEF validate_action, ActionTypes
  <1>3. /\ "OUTPUT" \in ActionTypes /\ "SET_VLAN_VID" \in ActionTypes
        /\ "SET_VLAN_PCP" \in ActionTypes /\ "SET_NW_TOS" \in ActionTypes
    BY DEF ActionTypes
  <1>4. \A e : e \in ActionErrors <=>
          e \in {"TOO_SHORT_ACTION", "UNDEFINED_ACTION_TYPE"} \/ \E k \in ActionTypes : e \in validate_action(k)
    BY DEF ActionErrors
  <1>5. QED
    BY <1>1, <1>2, <1>3, <1>4

LEMMA ActionsResult ==
  ASSUME NEW b \in Buffers, NEW n \in Nat
  PROVE  LET s == validate_actions(b, n) IN
         /\ s \in Seq(Tests)
         /\ (b.hlen > n => n <= b.length) =>
              Result(b, s) = IF b.hlen > n /\ b.fault \in ActionErrors THEN b.fault ELSE "ACCEPTED"
  <1> DEFINE fails == b.fault \in ActionErrors
             t == << Test(n, b.fault, fails) >>
  <1>1. fails \in BOOLEAN /\ b.fault \in Errors
    BY DEF Buffers
  <1>2. validate_actions(b, n) = IF b.hlen > n THEN t ELSE <<>>
    BY DEF validate_actions, List
  <1>3. /\ t \in Seq(Tests)
        /\ n <= b.length => Result(b, t) = IF fails THEN b.fault ELSE "ACCEPTED"
    <2> HIDE DEF fails
    <2>1. QED
      BY <1>1, OneTest
  <1> HIDE DEF t
  <1>4. <<>> \in Seq(Tests) /\ Result(b, <<>>) = "ACCEPTED"
    BY NoTests
  <1>5. QED
    BY <1>2, <1>3, <1>4

LEMMA WholeLengthResult ==
  ASSUME NEW b \in Buffers, b.length >= 8
  PROVE  LET s == WholeLength(b) IN
         /\ s \in Seq(Tests)
         /\ Result(b, s) = IF b.length # b.hlen THEN "INVALID_LENGTH" ELSE "ACCEPTED"
  <1> DEFINE fails == b.length # b.hlen
  <1>1. fails \in BOOLEAN /\ "INVALID_LENGTH" \in Errors /\ 4 <= b.length /\ 4 \in Nat
    BY DEF Errors, Buffers
  <1>2. WholeLength(b) = << Test(4, "INVALID_LENGTH", fails) >>
    BY DEF WholeLength
  <1>3. LET s == << Test(4, "INVALID_LENGTH", fails) >> IN
        s \in Seq(Tests) /\ Result(b, s) = IF fails THEN "INVALID_LENGTH" ELSE "ACCEPTED"
    <2> HIDE DEF fails
    <2>1. QED
      BY <1>1, OneTest
  <1>4. QED
    BY <1>2, <1>3

-----------------------------------------------------------------------------
(* The checks: what each accepts, and the errors it may find.              *)

Decides(b, tests, accepts, errors) ==
  /\ Result(b, tests) = "ACCEPTED" <=> accepts
  /\ Result(b, tests) \in {"ACCEPTED"} \cup errors

PortOK(b) == b.port \notin {"zero", "unused"}

\* Checks of nothing but the header.
LEMMA HeadersDecide ==
  ASSUME NEW b \in Buffers, b.length >= 8
  PROVE  /\ Decides(b, validate_hello(b), HeaderOK(b, "HELLO", 8, 8), CommonErrors)
         /\ Decides(b, validate_error(b), HeaderOK(b, "ERROR", 12, USHRT_MAX), CommonErrors)
         /\ Decides(b, validate_features_request(b), HeaderOK(b, "FEATURES_REQUEST", 8, 8), CommonErrors)
         /\ Decides(b, validate_get_config_request(b), HeaderOK(b, "GET_CONFIG_REQUEST", 8, 8), CommonErrors)
         /\ Decides(b, validate_barrier_request(b), HeaderOK(b, "BARRIER_REQUEST", 8, 8), CommonErrors)
         /\ Decides(b, validate_barrier_reply(b), HeaderOK(b, "BARRIER_REPLY", 8, 8), CommonErrors)
  <1>1. /\ "HELLO" \in Types /\ "ERROR" \in Types /\ "FEATURES_REQUEST" \in Types
        /\ "GET_CONFIG_REQUEST" \in Types /\ "BARRIER_REQUEST" \in Types /\ "BARRIER_REPLY" \in Types
    BY DEF Types
  <1>2. /\ validate_hello(b) = Exactly(b, "HELLO", 8)
        /\ validate_error(b) = AtLeast(b, "ERROR", 12)
        /\ validate_features_request(b) = Exactly(b, "FEATURES_REQUEST", 8)
        /\ validate_get_config_request(b) = Exactly(b, "GET_CONFIG_REQUEST", 8)
        /\ validate_barrier_request(b) = Exactly(b, "BARRIER_REQUEST", 8)
        /\ validate_barrier_reply(b) = Exactly(b, "BARRIER_REPLY", 8)
    BY DEF validate_hello, validate_error, validate_features_request, validate_get_config_request,
           validate_barrier_request, validate_barrier_reply, ofp_header, ofp_error_msg
  <1>3. ASSUME NEW type \in Types
        PROVE  Decides(b, Exactly(b, type, 8), HeaderOK(b, type, 8, 8), CommonErrors)
    BY ExactlyResult DEF Decides
  <1>4. Decides(b, AtLeast(b, "ERROR", 12), HeaderOK(b, "ERROR", 12, USHRT_MAX), CommonErrors)
    <2>1. 12 \in Nat
      OBVIOUS
    <2>2. QED
      BY <1>1, <2>1, AtLeastResult, Zenon DEF Decides
  <1>5. QED
    BY <1>1, <1>2, <1>3, <1>4

\* Checks of the header and of the whole length, again.
LEMMA EchoesDecide ==
  ASSUME NEW b \in Buffers, b.length >= 8
  PROVE  /\ Decides(b, validate_echo_request(b), HeaderOK(b, "ECHO_REQUEST", 8, USHRT_MAX), CommonErrors)
         /\ Decides(b, validate_echo_reply(b), HeaderOK(b, "ECHO_REPLY", 8, USHRT_MAX), CommonErrors)
         /\ Decides(b, validate_vendor(b), HeaderOK(b, "VENDOR", 12, USHRT_MAX), CommonErrors)
  <1>1. "ECHO_REQUEST" \in Types /\ "ECHO_REPLY" \in Types /\ "VENDOR" \in Types
    BY DEF Types
  <1>2. ASSUME NEW type \in Types, NEW n \in Nat
        PROVE  Decides(b, AtLeast(b, type, n) \o WholeLength(b), HeaderOK(b, type, n, USHRT_MAX), CommonErrors)
    <2> DEFINE h == AtLeast(b, type, n)
               w == WholeLength(b)
    <2>1. /\ h \in Seq(Tests)
          /\ Result(b, h) = "ACCEPTED" <=> HeaderOK(b, type, n, USHRT_MAX)
          /\ Result(b, h) \in {"ACCEPTED"} \cup CommonErrors
      BY AtLeastResult
    <2>2. /\ w \in Seq(Tests)
          /\ Result(b, w) = IF b.length # b.hlen THEN "INVALID_LENGTH" ELSE "ACCEPTED"
      BY WholeLengthResult
    <2> HIDE DEF h, w
    <2>3. Result(b, h \o w) = IF Result(b, h) = "ACCEPTED" THEN Result(b, w) ELSE Result(b, h)
      BY <2>1, <2>2, ResultOfParts
    <2>4. HeaderOK(b, type, n, USHRT_MAX) => b.length = b.hlen
      BY DEF HeaderOK
    <2>5. QED
      BY <2>1, <2>2, <2>3, <2>4 DEF Decides, h, w
  <1>3. /\ validate_echo_request(b) = AtLeast(b, "ECHO_REQUEST", 8) \o WholeLength(b)
        /\ validate_echo_reply(b) = AtLeast(b, "ECHO_REPLY", 8) \o WholeLength(b)
        /\ validate_vendor(b) = AtLeast(b, "VENDOR", 12) \o WholeLength(b)
    BY DEF validate_echo_request, validate_echo_reply, validate_vendor, ofp_header, ofp_vendor_header
  <1>4. QED
    BY <1>1, <1>2, <1>3

LEMMA SwitchConfigDecides ==
  ASSUME NEW b \in Buffers, b.length >= 8, NEW type \in Types
  PROVE  Decides(b, validate_switch_config(b, type),
                 HeaderOK(b, type, 12, 12) /\ b.fault # "INVALID_SWITCH_CONFIG",
                 CommonErrors \cup {"INVALID_SWITCH_CONFIG"})
  <1> DEFINE h == Exactly(b, type, 12)
             f == << Field(b, 10, "INVALID_SWITCH_CONFIG") >>
  <1>1. /\ h \in Seq(Tests)
        /\ Result(b, h) = "ACCEPTED" <=> HeaderOK(b, type, 12, 12)
        /\ Result(b, h) \in {"ACCEPTED"} \cup CommonErrors
    BY ExactlyResult
  <1>2. /\ f \in Seq(Tests)
        /\ 10 <= b.length =>
             Result(b, f) = IF b.fault = "INVALID_SWITCH_CONFIG" THEN "INVALID_SWITCH_CONFIG" ELSE "ACCEPTED"
    <2>1. "INVALID_SWITCH_CONFIG" \in Errors /\ 10 \in Nat
      BY DEF Errors
    <2>2. QED
      BY <2>1, FieldResult
  <1>3. validate_switch_config(b, type) = h \o f
    BY DEF validate_switch_config, ofp_switch_config
  <1> HIDE DEF h, f
  <1>4. Result(b, h \o f) = IF Result(b, h) = "ACCEPTED" THEN Result(b, f) ELSE Result(b, h)
    BY <1>1, <1>2, ResultOfParts
  <1>5. HeaderOK(b, type, 12, 12) => 10 <= b.length
    BY DEF HeaderOK, Buffers
  <1>6. QED
    BY <1>1, <1>2, <1>3, <1>4, <1>5 DEF Decides

LEMMA FeaturesReplyDecides ==
  ASSUME NEW b \in Buffers, b.length >= 8
  PROVE  Decides(b, validate_features_reply(b),
                 /\ HeaderOK(b, "FEATURES_REPLY", 32, USHRT_MAX)
                 /\ b.fault # "NO_TABLE_AVAILABLE"
                 /\ (b.length - 32) % 48 = 0
                 /\ b.length > 32 => PortOK(b) /\ b.fault \notin PortFaults,
                 Errors)
  <1> DEFINE h == AtLeast(b, "FEATURES_REPLY", 32)
             misfit == (b.hlen - 32) % 48 # 0
             t1 == Field(b, 21, "NO_TABLE_AVAILABLE")
             t2 == Test(4, "INVALID_LENGTH", misfit)
             f == << t1, t2 >>
             p == validate_phy_port(b, b.hlen)
             l == IF b.hlen > 32 THEN p ELSE <<>>
  <1>0. b.length \in Nat /\ b.hlen \in Nat /\ b.fault \in Errors
    BY DEF Buffers
  <1>1. /\ h \in Seq(Tests)
        /\ Result(b, h) = "ACCEPTED" <=> HeaderOK(b, "FEATURES_REPLY", 32, USHRT_MAX)
        /\ Result(b, h) \in {"ACCEPTED"} \cup CommonErrors
    <2>1. "FEATURES_REPLY" \in Types /\ 32 \in Nat
      BY DEF Types
    <2>2. QED
      BY <2>1, AtLeastResult, Zenon
  <1>2. /\ f \in Seq(Tests)
        /\ 21 <= b.length =>
             Result(b, f) = IF b.fault = "NO_TABLE_AVAILABLE" THEN "NO_TABLE_AVAILABLE"
                            ELSE IF misfit THEN "INVALID_LENGTH" ELSE "ACCEPTED"
    <2>1. /\ << t1 >> \in Seq(Tests)
          /\ 21 <= b.length =>
               Result(b, << t1 >>) = IF b.fault = "NO_TABLE_AVAILABLE" THEN "NO_TABLE_AVAILABLE" ELSE "ACCEPTED"
      <3>1. "NO_TABLE_AVAILABLE" \in Errors /\ 21 \in Nat
        BY DEF Errors
      <3>2. QED
        BY <3>1, FieldResult
    <2>2. misfit \in BOOLEAN /\ "INVALID_LENGTH" \in Errors
      BY DEF Errors
    <2> HIDE DEF misfit
    <2>3. /\ << t2 >> \in Seq(Tests)
          /\ 4 <= b.length => Result(b, << t2 >>) = IF misfit THEN "INVALID_LENGTH" ELSE "ACCEPTED"
      BY <2>2, OneTest
    <2> HIDE DEF t1, t2
    <2>4. /\ f \in Seq(Tests)
          /\ Result(b, f) = IF Result(b, << t1 >>) = "ACCEPTED" THEN Result(b, << t2 >>) ELSE Result(b, << t1 >>)
      BY <2>1, <2>3, TwoTests
    <2> HIDE DEF f
    <2>5. QED
      BY <1>0, <2>1, <2>3, <2>4
  <1>3. /\ l \in Seq(Tests)
        /\ b.hlen = b.length =>
             Result(b, l) = IF b.hlen > 32 /\ ~PortOK(b) THEN "INVALID_PORT_NO"
                            ELSE IF b.hlen > 32 /\ b.fault \in PortFaults THEN b.fault ELSE "ACCEPTED"
    <2>1. /\ p \in Seq(Tests)
          /\ b.hlen <= b.length =>
               Result(b, p) = IF b.port \in {"zero", "unused"} THEN "INVALID_PORT_NO"
                              ELSE IF b.fault \in PortFaults THEN b.fault ELSE "ACCEPTED"
      BY <1>0, PhyPortResult
    <2> HIDE DEF p
    <2>2. QED
      BY <1>0, <2>1, NoTests DEF PortOK
  <1>4. validate_features_reply(b) = (h \o f) \o l
    BY DEF validate_features_reply, List, ofp_switch_features, ofp_phy_port
  <1> HIDE DEF h, f, l
  <1>5. Result(b, (h \o f) \o l) =
          IF Result(b, h) # "ACCEPTED" THEN Result(b, h)
          ELSE IF Result(b, f) # "ACCEPTED" THEN Result(b, f) ELSE Result(b, l)
    BY <1>1, <1>2, <1>3, ResultOfThree
  <1>6. HeaderOK(b, "FEATURES_REPLY", 32, USHRT_MAX) => 21 <= b.length /\ b.hlen = b.length
    BY <1>0 DEF HeaderOK
  <1>7. /\ CommonErrors \subseteq Errors /\ "NO_TABLE_AVAILABLE" \in Errors
        /\ "INVALID_LENGTH" \in Errors /\ "INVALID_PORT_NO" \in Errors
    BY DEF CommonErrors, Errors
  <1>8. Result(b, (h \o f) \o l) = "ACCEPTED" <=>
          /\ HeaderOK(b, "FEATURES_REPLY", 32, USHRT_MAX)
          /\ b.fault # "NO_TABLE_AVAILABLE"
          /\ ~misfit
          /\ b.hlen > 32 => PortOK(b) /\ b.fault \notin PortFaults
    BY <1>0, <1>1, <1>2, <1>3, <1>5, <1>6, ErrorsAreNoResults
  <1>9. Result(b, (h \o f) \o l) \in {"ACCEPTED"} \cup Errors
    BY <1>0, <1>1, <1>2, <1>3, <1>5, <1>6, <1>7
  <1>10. QED
    BY <1>4, <1>6, <1>8, <1>9 DEF Decides

LEMMA PacketInDecides ==
  ASSUME NEW b \in Buffers, b.length >= 8
  PROVE  Decides(b, validate_packet_in(b),
                 /\ HeaderOK(b, "PACKET_IN", 18, USHRT_MAX)
                 /\ PortOK(b) /\ b.fault # "INVALID_PACKET_IN_REASON",
                 Errors)
  <1> DEFINE h == AtLeast(b, "PACKET_IN", 18)
             p == validate_phy_port_no(b, 16)
             f == << Field(b, 17, "INVALID_PACKET_IN_REASON") >>
             u == p \o f
  <1>1. /\ h \in Seq(Tests)
        /\ Result(b, h) = "ACCEPTED" <=> HeaderOK(b, "PACKET_IN", 18, USHRT_MAX)
        /\ Result(b, h) \in {"ACCEPTED"} \cup CommonErrors
    <2>1. "PACKET_IN" \in Types /\ 18 \in Nat
      BY DEF Types
    <2>2. QED
      BY <2>1, AtLeastResult, Zenon
  <1>2. /\ p \in Seq(Tests)
        /\ 16 <= b.length => Result(b, p) = IF PortOK(b) THEN "ACCEPTED" ELSE "INVALID_PORT_NO"
    BY PhyPortNoResult DEF PortOK
  <1>3. /\ f \in Seq(Tests)
        /\ 17 <= b.length =>
             Result(b, f) = IF b.fault = "INVALID_PACKET_IN_REASON" THEN "INVALID_PACKET_IN_REASON"
                            ELSE "ACCEPTED"
    <2>1. "INVALID_PACKET_IN_REASON" \in Errors /\ 17 \in Nat
      BY DEF Errors
    <2>2. QED
      BY <2>1, FieldResult
  <1>4. validate_packet_in(b) = h \o u
    BY DEF validate_packet_in, PacketInFields, ofp_packet_in
  <1> HIDE DEF h, p, f
  <1>5. u \in Seq(Tests) /\ Result(b, u) = IF Result(b, p) = "ACCEPTED" THEN Result(b, f) ELSE Result(b, p)
    BY <1>2, <1>3, ResultOfParts
  <1> HIDE DEF u
  <1>6. Result(b, h \o u) = IF Result(b, h) = "ACCEPTED" THEN Result(b, u) ELSE Result(b, h)
    BY <1>1, <1>5, ResultOfParts
  <1>7. HeaderOK(b, "PACKET_IN", 18, USHRT_MAX) => 16 <= b.length /\ 17 <= b.length
    BY DEF HeaderOK, Buffers
  <1>8. /\ CommonErrors \subseteq Errors /\ "INVALID_PORT_NO" \in Errors
        /\ "INVALID_PACKET_IN_REASON" \in Errors
    BY DEF CommonErrors, Errors
  <1>9. QED
    BY <1>1, <1>2, <1>3, <1>4, <1>5, <1>6, <1>7, <1>8 DEF Decides

LEMMA FlowRemovedDecides ==
  ASSUME NEW b \in Buffers, b.length >= 8
  PROVE  Decides(b, validate_flow_removed(b),
                 /\ HeaderOK(b, "FLOW_REMOVED", 88, 88)
                 /\ b.fault \notin MatchFaults
                 /\ b.fault # "INVALID_FLOW_PRIORITY" /\ b.fault # "INVALID_FLOW_REMOVED_REASON",
                 Errors)
  <1> DEFINE h == Exactly(b, "FLOW_REMOVED", 88)
             m == validate_match(b, 48)
             f1 == Field(b, 58, "INVALID_FLOW_PRIORITY")
             f2 == Field(b, 59, "INVALID_FLOW_REMOVED_REASON")
             f == << f1, f2 >>
  <1>0. b.fault \in Errors /\ b.fault # "ACCEPTED"
    BY ErrorsAreNoResults DEF Buffers
  <1>1. /\ h \in Seq(Tests)
        /\ Result(b, h) = "ACCEPTED" <=> HeaderOK(b, "FLOW_REMOVED", 88, 88)
        /\ Result(b, h) \in {"ACCEPTED"} \cup CommonErrors
    <2>1. "FLOW_REMOVED" \in Types /\ 88 \in Nat
      BY DEF Types
    <2>2. QED
      BY <2>1, ExactlyResult, Zenon
  <1>2. /\ m \in Seq(Tests)
        /\ 48 <= b.length => Result(b, m) = IF b.fault \in MatchFaults THEN b.fault ELSE "ACCEPTED"
    BY MatchResult
  <1>3. /\ << f1 >> \in Seq(Tests)
        /\ 58 <= b.length =>
             Result(b, << f1 >>) = IF b.fault = "INVALID_FLOW_PRIORITY" THEN "INVALID_FLOW_PRIORITY"
                                   ELSE "ACCEPTED"
    <2>1. "INVALID_FLOW_PRIORITY" \in Errors /\ 58 \in Nat
      BY DEF Errors
    <2>2. QED
      BY <2>1, FieldResult
  <1>4. /\ << f2 >> \in Seq(Tests)
        /\ 59 <= b.length =>
             Result(b, << f2 >>) = IF b.fault = "INVALID_FLOW_REMOVED_REASON"
                                   THEN "INVALID_FLOW_REMOVED_REASON" ELSE "ACCEPTED"
    <2>1. "INVALID_FLOW_REMOVED_REASON" \in Errors /\ 59 \in Nat
      BY DEF Errors
    <2>2. QED
      BY <2>1, FieldResult
  <1>5. validate_flow_removed(b) = (h \o m) \o f
    BY DEF validate_flow_removed, ofp_flow_removed
  <1> HIDE DEF h, m, f1, f2
  <1>6. /\ f \in Seq(Tests)
        /\ Result(b, f) = IF Result(b, << f1 >>) = "ACCEPTED" THEN Result(b, << f2 >>) ELSE Result(b, << f1 >>)
    BY <1>3, <1>4, TwoTests
  <1> HIDE DEF f
  <1>7. Result(b, (h \o m) \o f) =
          IF Result(b, h) # "ACCEPTED" THEN Result(b, h)
          ELSE IF Result(b, m) # "ACCEPTED" THEN Result(b, m) ELSE Result(b, f)
    BY <1>1, <1>2, <1>6, ResultOfThree
  <1>8. HeaderOK(b, "FLOW_REMOVED", 88, 88) => 48 <= b.length /\ 58 <= b.length /\ 59 <= b.length
    BY DEF HeaderOK, Buffers
  <1>9. /\ CommonErrors \subseteq Errors /\ "INVALID_FLOW_PRIORITY" \in Errors
        /\ "INVALID_FLOW_REMOVED_REASON" \in Errors
    BY DEF CommonErrors, Errors
  <1>10. QED
    BY <1>0, <1>1, <1>2, <1>3, <1>4, <1>5, <1>6, <1>7, <1>8, <1>9 DEF Decides

LEMMA PortStatusDecides ==
  ASSUME NEW b \in Buffers, b.length >= 8
  PROVE  Decides(b, validate_port_status(b),
                 /\ HeaderOK(b, "PORT_STATUS", 64, 64)
                 /\ b.fault # "INVALID_PORT_STATUS_REASON"
                 /\ PortOK(b) /\ b.fault \notin PortFaults,
                 Errors)
  <1> DEFINE h == Exactly(b, "PORT_STATUS", 64)
             f == << Field(b, 9, "INVALID_PORT_STATUS_REASON") >>
             p == validate_phy_port(b, 64)
  <1>0. b.fault \in Errors /\ b.fault # "ACCEPTED"
    BY ErrorsAreNoResults DEF Buffers
  <1>1. /\ h \in Seq(Tests)
        /\ Result(b, h) = "ACCEPTED" <=> HeaderOK(b, "PORT_STATUS", 64, 64)
        /\ Result(b, h) \in {"ACCEPTED"} \cup CommonErrors
    <2>1. "PORT_STATUS" \in Types /\ 64 \in Nat
      BY DEF Types
    <2>2. QED
      BY <2>1, ExactlyResult, Zenon
  <1>2. /\ f \in Seq(Tests)
        /\ 9 <= b.length =>
             Result(b, f) = IF b.fault = "INVALID_PORT_STATUS_REASON" THEN "INVALID_PORT_STATUS_REASON"
                            ELSE "ACCEPTED"
    <2>1. "INVALID_PORT_STATUS_REASON" \in Errors /\ 9 \in Nat
      BY DEF Errors
    <2>2. QED
      BY <2>1, FieldResult
  <1>3. /\ p \in Seq(Tests)
        /\ 64 <= b.length =>
             Result(b, p) = IF ~PortOK(b) THEN "INVALID_PORT_NO"
                            ELSE IF b.fault \in PortFaults THEN b.fault ELSE "ACCEPTED"
    BY PhyPortResult DEF PortOK
  <1>4. validate_port_status(b) = (h \o f) \o p
    BY DEF validate_port_status, ofp_port_status
  <1> HIDE DEF h, f, p
  <1>5. Result(b, (h \o f) \o p) =
          IF Result(b, h) # "ACCEPTED" THEN Result(b, h)
          ELSE IF Result(b, f) # "ACCEPTED" THEN Result(b, f) ELSE Result(b, p)
    BY <1>1, <1>2, <1>3, ResultOfThree
  <1>6. HeaderOK(b, "PORT_STATUS", 64, 64) => 9 <= b.length /\ 64 <= b.length
    BY DEF HeaderOK, Buffers
  <1>7. /\ CommonErrors \subseteq Errors /\ "INVALID_PORT_STATUS_REASON" \in Errors
        /\ "INVALID_PORT_NO" \in Errors
    BY DEF CommonErrors, Errors
  <1>8. QED
    BY <1>0, <1>1, <1>2, <1>3, <1>4, <1>5, <1>6, <1>7 DEF Decides

LEMMA PacketOutDecides ==
  ASSUME NEW b \in Buffers, b.length >= 8
  PROVE  Decides(b, validate_packet_out(b),
                 /\ HeaderOK(b, "PACKET_OUT", 16, USHRT_MAX)
                 /\ PortOK(b)
                 /\ b.length > 16 => b.fault \notin ActionErrors,
                 CommonErrors \cup ActionErrors)
  <1> DEFINE h == AtLeast(b, "PACKET_OUT", 16)
             p == validate_phy_port_no(b, 14)
             a == validate_actions(b, 16)
  <1>0. b.fault # "ACCEPTED" /\ b.hlen \in Nat /\ b.length \in Nat
    BY ErrorsAreNoResults DEF Buffers
  <1>1. /\ h \in Seq(Tests)
        /\ Result(b, h) = "ACCEPTED" <=> HeaderOK(b, "PACKET_OUT", 16, USHRT_MAX)
        /\ Result(b, h) \in {"ACCEPTED"} \cup CommonErrors
    <2>1. "PACKET_OUT" \in Types /\ 16 \in Nat
      BY DEF Types
    <2>2. QED
      BY <2>1, AtLeastResult, Zenon
  <1>2. /\ p \in Seq(Tests)
        /\ 14 <= b.length => Result(b, p) = IF PortOK(b) THEN "ACCEPTED" ELSE "INVALID_PORT_NO"
    BY PhyPortNoResult DEF PortOK
  <1>3. /\ a \in Seq(Tests)
        /\ (b.hlen > 16 => 16 <= b.length) =>
             Result(b, a) = IF b.hlen > 16 /\ b.fault \in ActionErrors THEN b.fault ELSE "ACCEPTED"
    BY ActionsResult
  <1>4. validate_packet_out(b) = (h \o p) \o a
    BY DEF validate_packet_out, ofp_packet_out
  <1> HIDE DEF h, p, a
  <1>5. Result(b, (h \o p) \o a) =
          IF Result(b, h) # "ACCEPTED" THEN Result(b, h)
          ELSE IF Result(b, p) # "ACCEPTED" THEN Result(b, p) ELSE Result(b, a)
    BY <1>1, <1>2, <1>3, ResultOfThree
  <1>6. HeaderOK(b, "PACKET_OUT", 16, USHRT_MAX) =>
          14 <= b.length /\ 16 <= b.length /\ b.hlen = b.length
    BY <1>0 DEF HeaderOK
  <1>7. "INVALID_PORT_NO" \in ActionErrors
    BY ActionErrorsAre
  <1>8. QED
    BY <1>0, <1>1, <1>2, <1>3, <1>4, <1>5, <1>6, <1>7 DEF Decides

LEMMA FlowModDecides ==
  ASSUME NEW b \in Buffers, b.length >= 8
  PROVE  Decides(b, validate_flow_mod(b),
                 /\ HeaderOK(b, "FLOW_MOD", 72, USHRT_MAX)
                 /\ b.fault \notin MatchFaults
                 /\ b.fault # "UNDEFINED_FLOW_MOD_COMMAND" /\ b.fault # "INVALID_FLOW_PRIORITY"
                 /\ b.delete => PortOK(b)
                 /\ b.fault # "INVALID_FLOW_MOD_FLAGS"
                 /\ b.length > 72 => b.fault \notin ActionErrors,
                 CommonErrors \cup ActionErrors \cup MatchFaults \cup
                   {"UNDEFINED_FLOW_MOD_COMMAND", "INVALID_FLOW_PRIORITY", "INVALID_FLOW_MOD_FLAGS"})
  <1> DEFINE h == AtLeast(b, "FLOW_MOD", 72)
             m == validate_match(b, 48)
             f1 == Field(b, 58, "UNDEFINED_FLOW_MOD_COMMAND")
             f2 == Field(b, 64, "INVALID_FLOW_PRIORITY")
             f == << f1, f2 >>
             p == validate_phy_port_no(b, 70)
             d == IF b.delete THEN p ELSE <<>>
             g == << Field(b, 72, "INVALID_FLOW_MOD_FLAGS") >>
             a == validate_actions(b, 72)
             hmfd == ((h \o m) \o f) \o d
  <1>0. b.fault # "ACCEPTED" /\ b.hlen \in Nat /\ b.length \in Nat /\ b.delete \in BOOLEAN
    BY ErrorsAreNoResults DEF Buffers
  <1>1. /\ h \in Seq(Tests)
        /\ Result(b, h) = "ACCEPTED" <=> HeaderOK(b, "FLOW_MOD", 72, USHRT_MAX)
        /\ Result(b, h) \in {"ACCEPTED"} \cup CommonErrors
    <2>1. "FLOW_MOD" \in Types /\ 72 \in Nat
      BY DEF Types
    <2>2. QED
      BY <2>1, AtLeastResult, Zenon
  <1>2. /\ m \in Seq(Tests)
        /\ 48 <= b.length => Result(b, m) = IF b.fault \in MatchFaults THEN b.fault ELSE "ACCEPTED"
    BY MatchResult
  <1>3. /\ << f1 >> \in Seq(Tests)
        /\ 58 <= b.length =>
             Result(b, << f1 >>) = IF b.fault = "UNDEFINED_FLOW_MOD_COMMAND"
                                   THEN "UNDEFINED_FLOW_MOD_COMMAND" ELSE "ACCEPTED"
    <2>1. "UNDEFINED_FLOW_MOD_COMMAND" \in Errors /\ 58 \in Nat
      BY DEF Errors
    <2>2. QED
      BY <2>1, FieldResult
  <1>4. /\ << f2 >> \in Seq(Tests)
        /\ 64 <= b.length =>
             Result(b, << f2 >>) = IF b.fault = "INVALID_FLOW_PRIORITY" THEN "INVALID_FLOW_PRIORITY"
                                   ELSE "ACCEPTED"
    <2>1. "INVALID_FLOW_PRIORITY" \in Errors /\ 64 \in Nat
      BY DEF Errors
    <2>2. QED
      BY <2>1, FieldResult
  <1>5. /\ d \in Seq(Tests)
        /\ 70 <= b.length =>
             Result(b, d) = IF b.delete /\ ~PortOK(b) THEN "INVALID_PORT_NO" ELSE "ACCEPTED"
    <2>1. /\ p \in Seq(Tests)
          /\ 70 <= b.length => Result(b, p) = IF PortOK(b) THEN "ACCEPTED" ELSE "INVALID_PORT_NO"
      BY PhyPortNoResult DEF PortOK
    <2> HIDE DEF p
    <2>2. QED
      BY <1>0, <2>1, NoTests
  <1>6. /\ g \in Seq(Tests)
        /\ 72 <= b.length =>
             Result(b, g) = IF b.fault = "INVALID_FLOW_MOD_FLAGS" THEN "INVALID_FLOW_MOD_FLAGS"
                            ELSE "ACCEPTED"
    <2>1. "INVALID_FLOW_MOD_FLAGS" \in Errors /\ 72 \in Nat
      BY DEF Errors
    <2>2. QED
      BY <2>1, FieldResult
  <1>7. /\ a \in Seq(Tests)
        /\ (b.hlen > 72 => 72 <= b.length) =>
             Result(b, a) = IF b.hlen > 72 /\ b.fault \in ActionErrors THEN b.fault ELSE "ACCEPTED"
    BY ActionsResult
  <1>8. validate_flow_mod(b) = (hmfd \o g) \o a
    BY DEF validate_flow_mod, ofp_flow_mod
  <1> HIDE DEF h, m, f1, f2, d, g, a
  <1>9. /\ f \in Seq(Tests)
        /\ Result(b, f) = IF Result(b, << f1 >>) = "ACCEPTED" THEN Result(b, << f2 >>) ELSE Result(b, << f1 >>)
    BY <1>3, <1>4, TwoTests
  <1> HIDE DEF f
  <1>10. /\ hmfd \in Seq(Tests)
         /\ Result(b, hmfd) =
              IF Result(b, h) # "ACCEPTED" THEN Result(b, h)
              ELSE IF Result(b, m) # "ACCEPTED" THEN Result(b, m)
              ELSE IF Result(b, f) # "ACCEPTED" THEN Result(b, f) ELSE Result(b, d)
    BY <1>1, <1>2, <1>5, <1>9, ResultOfFour
  <1> HIDE DEF hmfd
  <1>11. Result(b, (hmfd \o g) \o a) =
           IF Result(b, hmfd) # "ACCEPTED" THEN Result(b, hmfd)
           ELSE IF Result(b, g) # "ACCEPTED" THEN Result(b, g) ELSE Result(b, a)
    BY <1>6, <1>7, <1>10, ResultOfThree
  <1>12. HeaderOK(b, "FLOW_MOD", 72, USHRT_MAX) =>
           /\ 48 <= b.length /\ 58 <= b.length /\ 64 <= b.length /\ 70 <= b.length /\ 72 <= b.length
           /\ b.hlen = b.length
    BY <1>0 DEF HeaderOK
  <1>13. "INVALID_PORT_NO" \in ActionErrors
    BY ActionErrorsAre
  <1>14. QED
    BY <1>0, <1>1, <1>2, <1>3, <1>4, <1>5, <1>6, <1>7, <1>8, <1>9, <1>10, <1>11, <1>12, <1>13 DEF Decides

LEMMA PortModDecides ==
  ASSUME NEW b \in Buffers, b.length >= 8
  PROVE  Decides(b, validate_port_mod(b),
                 /\ HeaderOK(b, "PORT_MOD", 32, 32)
                 /\ PortOK(b) /\ b.port \notin {"virtual", "all", "none"}
                 /\ b.fault \notin {"INVALID_PORT_CONFIG", "INVALID_PORT_MASK",
                                    "INVALID_PORT_FEATURES", HighFeature},
                 CommonErrors \cup {"INVALID_PORT_NO", "INVALID_PORT_CONFIG", "INVALID_PORT_MASK",
                                    "INVALID_PORT_FEATURES"})
  <1> DEFINE h == Exactly(b, "PORT_MOD", 32)
             p == validate_phy_port_no(b, 10)
             odd == b.port \in {"virtual", "all", "none"}
             high == b.fault \in {"INVALID_PORT_FEATURES", HighFeature}
             t1 == Test(10, "INVALID_PORT_NO", odd)
             t2 == Field(b, 20, "INVALID_PORT_CONFIG")
             t3 == Field(b, 24, "INVALID_PORT_MASK")
             t4 == Test(28, "INVALID_PORT_FEATURES", high)
             T == {t1, t2, t3, t4}
             f == << t1, t2, t3, t4 >>
  <1>0. b.length \in Nat /\ odd \in BOOLEAN /\ high \in BOOLEAN
    BY DEF Buffers
  <1>1. /\ h \in Seq(Tests)
        /\ Result(b, h) = "ACCEPTED" <=> HeaderOK(b, "PORT_MOD", 32, 32)
        /\ Result(b, h) \in {"ACCEPTED"} \cup CommonErrors
    <2>1. "PORT_MOD" \in Types /\ 32 \in Nat
      BY DEF Types
    <2>2. QED
      BY <2>1, ExactlyResult, Zenon
  <1>2. /\ p \in Seq(Tests)
        /\ 10 <= b.length => Result(b, p) = IF PortOK(b) THEN "ACCEPTED" ELSE "INVALID_PORT_NO"
    BY PhyPortNoResult DEF PortOK
  <1>3. /\ t1 \in Tests /\ t1.upto = 10 /\ t1.error = "INVALID_PORT_NO" /\ (t1.fails <=> odd)
        /\ t2 \in Tests /\ t2.upto = 20 /\ t2.error = "INVALID_PORT_CONFIG"
        /\ (t2.fails <=> b.fault = "INVALID_PORT_CONFIG")
        /\ t3 \in Tests /\ t3.upto = 24 /\ t3.error = "INVALID_PORT_MASK"
        /\ (t3.fails <=> b.fault = "INVALID_PORT_MASK")
        /\ t4 \in Tests /\ t4.upto = 28 /\ t4.error = "INVALID_PORT_FEATURES" /\ (t4.fails <=> high)
    <2> HIDE DEF odd, high
    <2>1. QED
      BY <1>0 DEF Tests, Test, Field, Errors
  <1>4. validate_port_mod(b) = (h \o p) \o f
    BY DEF validate_port_mod, ofp_port_mod
  <1>5. f \in Seq(Tests) /\ Len(f) = 4 /\ f[1] = t1 /\ f[2] = t2 /\ f[3] = t3 /\ f[4] = t4
    <2> HIDE DEF t1, t2, t3, t4
    <2>1. QED
      BY <1>3
  <1> HIDE DEF h, p, t1, t2, t3, t4, f
  <1>6. ASSUME 28 <= b.length
        PROVE  /\ Result(b, f) = "ACCEPTED" <=> ~t1.fails /\ ~t2.fails /\ ~t3.fails /\ ~t4.fails
               /\ Result(b, f) \in {"ACCEPTED", "INVALID_PORT_NO", "INVALID_PORT_CONFIG",
                                    "INVALID_PORT_MASK", "INVALID_PORT_FEATURES"}
    <2>1. \A i \in 1 .. Len(f) : i = 1 \/ i = 2 \/ i = 3 \/ i = 4
      BY <1>5
    <2>2. 1 \in 1 .. Len(f) /\ 2 \in 1 .. Len(f) /\ 3 \in 1 .. Len(f) /\ 4 \in 1 .. Len(f)
      BY <1>5
    <2>3. \A i \in 1 .. Len(f) : f[i].upto <= b.length
      BY <1>0, <1>3, <1>5, <1>6, <2>1
    <2>4. /\ Result(b, f) = "ACCEPTED" <=> \A i \in 1 .. Len(f) : ~f[i].fails
          /\ Result(b, f) # "ACCEPTED" =>
               \E i \in 1 .. Len(f) : f[i].fails /\ Result(b, f) = f[i].error
      BY <1>5, <2>3, InsideResult
    <2>5. (\A i \in 1 .. Len(f) : ~f[i].fails) <=> ~t1.fails /\ ~t2.fails /\ ~t3.fails /\ ~t4.fails
      BY <1>5, <2>1, <2>2, Zenon
    <2>6. \A i \in 1 .. Len(f) : f[i].error \in {"INVALID_PORT_NO", "INVALID_PORT_CONFIG",
                                                "INVALID_PORT_MASK", "INVALID_PORT_FEATURES"}
      BY <1>3, <1>5, <2>1
    <2>7. QED
      BY <2>4, <2>5, <2>6
  <1>7. Result(b, (h \o p) \o f) =
          IF Result(b, h) # "ACCEPTED" THEN Result(b, h)
          ELSE IF Result(b, p) # "ACCEPTED" THEN Result(b, p) ELSE Result(b, f)
    BY <1>1, <1>2, <1>5, ResultOfThree
  <1>8. HeaderOK(b, "PORT_MOD", 32, 32) => 10 <= b.length /\ 28 <= b.length
    BY <1>0 DEF HeaderOK
  <1>9. ~t1.fails /\ ~t2.fails /\ ~t3.fails /\ ~t4.fails <=>
          /\ b.port \notin {"virtual", "all", "none"}
          /\ b.fault \notin {"INVALID_PORT_CONFIG", "INVALID_PORT_MASK",
                             "INVALID_PORT_FEATURES", HighFeature}
    BY <1>3
  <1>10. QED
    BY <1>1, <1>2, <1>4, <1>6, <1>7, <1>8, <1>9 DEF Decides

LEMMA QueueConfigRequestDecides ==
  ASSUME NEW b \in Buffers, b.length >= 8
  PROVE  Decides(b, validate_queue_get_config_request(b),
                 HeaderOK(b, "QUEUE_GET_CONFIG_REQUEST", 12, 12) /\ PortOK(b),
                 CommonErrors \cup {"INVALID_PORT_NO"})
  <1> DEFINE h == Exactly(b, "QUEUE_GET_CONFIG_REQUEST", 12)
             p == validate_phy_port_no(b, 10)
  <1>1. /\ h \in Seq(Tests)
        /\ Result(b, h) = "ACCEPTED" <=> HeaderOK(b, "QUEUE_GET_CONFIG_REQUEST", 12, 12)
        /\ Result(b, h) \in {"ACCEPTED"} \cup CommonErrors
    <2>1. "QUEUE_GET_CONFIG_REQUEST" \in Types /\ 12 \in Nat
      BY DEF Types
    <2>2. QED
      BY <2>1, ExactlyResult, Zenon
  <1>2. /\ p \in Seq(Tests)
        /\ 10 <= b.length => Result(b, p) = IF PortOK(b) THEN "ACCEPTED" ELSE "INVALID_PORT_NO"
    BY PhyPortNoResult DEF PortOK
  <1>3. validate_queue_get_config_request(b) = h \o p
    BY DEF validate_queue_get_config_request, ofp_queue_get_config_request
  <1> HIDE DEF h, p
  <1>4. Result(b, h \o p) = IF Result(b, h) = "ACCEPTED" THEN Result(b, p) ELSE Result(b, h)
    BY <1>1, <1>2, ResultOfParts
  <1>5. HeaderOK(b, "QUEUE_GET_CONFIG_REQUEST", 12, 12) => 10 <= b.length
    BY DEF HeaderOK, Buffers
  <1>6. QED
    BY <1>1, <1>2, <1>3, <1>4, <1>5 DEF Decides

LEMMA QueueConfigReplyDecides ==
  ASSUME NEW b \in Buffers, b.length >= 8
  PROVE  Decides(b, validate_queue_get_config_reply(b),
                 /\ HeaderOK(b, "QUEUE_GET_CONFIG_REPLY", 24, USHRT_MAX)
                 /\ PortOK(b) /\ b.fault \notin QueueErrors,
                 Errors)
  <1> DEFINE h == AtLeast(b, "QUEUE_GET_CONFIG_REPLY", 24)
             p == validate_phy_port_no(b, 10)
             bad == b.fault \in QueueErrors
             q == << Test(16, b.fault, bad) >>
  <1>0. b.length \in Nat /\ b.fault \in Errors /\ b.fault # "ACCEPTED" /\ bad \in BOOLEAN
    BY ErrorsAreNoResults DEF Buffers
  <1>1. /\ h \in Seq(Tests)
        /\ Result(b, h) = "ACCEPTED" <=> HeaderOK(b, "QUEUE_GET_CONFIG_REPLY", 24, USHRT_MAX)
        /\ Result(b, h) \in {"ACCEPTED"} \cup CommonErrors
    <2>1. "QUEUE_GET_CONFIG_REPLY" \in Types /\ 24 \in Nat
      BY DEF Types
    <2>2. QED
      BY <2>1, AtLeastResult, Zenon
  <1>2. /\ p \in Seq(Tests)
        /\ 10 <= b.length => Result(b, p) = IF PortOK(b) THEN "ACCEPTED" ELSE "INVALID_PORT_NO"
    BY PhyPortNoResult DEF PortOK
  <1>3. validate_queue_get_config_reply(b) = (h \o p) \o q
    BY DEF validate_queue_get_config_reply, ofp_queue_get_config_reply, ofp_packet_queue
  <1>4. /\ q \in Seq(Tests)
        /\ 16 <= b.length => Result(b, q) = IF bad THEN b.fault ELSE "ACCEPTED"
    <2> HIDE DEF bad
    <2>1. QED
      BY <1>0, OneTest
  <1> HIDE DEF h, p, q
  <1>5. Result(b, (h \o p) \o q) =
          IF Result(b, h) # "ACCEPTED" THEN Result(b, h)
          ELSE IF Result(b, p) # "ACCEPTED" THEN Result(b, p) ELSE Result(b, q)
    BY <1>1, <1>2, <1>4, ResultOfThree
  <1>6. HeaderOK(b, "QUEUE_GET_CONFIG_REPLY", 24, USHRT_MAX) => 10 <= b.length /\ 16 <= b.length
    BY <1>0 DEF HeaderOK
  <1>7. CommonErrors \subseteq Errors /\ "INVALID_PORT_NO" \in Errors
    BY DEF CommonErrors, Errors
  <1>8. QED
    BY <1>0, <1>1, <1>2, <1>3, <1>4, <1>5, <1>6, <1>7 DEF Decides

-----------------------------------------------------------------------------
(* Statistics.                                                             *)

\* The first tests of a request, of one of a fixed size and of any.
RequestOK(b, stats, min_length, max_length) ==
  /\ HeaderOK(b, "STATS_REQUEST", min_length, max_length)
  /\ b.stats = stats /\ b.fault # "INVALID_STATS_REQUEST_FLAGS"

RequestErrors == CommonErrors \cup {"INVALID_STATS_TYPE", "INVALID_STATS_REQUEST_FLAGS"}

LEMMA RequestResult ==
  ASSUME NEW b \in Buffers, b.length >= 8, NEW stats \in StatsTypes,
         NEW min_length \in Nat, min_length >= 12, NEW max_length \in Nat,
         NEW h, h = validate_header(b, "STATS_REQUEST", min_length, max_length)
  PROVE  /\ StatsRequest(b, stats, h) \in Seq(Tests)
         /\ Result(b, StatsRequest(b, stats, h)) = "ACCEPTED" <=>
              RequestOK(b, stats, min_length, max_length)
         /\ Result(b, StatsRequest(b, stats, h)) \in {"ACCEPTED"} \cup RequestErrors
  <1> DEFINE other == b.stats # stats
             t1 == Test(10, "INVALID_STATS_TYPE", other)
             t2 == Field(b, 12, "INVALID_STATS_REQUEST_FLAGS")
             f == << t1, t2 >>
  <1>1. /\ h \in Seq(Tests)
        /\ Result(b, h) = "ACCEPTED" <=> HeaderOK(b, "STATS_REQUEST", min_length, max_length)
        /\ Result(b, h) \in {"ACCEPTED"} \cup CommonErrors
    <2>1. "STATS_REQUEST" \in Types
      BY DEF Types
    <2>2. QED
      BY <2>1, HeaderResult, Zenon
  <1>2. /\ << t1 >> \in Seq(Tests)
        /\ 10 <= b.length => Result(b, << t1 >>) = IF other THEN "INVALID_STATS_TYPE" ELSE "ACCEPTED"
    <2>1. other \in BOOLEAN /\ "INVALID_STATS_TYPE" \in Errors
      BY DEF Errors
    <2> HIDE DEF other
    <2>2. QED
      BY <2>1, OneTest
  <1>3. /\ << t2 >> \in Seq(Tests)
        /\ 12 <= b.length =>
             Result(b, << t2 >>) = IF b.fault = "INVALID_STATS_REQUEST_FLAGS"
                                   THEN "INVALID_STATS_REQUEST_FLAGS" ELSE "ACCEPTED"
    <2>1. "INVALID_STATS_REQUEST_FLAGS" \in Errors /\ 12 \in Nat
      BY DEF Errors
    <2>2. QED
      BY <2>1, FieldResult
  <1>4. StatsRequest(b, stats, h) = h \o f
    BY DEF StatsRequest
  <1> HIDE DEF t1, t2
  <1>5. /\ f \in Seq(Tests)
        /\ Result(b, f) = IF Result(b, << t1 >>) = "ACCEPTED" THEN Result(b, << t2 >>) ELSE Result(b, << t1 >>)
    BY <1>2, <1>3, TwoTests
  <1> HIDE DEF f
  <1>6. /\ h \o f \in Seq(Tests)
        /\ Result(b, h \o f) = IF Result(b, h) = "ACCEPTED" THEN Result(b, f) ELSE Result(b, h)
    BY <1>1, <1>5, ResultOfParts
  <1>7. HeaderOK(b, "STATS_REQUEST", min_length, max_length) => 10 <= b.length /\ 12 <= b.length
    BY DEF HeaderOK, Buffers
  <1>8. QED
    BY <1>1, <1>2, <1>3, <1>4, <1>5, <1>6, <1>7 DEF RequestOK, RequestErrors

\* A request of n bytes.
LEMMA FixedRequest ==
  ASSUME NEW b \in Buffers, b.length >= 8, NEW stats \in StatsTypes, NEW n \in Nat, n >= 12
  PROVE  LET s == StatsRequest(b, stats, Exactly(b, "STATS_REQUEST", n)) IN
         /\ s \in Seq(Tests)
         /\ Result(b, s) = "ACCEPTED" <=> RequestOK(b, stats, n, n)
         /\ Result(b, s) \in {"ACCEPTED"} \cup RequestErrors
  BY RequestResult DEF Exactly

\* What validate_stats_request accepts.
StatsRequestOK(b) ==
  \/ b.stats \in {"DESC", "TABLE"} /\ RequestOK(b, b.stats, 12, 12)
  \/ /\ b.stats \in {"FLOW", "AGGREGATE"} /\ RequestOK(b, b.stats, 56, 56)
     /\ b.fault \notin MatchFaults /\ PortOK(b)
  \/ b.stats = "PORT" /\ RequestOK(b, "PORT", 20, 20) /\ PortOK(b) /\ b.port \notin {"virtual", "all"}
  \/ b.stats = "QUEUE" /\ RequestOK(b, "QUEUE", 20, 20) /\ PortOK(b)
  \/ b.stats = "VENDOR" /\ RequestOK(b, "VENDOR", 16, USHRT_MAX)

StatsRequestErrors ==
  RequestErrors \cup MatchFaults \cup {"INVALID_PORT_NO", "UNSUPPORTED_STATS_TYPE"}

\* The tests of each kind of statistics.
LEMMA EachRequestDecides ==
  ASSUME NEW b \in Buffers, b.length >= 8
  PROVE  /\ LET s == validate_desc_stats_request(b) IN
              s \in Seq(Tests) /\ Decides(b, s, RequestOK(b, "DESC", 12, 12), StatsRequestErrors)
         /\ LET s == validate_table_stats_request(b) IN
              s \in Seq(Tests) /\ Decides(b, s, RequestOK(b, "TABLE", 12, 12), StatsRequestErrors)
         /\ LET s == validate_flow_stats_request(b) IN
              /\ s \in Seq(Tests)
              /\ Decides(b, s, RequestOK(b, "FLOW", 56, 56) /\ b.fault \notin MatchFaults /\ PortOK(b),
                         StatsRequestErrors)
         /\ LET s == validate_aggregate_stats_request(b) IN
              /\ s \in Seq(Tests)
              /\ Decides(b, s, RequestOK(b, "AGGREGATE", 56, 56) /\ b.fault \notin MatchFaults /\ PortOK(b),
                         StatsRequestErrors)
         /\ LET s == validate_port_stats_request(b) IN
              /\ s \in Seq(Tests)
              /\ Decides(b, s, RequestOK(b, "PORT", 20, 20) /\ PortOK(b) /\ b.port \notin {"virtual", "all"},
                         StatsRequestErrors)
         /\ LET s == validate_queue_stats_request(b) IN
              /\ s \in Seq(Tests)
              /\ Decides(b, s, RequestOK(b, "QUEUE", 20, 20) /\ PortOK(b), StatsRequestErrors)
         /\ LET s == validate_vendor_stats_request(b) IN
              /\ s \in Seq(Tests)
              /\ Decides(b, s, RequestOK(b, "VENDOR", 16, USHRT_MAX), StatsRequestErrors)
  <1>0. /\ "DESC" \in StatsTypes /\ "TABLE" \in StatsTypes /\ "FLOW" \in StatsTypes
        /\ "AGGREGATE" \in StatsTypes /\ "PORT" \in StatsTypes /\ "QUEUE" \in StatsTypes
        /\ "VENDOR" \in StatsTypes
    BY DEF StatsTypes
  <1>1. b.length \in Nat /\ b.fault # "ACCEPTED"
    BY ErrorsAreNoResults DEF Buffers
  <1>2. ASSUME NEW stats \in StatsTypes
        PROVE  LET s == StatsRequest(b, stats, Exactly(b, "STATS_REQUEST", 12)) IN
               s \in Seq(Tests) /\ Decides(b, s, RequestOK(b, stats, 12, 12), StatsRequestErrors)
    BY FixedRequest DEF Decides, StatsRequestErrors
  <1>3. ASSUME NEW stats \in StatsTypes
        PROVE  LET s == (StatsRequest(b, stats, Exactly(b, "STATS_REQUEST", 56))
                           \o validate_match(b, 52)) \o validate_phy_port_no(b, 56) IN
               /\ s \in Seq(Tests)
               /\ Decides(b, s, RequestOK(b, stats, 56, 56) /\ b.fault \notin MatchFaults /\ PortOK(b),
                          StatsRequestErrors)
    <2> DEFINE r == StatsRequest(b, stats, Exactly(b, "STATS_REQUEST", 56))
               m == validate_match(b, 52)
               p == validate_phy_port_no(b, 56)
    <2>1. /\ r \in Seq(Tests)
          /\ Result(b, r) = "ACCEPTED" <=> RequestOK(b, stats, 56, 56)
          /\ Result(b, r) \in {"ACCEPTED"} \cup RequestErrors
      BY FixedRequest
    <2>2. /\ m \in Seq(Tests)
          /\ 52 <= b.length => Result(b, m) = IF b.fault \in MatchFaults THEN b.fault ELSE "ACCEPTED"
      BY MatchResult
    <2>3. /\ p \in Seq(Tests)
          /\ 56 <= b.length => Result(b, p) = IF PortOK(b) THEN "ACCEPTED" ELSE "INVALID_PORT_NO"
      BY PhyPortNoResult DEF PortOK
    <2> HIDE DEF r, m, p
    <2>4. /\ (r \o m) \o p \in Seq(Tests)
          /\ Result(b, (r \o m) \o p) =
               IF Result(b, r) # "ACCEPTED" THEN Result(b, r)
               ELSE IF Result(b, m) # "ACCEPTED" THEN Result(b, m) ELSE Result(b, p)
      BY <2>1, <2>2, <2>3, ResultOfThree
    <2>5. RequestOK(b, stats, 56, 56) => 52 <= b.length /\ 56 <= b.length
      BY <1>1 DEF RequestOK, HeaderOK
    <2>6. Decides(b, (r \o m) \o p, RequestOK(b, stats, 56, 56) /\ b.fault \notin MatchFaults /\ PortOK(b),
                  StatsRequestErrors)
      BY <1>1, <2>1, <2>2, <2>3, <2>4, <2>5 DEF Decides, StatsRequestErrors
    <2>7. QED
      BY <2>4, <2>6 DEF r, m, p
  <1>4. ASSUME NEW stats \in StatsTypes
        PROVE  LET s == StatsRequest(b, stats, Exactly(b, "STATS_REQUEST", 20))
                          \o validate_phy_port_no(b, 14) IN
               /\ s \in Seq(Tests)
               /\ Decides(b, s, RequestOK(b, stats, 20, 20) /\ PortOK(b), StatsRequestErrors)
    <2> DEFINE r == StatsRequest(b, stats, Exactly(b, "STATS_REQUEST", 20))
               p == validate_phy_port_no(b, 14)
    <2>1. /\ r \in Seq(Tests)
          /\ Result(b, r) = "ACCEPTED" <=> RequestOK(b, stats, 20, 20)
          /\ Result(b, r) \in {"ACCEPTED"} \cup RequestErrors
      BY FixedRequest
    <2>2. /\ p \in Seq(Tests)
          /\ 14 <= b.length => Result(b, p) = IF PortOK(b) THEN "ACCEPTED" ELSE "INVALID_PORT_NO"
      BY PhyPortNoResult DEF PortOK
    <2> HIDE DEF r, p
    <2>3. /\ r \o p \in Seq(Tests)
          /\ Result(b, r \o p) = IF Result(b, r) = "ACCEPTED" THEN Result(b, p) ELSE Result(b, r)
      BY <2>1, <2>2, ResultOfParts
    <2>4. RequestOK(b, stats, 20, 20) => 14 <= b.length
      BY <1>1 DEF RequestOK, HeaderOK
    <2>5. Decides(b, r \o p, RequestOK(b, stats, 20, 20) /\ PortOK(b), StatsRequestErrors)
      BY <1>1, <2>1, <2>2, <2>3, <2>4 DEF Decides, StatsRequestErrors
    <2>6. QED
      BY <2>3, <2>5 DEF r, p
  <1>5. LET s == validate_port_stats_request(b) IN
        /\ s \in Seq(Tests)
        /\ Decides(b, s, RequestOK(b, "PORT", 20, 20) /\ PortOK(b) /\ b.port \notin {"virtual", "all"},
                   StatsRequestErrors)
    <2> DEFINE r == StatsRequest(b, "PORT", Exactly(b, "STATS_REQUEST", 20))
                      \o validate_phy_port_no(b, 14)
               virtual == b.port \in {"virtual", "all"}
               v == << Test(14, "INVALID_PORT_NO", virtual) >>
    <2>1. /\ r \in Seq(Tests)
          /\ Decides(b, r, RequestOK(b, "PORT", 20, 20) /\ PortOK(b), StatsRequestErrors)
      BY <1>0, <1>4
    <2>2. /\ v \in Seq(Tests)
          /\ 14 <= b.length => Result(b, v) = IF virtual THEN "INVALID_PORT_NO" ELSE "ACCEPTED"
      <3>1. virtual \in BOOLEAN /\ "INVALID_PORT_NO" \in Errors
        BY DEF Errors
      <3> HIDE DEF virtual
      <3>2. QED
        BY <3>1, OneTest
    <2>3. validate_port_stats_request(b) = r \o v
      BY DEF validate_port_stats_request, ofp_stats_request, ofp_port_stats_request
    <2> HIDE DEF r, v
    <2>4. /\ r \o v \in Seq(Tests)
          /\ Result(b, r \o v) = IF Result(b, r) = "ACCEPTED" THEN Result(b, v) ELSE Result(b, r)
      BY <2>1, <2>2, ResultOfParts
    <2>5. RequestOK(b, "PORT", 20, 20) => 14 <= b.length
      BY <1>1 DEF RequestOK, HeaderOK
    <2>6. QED
      BY <2>1, <2>2, <2>3, <2>4, <2>5 DEF Decides, StatsRequestErrors
  <1>6. LET s == validate_vendor_stats_request(b) IN
        s \in Seq(Tests) /\ Decides(b, s, RequestOK(b, "VENDOR", 16, USHRT_MAX), StatsRequestErrors)
    <2> DEFINE h == validate_header(b, "STATS_REQUEST", 16, USHRT_MAX)
    <2>1. USHRT_MAX \in Nat /\ 16 \in Nat /\ 16 >= 12
      BY DEF USHRT_MAX
    <2>2. validate_vendor_stats_request(b) = StatsRequest(b, "VENDOR", h)
      BY DEF validate_vendor_stats_request, AtLeast, ofp_stats_request, vendor_id
    <2> HIDE DEF h
    <2>3. /\ StatsRequest(b, "VENDOR", h) \in Seq(Tests)
          /\ Result(b, StatsRequest(b, "VENDOR", h)) = "ACCEPTED" <=>
               RequestOK(b, "VENDOR", 16, USHRT_MAX)
          /\ Result(b, StatsRequest(b, "VENDOR", h)) \in {"ACCEPTED"} \cup RequestErrors
      BY <1>0, <2>1, RequestResult, Zenon DEF h
    <2>4. QED
      BY <2>2, <2>3 DEF Decides, StatsRequestErrors
  <1>7. /\ validate_desc_stats_request(b) = StatsRequest(b, "DESC", Exactly(b, "STATS_REQUEST", 12))
        /\ validate_table_stats_request(b) = StatsRequest(b, "TABLE", Exactly(b, "STATS_REQUEST", 12))
    BY DEF validate_desc_stats_request, validate_table_stats_request, ofp_stats_request
  <1>8. /\ validate_flow_stats_request(b) =
             (StatsRequest(b, "FLOW", Exactly(b, "STATS_REQUEST", 56))
                \o validate_match(b, 52)) \o validate_phy_port_no(b, 56)
        /\ validate_aggregate_stats_request(b) =
             (StatsRequest(b, "AGGREGATE", Exactly(b, "STATS_REQUEST", 56))
                \o validate_match(b, 52)) \o validate_phy_port_no(b, 56)
    BY DEF validate_flow_stats_request, validate_aggregate_stats_request, ofp_stats_request,
           ofp_flow_stats_request, ofp_aggregate_stats_request
  <1>9. validate_queue_stats_request(b) =
          StatsRequest(b, "QUEUE", Exactly(b, "STATS_REQUEST", 20)) \o validate_phy_port_no(b, 14)
    BY DEF validate_queue_stats_request, ofp_stats_request, ofp_queue_stats_request
  <1>10. /\ LET s == validate_desc_stats_request(b) IN
              s \in Seq(Tests) /\ Decides(b, s, RequestOK(b, "DESC", 12, 12), StatsRequestErrors)
         /\ LET s == validate_table_stats_request(b) IN
              s \in Seq(Tests) /\ Decides(b, s, RequestOK(b, "TABLE", 12, 12), StatsRequestErrors)
    BY <1>0, <1>2, <1>7
  <1>11. /\ LET s == validate_flow_stats_request(b) IN
              /\ s \in Seq(Tests)
              /\ Decides(b, s, RequestOK(b, "FLOW", 56, 56) /\ b.fault \notin MatchFaults /\ PortOK(b),
                         StatsRequestErrors)
         /\ LET s == validate_aggregate_stats_request(b) IN
              /\ s \in Seq(Tests)
              /\ Decides(b, s, RequestOK(b, "AGGREGATE", 56, 56) /\ b.fault \notin MatchFaults /\ PortOK(b),
                         StatsRequestErrors)
    BY <1>0, <1>3, <1>8
  <1>12. LET s == validate_queue_stats_request(b) IN
         /\ s \in Seq(Tests)
         /\ Decides(b, s, RequestOK(b, "QUEUE", 20, 20) /\ PortOK(b), StatsRequestErrors)
    BY <1>0, <1>4, <1>9
  <1>13. QED
    BY <1>5, <1>6, <1>10, <1>11, <1>12

LEMMA StatsTypeResult ==
  ASSUME NEW b \in Buffers
  PROVE  /\ StatsType(b) \in Seq(Tests)
         /\ b.length >= 10 =>
              Result(b, StatsType(b)) = IF b.stats \in StatsTypes THEN "ACCEPTED" ELSE "UNSUPPORTED_STATS_TYPE"
         /\ b.length < 10 => Result(b, StatsType(b)) = "OUTSIDE"
  <1> DEFINE fails == b.stats \notin StatsTypes
  <1>1. /\ fails \in BOOLEAN /\ "UNSUPPORTED_STATS_TYPE" \in Errors
        /\ b.length \in Nat
    BY DEF Errors, Buffers
  <1>2. StatsType(b) = << Test(10, "UNSUPPORTED_STATS_TYPE", fails) >>
    BY DEF StatsType
  <1>3. LET s == << Test(10, "UNSUPPORTED_STATS_TYPE", fails) >> IN
        /\ s \in Seq(Tests)
        /\ 10 <= b.length => Result(b, s) = IF fails THEN "UNSUPPORTED_STATS_TYPE" ELSE "ACCEPTED"
        /\ 10 > b.length => Result(b, s) = "OUTSIDE"
    <2> HIDE DEF fails
    <2>1. QED
      BY <1>1, OneTest
  <1>4. QED
    BY <1>1, <1>2, <1>3

\* The type of the statistics, and the check of that type.
LEMMA ResultOfStats ==
  ASSUME NEW b \in Buffers, NEW s \in Seq(Tests)
  PROVE  /\ b.length >= 10 =>
              Result(b, StatsType(b) \o s) =
                IF b.stats \in StatsTypes THEN Result(b, s) ELSE "UNSUPPORTED_STATS_TYPE"
         /\ b.length < 10 => Result(b, StatsType(b) \o s) = "OUTSIDE"
  <1> DEFINE t == StatsType(b)
  <1>1. /\ t \in Seq(Tests)
        /\ b.length >= 10 =>
             Result(b, t) = IF b.stats \in StatsTypes THEN "ACCEPTED" ELSE "UNSUPPORTED_STATS_TYPE"
        /\ b.length < 10 => Result(b, t) = "OUTSIDE"
    BY StatsTypeResult
  <1> HIDE DEF t
  <1>2. Result(b, t \o s) = IF Result(b, t) = "ACCEPTED" THEN Result(b, s) ELSE Result(b, t)
    BY <1>1, ResultOfParts
  <1>3. QED
    BY <1>1, <1>2 DEF t

LEMMA StatsRequestDecides ==
  ASSUME NEW b \in Buffers, b.length >= 8
  PROVE  /\ b.length >= 10 =>
              Decides(b, validate_stats_request(b), StatsRequestOK(b), StatsRequestErrors)
         /\ b.length < 10 => Result(b, validate_stats_request(b)) = "OUTSIDE"
  <1>1. ASSUME NEW s \in Seq(Tests), validate_stats_request(b) = StatsType(b) \o s,
               b.stats \in StatsTypes => Decides(b, s, StatsRequestOK(b), StatsRequestErrors)
        PROVE  /\ b.length >= 10 =>
                    Decides(b, validate_stats_request(b), StatsRequestOK(b), StatsRequestErrors)
               /\ b.length < 10 => Result(b, validate_stats_request(b)) = "OUTSIDE"
    <2>1. /\ b.length >= 10 =>
               Result(b, StatsType(b) \o s) =
                 IF b.stats \in StatsTypes THEN Result(b, s) ELSE "UNSUPPORTED_STATS_TYPE"
          /\ b.length < 10 => Result(b, StatsType(b) \o s) = "OUTSIDE"
      BY ResultOfStats
    <2>2. b.stats \notin StatsTypes => ~StatsRequestOK(b)
      BY DEF StatsRequestOK, StatsTypes
    <2>3. QED
      BY <1>1, <2>1, <2>2 DEF Decides, StatsRequestErrors
  <1>2. CASE b.stats = "DESC"
    <2>1. validate_stats_request(b) = StatsType(b) \o validate_desc_stats_request(b)
      BY <1>2 DEF validate_stats_request
    <2>2. StatsRequestOK(b) <=> RequestOK(b, "DESC", 12, 12)
      BY <1>2 DEF StatsRequestOK
    <2>3. /\ validate_desc_stats_request(b) \in Seq(Tests)
          /\ Decides(b, validate_desc_stats_request(b), StatsRequestOK(b), StatsRequestErrors)
      BY <2>2, EachRequestDecides DEF Decides
    <2>4. QED
      BY <1>1, <2>1, <2>3
  <1>3. CASE b.stats = "TABLE"
    <2>1. validate_stats_request(b) = StatsType(b) \o validate_table_stats_request(b)
      BY <1>3 DEF validate_stats_request
    <2>2. StatsRequestOK(b) <=> RequestOK(b, "TABLE", 12, 12)
      BY <1>3 DEF StatsRequestOK
    <2>3. /\ validate_table_stats_request(b) \in Seq(Tests)
          /\ Decides(b, validate_table_stats_request(b), StatsRequestOK(b), StatsRequestErrors)
      BY <2>2, EachRequestDecides DEF Decides
    <2>4. QED
      BY <1>1, <2>1, <2>3
  <1>4. CASE b.stats = "FLOW"
    <2>1. validate_stats_request(b) = StatsType(b) \o validate_flow_stats_request(b)
      BY <1>4 DEF validate_stats_request
    <2>2. StatsRequestOK(b) <=>
            RequestOK(b, "FLOW", 56, 56) /\ b.fault \notin MatchFaults /\ PortOK(b)
      BY <1>4 DEF StatsRequestOK
    <2>3. /\ validate_flow_stats_request(b) \in Seq(Tests)
          /\ Decides(b, validate_flow_stats_request(b), StatsRequestOK(b), StatsRequestErrors)
      BY <2>2, EachRequestDecides DEF Decides
    <2>4. QED
      BY <1>1, <2>1, <2>3
  <1>5. CASE b.stats = "AGGREGATE"
    <2>1. validate_stats_request(b) = StatsType(b) \o validate_aggregate_stats_request(b)
      BY <1>5 DEF validate_stats_request
    <2>2. StatsRequestOK(b) <=>
            RequestOK(b, "AGGREGATE", 56, 56) /\ b.fault \notin MatchFaults /\ PortOK(b)
      BY <1>5 DEF StatsRequestOK
    <2>3. /\ validate_aggregate_stats_request(b) \in Seq(Tests)
          /\ Decides(b, validate_aggregate_stats_request(b), StatsRequestOK(b), StatsRequestErrors)
      BY <2>2, EachRequestDecides DEF Decides
    <2>4. QED
      BY <1>1, <2>1, <2>3
  <1>6. CASE b.stats = "PORT"
    <2>1. validate_stats_request(b) = StatsType(b) \o validate_port_stats_request(b)
      BY <1>6 DEF validate_stats_request
    <2>2. StatsRequestOK(b) <=> RequestOK(b, "PORT", 20, 20) /\ PortOK(b) /\ b.port \notin {"virtual", "all"}
      BY <1>6 DEF StatsRequestOK
    <2>3. /\ validate_port_stats_request(b) \in Seq(Tests)
          /\ Decides(b, validate_port_stats_request(b), StatsRequestOK(b), StatsRequestErrors)
      BY <2>2, EachRequestDecides DEF Decides
    <2>4. QED
      BY <1>1, <2>1, <2>3
  <1>7. CASE b.stats = "QUEUE"
    <2>1. validate_stats_request(b) = StatsType(b) \o validate_queue_stats_request(b)
      BY <1>7 DEF validate_stats_request
    <2>2. StatsRequestOK(b) <=> RequestOK(b, "QUEUE", 20, 20) /\ PortOK(b)
      BY <1>7 DEF StatsRequestOK
    <2>3. /\ validate_queue_stats_request(b) \in Seq(Tests)
          /\ Decides(b, validate_queue_stats_request(b), StatsRequestOK(b), StatsRequestErrors)
      BY <2>2, EachRequestDecides DEF Decides
    <2>4. QED
      BY <1>1, <2>1, <2>3
  <1>8. CASE b.stats = "VENDOR"
    <2>1. validate_stats_request(b) = StatsType(b) \o validate_vendor_stats_request(b)
      BY <1>8 DEF validate_stats_request
    <2>2. StatsRequestOK(b) <=> RequestOK(b, "VENDOR", 16, USHRT_MAX)
      BY <1>8 DEF StatsRequestOK
    <2>3. /\ validate_vendor_stats_request(b) \in Seq(Tests)
          /\ Decides(b, validate_vendor_stats_request(b), StatsRequestOK(b), StatsRequestErrors)
      BY <2>2, EachRequestDecides DEF Decides
    <2>4. QED
      BY <1>1, <2>1, <2>3
  <1>9. CASE b.stats = "UNDEFINED"
    <2>1. validate_stats_request(b) = StatsType(b) \o <<>> /\ b.stats \notin StatsTypes
      BY <1>9 DEF validate_stats_request, StatsTypes
    <2>2. <<>> \in Seq(Tests)
      BY NoTests
    <2>3. QED
      BY <1>1, <2>1, <2>2
  <1>10. QED
    BY <1>2, <1>3, <1>4, <1>5, <1>6, <1>7, <1>8, <1>9 DEF Buffers, StatsTypes

\* The first tests of a reply.
ReplyOK(b, max_length) ==
  HeaderOK(b, "STATS_REPLY", 12, max_length) /\ b.fault # "INVALID_STATS_REPLY_FLAGS"

LEMMA ReplyResult ==
  ASSUME NEW b \in Buffers, b.length >= 8, NEW max_length \in Nat
  PROVE  /\ StatsReply(b, max_length) \in Seq(Tests)
         /\ Result(b, StatsReply(b, max_length)) = "ACCEPTED" <=> ReplyOK(b, max_length)
         /\ Result(b, StatsReply(b, max_length)) \in {"ACCEPTED"} \cup Errors
  <1> DEFINE h == validate_header(b, "STATS_REPLY", 12, max_length)
             f == << Field(b, 12, "INVALID_STATS_REPLY_FLAGS") >>
  <1>1. /\ h \in Seq(Tests)
        /\ Result(b, h) = "ACCEPTED" <=> HeaderOK(b, "STATS_REPLY", 12, max_length)
        /\ Result(b, h) \in {"ACCEPTED"} \cup CommonErrors
    <2>1. "STATS_REPLY" \in Types /\ 12 \in Nat
      BY DEF Types
    <2>2. QED
      BY <2>1, HeaderResult, Zenon
  <1>2. /\ f \in Seq(Tests)
        /\ 12 <= b.length =>
             Result(b, f) = IF b.fault = "INVALID_STATS_REPLY_FLAGS" THEN "INVALID_STATS_REPLY_FLAGS"
                            ELSE "ACCEPTED"
    <2>1. "INVALID_STATS_REPLY_FLAGS" \in Errors /\ 12 \in Nat
      BY DEF Errors
    <2>2. QED
      BY <2>1, FieldResult
  <1>3. StatsReply(b, max_length) = h \o f
    BY DEF StatsReply, ofp_stats_reply
  <1> HIDE DEF h, f
  <1>4. /\ h \o f \in Seq(Tests)
        /\ Result(b, h \o f) = IF Result(b, h) = "ACCEPTED" THEN Result(b, f) ELSE Result(b, h)
    BY <1>1, <1>2, ResultOfParts
  <1>5. HeaderOK(b, "STATS_REPLY", 12, max_length) => 12 <= b.length
    BY DEF HeaderOK
  <1>6. CommonErrors \subseteq Errors /\ "INVALID_STATS_REPLY_FLAGS" \in Errors
    BY DEF CommonErrors, Errors
  <1>7. QED
    BY <1>1, <1>2, <1>3, <1>4, <1>5, <1>6 DEF ReplyOK

LEMMA EntriesResult ==
  ASSUME NEW b \in Buffers, b.length >= 8, NEW size, NEW tests \in Seq(Tests)
  PROVE  /\ Entries(b, size, tests) \in Seq(Tests)
         /\ Result(b, Entries(b, size, tests)) =
              IF (b.hlen - 12) % size # 0 THEN "INVALID_LENGTH"
              ELSE IF b.hlen > 12 THEN Result(b, tests) ELSE "ACCEPTED"
  <1> DEFINE misfit == (b.hlen - 12) % size # 0
             t == << Test(4, "INVALID_LENGTH", misfit) >>
             l == IF b.hlen > 12 THEN tests ELSE <<>>
  <1>1. /\ t \in Seq(Tests)
        /\ Result(b, t) = IF misfit THEN "INVALID_LENGTH" ELSE "ACCEPTED"
    <2>1. misfit \in BOOLEAN /\ "INVALID_LENGTH" \in Errors /\ 4 <= b.length
      BY DEF Errors, Buffers
    <2> HIDE DEF misfit
    <2>2. QED
      BY <2>1, OneTest
  <1>2. l \in Seq(Tests) /\ Result(b, l) = IF b.hlen > 12 THEN Result(b, tests) ELSE "ACCEPTED"
    BY NoTests
  <1>3. Entries(b, size, tests) = t \o l
    BY DEF Entries, List, ofp_stats_reply
  <1> HIDE DEF t, l
  <1>4. /\ t \o l \in Seq(Tests)
        /\ Result(b, t \o l) = IF Result(b, t) = "ACCEPTED" THEN Result(b, l) ELSE Result(b, t)
    BY <1>1, <1>2, ResultOfParts
  <1>5. QED
    BY <1>1, <1>2, <1>3, <1>4

\* What validate_stats_reply accepts.
FlowReplyOK(b) ==
  /\ ReplyOK(b, USHRT_MAX)
  /\ b.length > 12 => /\ b.length >= 66
                      /\ b.fault \notin MatchFaults /\ b.fault # "INVALID_FLOW_PRIORITY"
  /\ b.length > 100 => b.fault \notin ActionErrors

TableReplyOK(b) ==
  /\ ReplyOK(b, USHRT_MAX)
  /\ (b.length - 12) % 64 = 0
  /\ b.length > 12 => b.fault # "INVALID_WILDCARDS"

PortsReplyOK(b, size) ==
  /\ ReplyOK(b, USHRT_MAX)
  /\ (b.length - 12) % size = 0
  /\ b.length > 12 => PortOK(b)

StatsReplyOK(b) ==
  \/ b.stats = "DESC" /\ ReplyOK(b, 1068)
  \/ b.stats = "FLOW" /\ FlowReplyOK(b)
  \/ b.stats = "AGGREGATE" /\ ReplyOK(b, 36)
  \/ b.stats = "TABLE" /\ TableReplyOK(b)
  \/ b.stats = "PORT" /\ PortsReplyOK(b, 104)
  \/ b.stats = "QUEUE" /\ PortsReplyOK(b, 32)
  \/ b.stats = "VENDOR" /\ ReplyOK(b, USHRT_MAX)

LEMMA FlowReplyDecides ==
  ASSUME NEW b \in Buffers, b.length >= 8
  PROVE  LET s == validate_flow_stats_reply(b) IN
         /\ s \in Seq(Tests)
         /\ Result(b, s) = "ACCEPTED" <=> FlowReplyOK(b)
         /\ b.length \notin 13 .. 65 => Result(b, s) \in {"ACCEPTED"} \cup Errors
  <1> DEFINE r == StatsReply(b, USHRT_MAX)
             m == validate_match(b, 56)
             f == << Field(b, 66, "INVALID_FLOW_PRIORITY") >>
             mf == m \o f
             l == IF b.hlen > 12 THEN mf ELSE <<>>
             a == validate_actions(b, 100)
  <1>0. b.length \in Nat /\ b.hlen \in Nat /\ b.fault \in Errors /\ b.fault # "ACCEPTED" /\ USHRT_MAX \in Nat
    BY ErrorsAreNoResults DEF Buffers, USHRT_MAX
  <1>1. /\ r \in Seq(Tests)
        /\ Result(b, r) = "ACCEPTED" <=> ReplyOK(b, USHRT_MAX)
        /\ Result(b, r) \in {"ACCEPTED"} \cup Errors
    BY <1>0, ReplyResult, Zenon
  <1>2. /\ m \in Seq(Tests)
        /\ 56 <= b.length => Result(b, m) = IF b.fault \in MatchFaults THEN b.fault ELSE "ACCEPTED"
    BY MatchResult
  <1>3. /\ f \in Seq(Tests)
        /\ 66 <= b.length =>
             Result(b, f) = IF b.fault = "INVALID_FLOW_PRIORITY" THEN "INVALID_FLOW_PRIORITY" ELSE "ACCEPTED"
        /\ 66 > b.length => Result(b, f) = "OUTSIDE"
    <2>1. "INVALID_FLOW_PRIORITY" \in Errors /\ 66 \in Nat
      BY DEF Errors
    <2>2. QED
      BY <2>1, FieldResult
  <1>4. /\ a \in Seq(Tests)
        /\ (b.hlen > 100 => 100 <= b.length) =>
             Result(b, a) = IF b.hlen > 100 /\ b.fault \in ActionErrors THEN b.fault ELSE "ACCEPTED"
    BY ActionsResult
  <1>5. validate_flow_stats_reply(b) = (r \o l) \o a
    BY DEF validate_flow_stats_reply, List, ofp_stats_reply, ofp_flow_stats
  <1> HIDE DEF r, m, f, a
  <1>6. mf \in Seq(Tests) /\ Result(b, mf) = IF Result(b, m) = "ACCEPTED" THEN Result(b, f) ELSE Result(b, m)
    BY <1>2, <1>3, ResultOfParts
  <1> HIDE DEF mf
  <1>7. l \in Seq(Tests) /\ Result(b, l) = IF b.hlen > 12 THEN Result(b, mf) ELSE "ACCEPTED"
    BY <1>6, NoTests
  <1> HIDE DEF l
  <1>8. /\ (r \o l) \o a \in Seq(Tests)
        /\ Result(b, (r \o l) \o a) =
             IF Result(b, r) # "ACCEPTED" THEN Result(b, r)
             ELSE IF Result(b, l) # "ACCEPTED" THEN Result(b, l) ELSE Result(b, a)
    BY <1>1, <1>4, <1>7, ResultOfThree
  <1>9. ReplyOK(b, USHRT_MAX) => b.hlen = b.length
    BY DEF ReplyOK, HeaderOK
  <1>10. "INVALID_FLOW_PRIORITY" \in Errors
    BY DEF Errors
  <1>11. Result(b, (r \o l) \o a) = "ACCEPTED" <=> FlowReplyOK(b)
    <2>1. ASSUME ReplyOK(b, USHRT_MAX), b.length > 12, b.length < 66
          PROVE  Result(b, l) # "ACCEPTED"
      BY <1>0, <1>3, <1>6, <1>7, <1>9, <2>1
    <2>2. ASSUME ReplyOK(b, USHRT_MAX), b.length >= 66
          PROVE  Result(b, l) = "ACCEPTED" <=>
                   b.fault \notin MatchFaults /\ b.fault # "INVALID_FLOW_PRIORITY"
      BY <1>0, <1>2, <1>3, <1>6, <1>7, <1>9, <2>2
    <2>3. ASSUME ReplyOK(b, USHRT_MAX), b.length <= 12
          PROVE  Result(b, l) = "ACCEPTED"
      BY <1>0, <1>7, <1>9, <2>3
    <2>4. ASSUME ReplyOK(b, USHRT_MAX)
          PROVE  Result(b, a) = "ACCEPTED" <=> (b.length > 100 => b.fault \notin ActionErrors)
      BY <1>0, <1>4, <1>9, <2>4
    <2>5. QED
      BY <1>0, <1>1, <1>8, <2>1, <2>2, <2>3, <2>4 DEF FlowReplyOK
  <1>12. ASSUME b.length \notin 13 .. 65 PROVE Result(b, (r \o l) \o a) \in {"ACCEPTED"} \cup Errors
    <2>1. b.length <= 12 \/ b.length >= 66
      BY <1>0, <1>12
    <2>2. ReplyOK(b, USHRT_MAX) => Result(b, l) \in {"ACCEPTED"} \cup Errors
      BY <1>0, <1>2, <1>3, <1>6, <1>7, <1>9, <1>10, <2>1
    <2>3. ReplyOK(b, USHRT_MAX) => Result(b, a) \in {"ACCEPTED"} \cup Errors
      BY <1>0, <1>4, <1>9
    <2>4. QED
      BY <1>1, <1>8, <2>2, <2>3
  <1>13. QED
    BY <1>5, <1>8, <1>11, <1>12

\* The replies that are lists of tables, of ports and of queues.
LEMMA ListReplyDecides ==
  ASSUME NEW b \in Buffers, b.length >= 8
  PROVE  /\ LET s == validate_table_stats_reply(b) IN
              s \in Seq(Tests) /\ Decides(b, s, TableReplyOK(b), Errors)
         /\ LET s == validate_port_stats_reply(b) IN
              s \in Seq(Tests) /\ Decides(b, s, PortsReplyOK(b, 104), Errors)
         /\ LET s == validate_queue_stats_reply(b) IN
              s \in Seq(Tests) /\ Decides(b, s, PortsReplyOK(b, 32), Errors)
  <1> DEFINE r == StatsReply(b, USHRT_MAX)
             f == << Field(b, b.hlen, "INVALID_WILDCARDS") >>
             p == validate_phy_port_no(b, b.hlen)
  <1>0. b.length \in Nat /\ b.hlen \in Nat /\ USHRT_MAX \in Nat
    BY DEF Buffers, USHRT_MAX
  <1>1. /\ r \in Seq(Tests)
        /\ Result(b, r) = "ACCEPTED" <=> ReplyOK(b, USHRT_MAX)
        /\ Result(b, r) \in {"ACCEPTED"} \cup Errors
    BY <1>0, ReplyResult, Zenon
  <1>2. /\ f \in Seq(Tests)
        /\ b.hlen <= b.length =>
             Result(b, f) = IF b.fault = "INVALID_WILDCARDS" THEN "INVALID_WILDCARDS" ELSE "ACCEPTED"
    <2>1. "INVALID_WILDCARDS" \in Errors /\ b.hlen \in Nat
      BY <1>0 DEF Errors
    <2>2. QED
      BY <2>1, FieldResult
  <1>3. /\ p \in Seq(Tests)
        /\ b.hlen <= b.length => Result(b, p) = IF PortOK(b) THEN "ACCEPTED" ELSE "INVALID_PORT_NO"
    BY <1>0, PhyPortNoResult DEF PortOK
  <1>4. /\ validate_table_stats_reply(b) = r \o Entries(b, 64, f)
        /\ validate_port_stats_reply(b) = r \o Entries(b, 104, p)
        /\ validate_queue_stats_reply(b) = r \o Entries(b, 32, p)
    BY DEF validate_table_stats_reply, validate_port_stats_reply, validate_queue_stats_reply,
           ofp_table_stats, ofp_port_stats, ofp_queue_stats
  <1> HIDE DEF r, f, p
  <1>5. ReplyOK(b, USHRT_MAX) => b.hlen = b.length /\ b.hlen <= b.length
    BY <1>0 DEF ReplyOK, HeaderOK
  <1>6. ASSUME NEW size, NEW t \in Seq(Tests)
        PROVE  /\ r \o Entries(b, size, t) \in Seq(Tests)
               /\ Result(b, r \o Entries(b, size, t)) =
                    IF Result(b, r) # "ACCEPTED" THEN Result(b, r)
                    ELSE IF (b.hlen - 12) % size # 0 THEN "INVALID_LENGTH"
                    ELSE IF b.hlen > 12 THEN Result(b, t) ELSE "ACCEPTED"
    <2> DEFINE e == Entries(b, size, t)
    <2>1. /\ e \in Seq(Tests)
          /\ Result(b, e) = IF (b.hlen - 12) % size # 0 THEN "INVALID_LENGTH"
                            ELSE IF b.hlen > 12 THEN Result(b, t) ELSE "ACCEPTED"
      BY EntriesResult
    <2> HIDE DEF e
    <2>2. /\ r \o e \in Seq(Tests)
          /\ Result(b, r \o e) = IF Result(b, r) = "ACCEPTED" THEN Result(b, e) ELSE Result(b, r)
      BY <1>1, <2>1, ResultOfParts
    <2>3. QED
      BY <2>1, <2>2 DEF e
  <1>7. "INVALID_LENGTH" \in Errors /\ "INVALID_WILDCARDS" \in Errors /\ "INVALID_PORT_NO" \in Errors
    BY DEF Errors
  <1>8. LET s == validate_table_stats_reply(b) IN
        s \in Seq(Tests) /\ Decides(b, s, TableReplyOK(b), Errors)
    <2> DEFINE fits(size) == (b.hlen - 12) % size = 0
    <2>1. ASSUME NEW size
          PROVE  /\ r \o Entries(b, size, f) \in Seq(Tests)
                 /\ Result(b, r \o Entries(b, size, f)) = "ACCEPTED" <=>
                      /\ ReplyOK(b, USHRT_MAX) /\ fits(size)
                      /\ b.hlen > 12 => b.fault # "INVALID_WILDCARDS"
                 /\ Result(b, r \o Entries(b, size, f)) \in {"ACCEPTED"} \cup Errors
      BY <1>1, <1>2, <1>5, <1>6, <1>7
    <2>2. TableReplyOK(b) <=>
            /\ ReplyOK(b, USHRT_MAX) /\ fits(64)
            /\ b.hlen > 12 => b.fault # "INVALID_WILDCARDS"
      BY <1>5 DEF TableReplyOK
    <2> HIDE DEF fits
    <2>3. QED
      BY <1>4, <2>1, <2>2 DEF Decides
  <1>9. ASSUME NEW size
        PROVE  r \o Entries(b, size, p) \in Seq(Tests) /\ Decides(b, r \o Entries(b, size, p), PortsReplyOK(b, size), Errors)
    BY <1>1, <1>3, <1>5, <1>6, <1>7 DEF Decides, PortsReplyOK
  <1>10. QED
    BY <1>4, <1>8, <1>9

\* Replies of a fixed size, or of any, of which nothing but the header is checked.
LEMMA PlainReplyDecides ==
  ASSUME NEW b \in Buffers, b.length >= 8
  PROVE  /\ LET s == validate_desc_stats_reply(b) IN
              s \in Seq(Tests) /\ Decides(b, s, ReplyOK(b, 1068), Errors)
         /\ LET s == validate_aggregate_stats_reply(b) IN
              s \in Seq(Tests) /\ Decides(b, s, ReplyOK(b, 36), Errors)
         /\ LET s == validate_vendor_stats_reply(b) IN
              s \in Seq(Tests) /\ Decides(b, s, ReplyOK(b, USHRT_MAX), Errors)
  <1>1. ASSUME NEW n \in Nat
        PROVE  StatsReply(b, n) \in Seq(Tests) /\ Decides(b, StatsReply(b, n), ReplyOK(b, n), Errors)
    BY ReplyResult DEF Decides
  <1>2. /\ validate_desc_stats_reply(b) = StatsReply(b, 1068)
        /\ validate_aggregate_stats_reply(b) = StatsReply(b, 36)
        /\ validate_vendor_stats_reply(b) = StatsReply(b, USHRT_MAX)
    BY DEF validate_desc_stats_reply, validate_aggregate_stats_reply, validate_vendor_stats_reply,
           ofp_stats_reply, ofp_desc_stats, ofp_aggregate_stats_reply
  <1>3. USHRT_MAX \in Nat
    BY DEF USHRT_MAX
  <1>4. QED
    BY <1>1, <1>2, <1>3

LEMMA StatsReplyDecides ==
  ASSUME NEW b \in Buffers, b.length >= 8
  PROVE  LET r == Result(b, validate_stats_reply(b)) IN
         /\ b.length >= 10 =>
              /\ r = "ACCEPTED" <=> StatsReplyOK(b)
              /\ ~(b.stats = "FLOW" /\ b.length \in 13 .. 65) => r \in {"ACCEPTED"} \cup Errors
         /\ b.length < 10 => r = "OUTSIDE"
  <1> DEFINE r == Result(b, validate_stats_reply(b))
             inside == ~(b.stats = "FLOW" /\ b.length \in 13 .. 65)
             goal == /\ b.length >= 10 =>
                          /\ r = "ACCEPTED" <=> StatsReplyOK(b)
                          /\ inside => r \in {"ACCEPTED"} \cup Errors
                     /\ b.length < 10 => r = "OUTSIDE"
  <1>1. ASSUME NEW s \in Seq(Tests), validate_stats_reply(b) = StatsType(b) \o s,
               b.stats \in StatsTypes =>
                 /\ Result(b, s) = "ACCEPTED" <=> StatsReplyOK(b)
                 /\ inside => Result(b, s) \in {"ACCEPTED"} \cup Errors
        PROVE  goal
    <2>1. /\ b.length >= 10 =>
               Result(b, StatsType(b) \o s) =
                 IF b.stats \in StatsTypes THEN Result(b, s) ELSE "UNSUPPORTED_STATS_TYPE"
          /\ b.length < 10 => Result(b, StatsType(b) \o s) = "OUTSIDE"
      BY ResultOfStats
    <2>2. b.stats \notin StatsTypes => ~StatsReplyOK(b)
      BY DEF StatsReplyOK, StatsTypes
    <2>3. "UNSUPPORTED_STATS_TYPE" \in Errors
      BY DEF Errors
    <2> HIDE DEF inside
    <2>4. QED
      BY <1>1, <2>1, <2>2, <2>3
  <1>2. ASSUME b.stats = "DESC" PROVE goal
    <2>1. validate_stats_reply(b) = StatsType(b) \o validate_desc_stats_reply(b)
      BY <1>2 DEF validate_stats_reply
    <2>2. StatsReplyOK(b) <=> ReplyOK(b, 1068)
      BY <1>2 DEF StatsReplyOK
    <2>3. /\ validate_desc_stats_reply(b) \in Seq(Tests)
          /\ Result(b, validate_desc_stats_reply(b)) = "ACCEPTED" <=> StatsReplyOK(b)
          /\ inside => Result(b, validate_desc_stats_reply(b)) \in {"ACCEPTED"} \cup Errors
      BY <2>2, PlainReplyDecides DEF Decides
    <2> HIDE DEF goal, inside
    <2>4. QED
      BY <1>1, <2>1, <2>3
  <1>3. ASSUME b.stats = "AGGREGATE" PROVE goal
    <2>1. validate_stats_reply(b) = StatsType(b) \o validate_aggregate_stats_reply(b)
      BY <1>3 DEF validate_stats_reply
    <2>2. StatsReplyOK(b) <=> ReplyOK(b, 36)
      BY <1>3 DEF StatsReplyOK
    <2>3. /\ validate_aggregate_stats_reply(b) \in Seq(Tests)
          /\ Result(b, validate_aggregate_stats_reply(b)) = "ACCEPTED" <=> StatsReplyOK(b)
          /\ inside => Result(b, validate_aggregate_stats_reply(b)) \in {"ACCEPTED"} \cup Errors
      BY <2>2, PlainReplyDecides DEF Decides
    <2> HIDE DEF goal, inside
    <2>4. QED
      BY <1>1, <2>1, <2>3
  <1>4. ASSUME b.stats = "VENDOR" PROVE goal
    <2>1. validate_stats_reply(b) = StatsType(b) \o validate_vendor_stats_reply(b)
      BY <1>4 DEF validate_stats_reply
    <2>2. StatsReplyOK(b) <=> ReplyOK(b, USHRT_MAX)
      BY <1>4 DEF StatsReplyOK
    <2>3. /\ validate_vendor_stats_reply(b) \in Seq(Tests)
          /\ Result(b, validate_vendor_stats_reply(b)) = "ACCEPTED" <=> StatsReplyOK(b)
          /\ inside => Result(b, validate_vendor_stats_reply(b)) \in {"ACCEPTED"} \cup Errors
      BY <2>2, PlainReplyDecides DEF Decides
    <2> HIDE DEF goal, inside
    <2>4. QED
      BY <1>1, <2>1, <2>3
  <1>5. ASSUME b.stats = "TABLE" PROVE goal
    <2>1. validate_stats_reply(b) = StatsType(b) \o validate_table_stats_reply(b)
      BY <1>5 DEF validate_stats_reply
    <2>2. StatsReplyOK(b) <=> TableReplyOK(b)
      BY <1>5 DEF StatsReplyOK
    <2>3. /\ validate_table_stats_reply(b) \in Seq(Tests)
          /\ Result(b, validate_table_stats_reply(b)) = "ACCEPTED" <=> StatsReplyOK(b)
          /\ inside => Result(b, validate_table_stats_reply(b)) \in {"ACCEPTED"} \cup Errors
      BY <2>2, ListReplyDecides DEF Decides
    <2> HIDE DEF goal, inside
    <2>4. QED
      BY <1>1, <2>1, <2>3
  <1>6. ASSUME b.stats = "PORT" PROVE goal
    <2>1. validate_stats_reply(b) = StatsType(b) \o validate_port_stats_reply(b)
      BY <1>6 DEF validate_stats_reply
    <2>2. StatsReplyOK(b) <=> PortsReplyOK(b, 104)
      BY <1>6 DEF StatsReplyOK
    <2>3. /\ validate_port_stats_reply(b) \in Seq(Tests)
          /\ Result(b, validate_port_stats_reply(b)) = "ACCEPTED" <=> StatsReplyOK(b)
          /\ inside => Result(b, validate_port_stats_reply(b)) \in {"ACCEPTED"} \cup Errors
      BY <2>2, ListReplyDecides DEF Decides
    <2> HIDE DEF goal, inside
    <2>4. QED
      BY <1>1, <2>1, <2>3
  <1>7. ASSUME b.stats = "QUEUE" PROVE goal
    <2>1. validate_stats_reply(b) = StatsType(b) \o validate_queue_stats_reply(b)
      BY <1>7 DEF validate_stats_reply
    <2>2. StatsReplyOK(b) <=> PortsReplyOK(b, 32)
      BY <1>7 DEF StatsReplyOK
    <2>3. /\ validate_queue_stats_reply(b) \in Seq(Tests)
          /\ Result(b, validate_queue_stats_reply(b)) = "ACCEPTED" <=> StatsReplyOK(b)
          /\ inside => Result(b, validate_queue_stats_reply(b)) \in {"ACCEPTED"} \cup Errors
      BY <2>2, ListReplyDecides DEF Decides
    <2> HIDE DEF goal, inside
    <2>4. QED
      BY <1>1, <2>1, <2>3
  <1>8. ASSUME b.stats = "FLOW" PROVE goal
    <2>1. validate_stats_reply(b) = StatsType(b) \o validate_flow_stats_reply(b)
      BY <1>8 DEF validate_stats_reply
    <2>2. StatsReplyOK(b) <=> FlowReplyOK(b)
      BY <1>8 DEF StatsReplyOK
    <2>3. /\ validate_flow_stats_reply(b) \in Seq(Tests)
          /\ Result(b, validate_flow_stats_reply(b)) = "ACCEPTED" <=> StatsReplyOK(b)
          /\ inside => Result(b, validate_flow_stats_reply(b)) \in {"ACCEPTED"} \cup Errors
      BY <1>8, <2>2, FlowReplyDecides
    <2> HIDE DEF goal, inside
    <2>4. QED
      BY <1>1, <2>1, <2>3
  <1>9. ASSUME b.stats = "UNDEFINED" PROVE goal
    <2>1. validate_stats_reply(b) = StatsType(b) \o <<>> /\ b.stats \notin StatsTypes
      BY <1>9 DEF validate_stats_reply, StatsTypes
    <2>2. <<>> \in Seq(Tests)
      BY NoTests
    <2> HIDE DEF goal, inside
    <2>3. QED
      BY <1>1, <2>1, <2>2
  <1> HIDE DEF goal
  <1>10. goal
    BY <1>2, <1>3, <1>4, <1>5, <1>6, <1>7, <1>8, <1>9 DEF Buffers, StatsTypes
  <1>11. QED
    BY <1>10 DEF goal

-----------------------------------------------------------------------------
(* The messages, as the switch may send them, and what the checks make of  *)
(* them.                                                                   *)

\* A port a check takes, and what it accepts as a message.
PortTaken(m) == m.port \in PortsOf(m.type, m.stats, m.delete) \/ TakenForPort(m)

Good(m) ==
  WellFormed(m) /\ (PortTaken(m) \/ (m.type \in {"FEATURES_REPLY", "STATS_REPLY"} /\ ~More(m)))

LEMMA GoodMeans ==
  ASSUME NEW m \in Buffers, OneFault(m), NEW min \in Nat, NEW unit \in Nat,
         Size(m.type, m.stats) = << min, unit >>
  PROVE  /\ More(m) <=> m.length > min
         /\ Good(m) <=>
              /\ m.type \in Types /\ m.stats \in StatsTypes
              /\ m.hlen = m.length /\ m.length >= min
              /\ unit = 0 => m.length = min
              /\ unit > 1 => (m.length - min) % unit = 0
              /\ m.fault \in {"none", HighFeature}
              /\ \/ PortTaken(m)
                 \/ m.type \in {"FEATURES_REPLY", "STATS_REPLY"} /\ ~More(m)
         /\ m.length >= min => m.fault \in FaultsOf(m.type, m.stats, More(m))
         /\ m.length < min => m.fault \in {"none", "UNSUPPORTED_VERSION"}
         /\ m.length >= min /\ unit \in {8, 16, 88} =>
              (m.length - min) % unit = 0 \/ (unit = 88 /\ m.length < 66)
         /\ m.stats \in StatsTypes \/ m.type \in {"STATS_REQUEST", "STATS_REPLY"}
  <1>1. Size(m.type, m.stats)[1] = min /\ Unit(m.type, m.stats) = unit
    BY DEF Unit
  <1>2. m.length \in Nat
    BY DEF Buffers
  <1>3. unit = 1 => (m.length - min) % unit = 0
    BY <1>2
  <1>4. unit = 0 \/ unit = 1 \/ unit > 1
    OBVIOUS
  <1>5. More(m) <=> m.length > min
    BY <1>1 DEF More
  <1>6. Good(m) <=>
          /\ m.type \in Types /\ m.stats \in StatsTypes
          /\ m.hlen = m.length /\ m.length >= min
          /\ IF unit = 0 THEN m.length = min ELSE (m.length - min) % unit = 0
          /\ m.fault \in {"none", HighFeature}
          /\ \/ PortTaken(m)
             \/ m.type \in {"FEATURES_REPLY", "STATS_REPLY"} /\ ~More(m)
    BY <1>1 DEF Good, WellFormed
  <1>7. /\ m.fault \in IF m.length >= min THEN FaultsOf(m.type, m.stats, More(m))
                       ELSE {"none", "UNSUPPORTED_VERSION"}
        /\ m.length >= min /\ unit \in {8, 16, 88} =>
             (m.length - min) % unit = 0 \/ (unit = 88 /\ m.length < 66)
        /\ m.stats \in StatsTypes \/ m.type \in {"STATS_REQUEST", "STATS_REPLY"}
    BY <1>1 DEF OneFault, ofp_flow_stats, ofp_stats_reply
  <1>8. QED
    BY <1>2, <1>3, <1>4, <1>5, <1>6, <1>7

\* The check of a message accepts it if it is good, or a reply without its body.
Matches(m) ==
  Result(m, validate_openflow_message(m)) = "ACCEPTED" <=>
    (Good(m) /\ ~RefusedByCheck(m)) \/ Bodyless(m)

\* That is what ChecksMatchProtocol says of it.
LEMMA MatchesProtocol ==
  ASSUME NEW m, Matches(m)
  PROVE  Result(m, validate_openflow_message(m)) = "ACCEPTED" <=>
           (Proper(m) /\ ~RefusedByCheck(m)) \/ AcceptedByCheck(m)
  BY DEF Matches, Good, PortTaken, Proper, AcceptedByCheck

LEMMA HelloMatches ==
  ASSUME NEW m \in Buffers, m.length >= 8, m.length <= USHRT_MAX, OneFault(m), m.type = "HELLO"
  PROVE  Matches(m)
  <1>1. validate_openflow_message(m) = validate_hello(m)
    BY DEF validate_openflow_message
  <1>2. Size(m.type, m.stats) = << 8, 1 >>
    BY DEF Size, ofp_header
  <1>3. PortTaken(m)
    BY DEF PortTaken, TakenForPort, PortsOf, SwitchPorts, Buffers, Ports, PortOK
  <1>4. m.fault \in FaultsOf(m.type, m.stats, More(m)) =>
          m.fault \in {"none", "UNSUPPORTED_VERSION"}
    BY DEF FaultsOf
  <1>5. m.type \in Types /\ m.length \in Nat
    BY DEF Types, Buffers
  <1>6. QED
    BY <1>1, <1>2, <1>3, <1>4, <1>5, HeadersDecide, GoodMeans
    DEF Matches, Decides, HeaderOK, RefusedByCheck, Bodyless, HighFeature

LEMMA ErrorMatches ==
  ASSUME NEW m \in Buffers, m.length >= 8, m.length <= USHRT_MAX, OneFault(m), m.type = "ERROR"
  PROVE  Matches(m)
  <1>1. validate_openflow_message(m) = validate_error(m)
    BY DEF validate_openflow_message
  <1>2. Size(m.type, m.stats) = << 12, 1 >>
    BY DEF Size, ofp_error_msg
  <1>3. PortTaken(m)
    BY DEF PortTaken, TakenForPort, PortsOf, SwitchPorts, Buffers, Ports, PortOK
  <1>4. m.fault \in FaultsOf(m.type, m.stats, More(m)) =>
          m.fault \in {"none", "UNSUPPORTED_VERSION"}
    BY DEF FaultsOf
  <1>5. m.type \in Types /\ m.length \in Nat
    BY DEF Types, Buffers
  <1>6. QED
    BY <1>1, <1>2, <1>3, <1>4, <1>5, HeadersDecide, GoodMeans
    DEF Matches, Decides, HeaderOK, RefusedByCheck, Bodyless, HighFeature

LEMMA EchoRequestMatches ==
  ASSUME NEW m \in Buffers, m.length >= 8, m.length <= USHRT_MAX, OneFault(m), m.type = "ECHO_REQUEST"
  PROVE  Matches(m)
  <1>1. validate_openflow_message(m) = validate_echo_request(m)
    BY DEF validate_openflow_message
  <1>2. Size(m.type, m.stats) = << 8, 1 >>
    BY DEF Size, ofp_header
  <1>3. PortTaken(m)
    BY DEF PortTaken, TakenForPort, PortsOf, SwitchPorts, Buffers, Ports, PortOK
  <1>4. m.fault \in FaultsOf(m.type, m.stats, More(m)) =>
          m.fault \in {"none", "UNSUPPORTED_VERSION"}
    BY DEF FaultsOf
  <1>5. m.type \in Types /\ m.length \in Nat
    BY DEF Types, Buffers
  <1>6. QED
    BY <1>1, <1>2, <1>3, <1>4, <1>5, EchoesDecide, GoodMeans
    DEF Matches, Decides, HeaderOK, RefusedByCheck, Bodyless, HighFeature

LEMMA EchoReplyMatches ==
  ASSUME NEW m \in Buffers, m.length >= 8, m.length <= USHRT_MAX, OneFault(m), m.type = "ECHO_REPLY"
  PROVE  Matches(m)
  <1>1. validate_openflow_message(m) = validate_echo_reply(m)
    BY DEF validate_openflow_message
  <1>2. Size(m.type, m.stats) = << 8, 1 >>
    BY DEF Size, ofp_header
  <1>3. PortTaken(m)
    BY DEF PortTaken, TakenForPort, PortsOf, SwitchPorts, Buffers, Ports, PortOK
  <1>4. m.fault \in FaultsOf(m.type, m.stats, More(m)) =>
          m.fault \in {"none", "UNSUPPORTED_VERSION"}
    BY DEF FaultsOf
  <1>5. m.type \in Types /\ m.length \in Nat
    BY DEF Types, Buffers
  <1>6. QED
    BY <1>1, <1>2, <1>3, <1>4, <1>5, EchoesDecide, GoodMeans
    DEF Matches, Decides, HeaderOK, RefusedByCheck, Bodyless, HighFeature

LEMMA VendorMatches ==
  ASSUME NEW m \in Buffers, m.length >= 8, m.length <= USHRT_MAX, OneFault(m), m.type = "VENDOR"
  PROVE  Matches(m)
  <1>1. validate_openflow_message(m) = validate_vendor(m)
    BY DEF validate_openflow_message
  <1>2. Size(m.type, m.stats) = << 12, 1 >>
    BY DEF Size, ofp_vendor_header
  <1>3. PortTaken(m)
    BY DEF PortTaken, TakenForPort, PortsOf, SwitchPorts, Buffers, Ports, PortOK
  <1>4. m.fault \in FaultsOf(m.type, m.stats, More(m)) =>
          m.fault \in {"none", "UNSUPPORTED_VERSION"}
    BY DEF FaultsOf
  <1>5. m.type \in Types /\ m.length \in Nat
    BY DEF Types, Buffers
  <1>6. QED
    BY <1>1, <1>2, <1>3, <1>4, <1>5, EchoesDecide, GoodMeans
    DEF Matches, Decides, HeaderOK, RefusedByCheck, Bodyless, HighFeature

LEMMA FeaturesRequestMatches ==
  ASSUME NEW m \in Buffers, m.length >= 8, m.length <= USHRT_MAX, OneFault(m), m.type = "FEATURES_REQUEST"
  PROVE  Matches(m)
  <1>1. validate_openflow_message(m) = validate_features_request(m)
    BY DEF validate_openflow_message
  <1>2. Size(m.type, m.stats) = << 8, 0 >>
    BY DEF Size, ofp_header
  <1>3. PortTaken(m)
    BY DEF PortTaken, TakenForPort, PortsOf, SwitchPorts, Buffers, Ports, PortOK
  <1>4. m.fault \in FaultsOf(m.type, m.stats, More(m)) =>
          m.fault \in {"none", "UNSUPPORTED_VERSION"}
    BY DEF FaultsOf
  <1>5. m.type \in Types /\ m.length \in Nat
    BY DEF Types, Buffers
  <1>6. QED
    BY <1>1, <1>2, <1>3, <1>4, <1>5, HeadersDecide, GoodMeans
    DEF Matches, Decides, HeaderOK, RefusedByCheck, Bodyless, HighFeature

LEMMA GetConfigRequestMatches ==
  ASSUME NEW m \in Buffers, m.length >= 8, m.length <= USHRT_MAX, OneFault(m), m.type = "GET_CONFIG_REQUEST"
  PROVE  Matches(m)
  <1>1. validate_openflow_message(m) = validate_get_config_request(m)
    BY DEF validate_openflow_message
  <1>2. Size(m.type, m.stats) = << 8, 0 >>
    BY DEF Size, ofp_header
  <1>3. PortTaken(m)
    BY DEF PortTaken, TakenForPort, PortsOf, SwitchPorts, Buffers, Ports, PortOK
  <1>4. m.fault \in FaultsOf(m.type, m.stats, More(m)) =>
          m.fault \in {"none", "UNSUPPORTED_VERSION"}
    BY DEF FaultsOf
  <1>5. m.type \in Types /\ m.length \in Nat
    BY DEF Types, Buffers
  <1>6. QED
    BY <1>1, <1>2, <1>3, <1>4, <1>5, HeadersDecide, GoodMeans
    DEF Matches, Decides, HeaderOK, RefusedByCheck, Bodyless, HighFeature

LEMMA BarrierRequestMatches ==
  ASSUME NEW m \in Buffers, m.length >= 8, m.length <= USHRT_MAX, OneFault(m), m.type = "BARRIER_REQUEST"
  PROVE  Matches(m)
  <1>1. validate_openflow_message(m) = validate_barrier_request(m)
    BY DEF validate_openflow_message
  <1>2. Size(m.type, m.stats) = << 8, 0 >>
    BY DEF Size, ofp_header
  <1>3. PortTaken(m)
    BY DEF PortTaken, TakenForPort, PortsOf, SwitchPorts, Buffers, Ports, PortOK
  <1>4. m.fault \in FaultsOf(m.type, m.stats, More(m)) =>
          m.fault \in {"none", "UNSUPPORTED_VERSION"}
    BY DEF FaultsOf
  <1>5. m.type \in Types /\ m.length \in Nat
    BY DEF Types, Buffers
  <1>6. QED
    BY <1>1, <1>2, <1>3, <1>4, <1>5, HeadersDecide, GoodMeans
    DEF Matches, Decides, HeaderOK, RefusedByCheck, Bodyless, HighFeature

LEMMA BarrierReplyMatches ==
  ASSUME NEW m \in Buffers, m.length >= 8, m.length <= USHRT_MAX, OneFault(m), m.type = "BARRIER_REPLY"
  PROVE  Matches(m)
  <1>1. validate_openflow_message(m) = validate_barrier_reply(m)
    BY DEF validate_openflow_message
  <1>2. Size(m.type, m.stats) = << 8, 0 >>
    BY DEF Size, ofp_header
  <1>3. PortTaken(m)
    BY DEF PortTaken, TakenForPort, PortsOf, SwitchPorts, Buffers, Ports, PortOK
  <1>4. m.fault \in FaultsOf(m.type, m.stats, More(m)) =>
          m.fault \in {"none", "UNSUPPORTED_VERSION"}
    BY DEF FaultsOf
  <1>5. m.type \in Types /\ m.length \in Nat
    BY DEF Types, Buffers
  <1>6. QED
    BY <1>1, <1>2, <1>3, <1>4, <1>5, HeadersDecide, GoodMeans
    DEF Matches, Decides, HeaderOK, RefusedByCheck, Bodyless, HighFeature

LEMMA FeaturesReplyMatches ==
  ASSUME NEW m \in Buffers, m.length >= 8, m.length <= USHRT_MAX, OneFault(m), m.type = "FEATURES_REPLY"
  PROVE  Matches(m)
  <1>1. validate_openflow_message(m) = validate_features_reply(m)
    BY DEF validate_openflow_message
  <1>2. Size(m.type, m.stats) = << 32, 48 >>
    BY DEF Size, ofp_switch_features, ofp_phy_port
  <1>3. PortTaken(m) <=> PortOK(m)
    BY DEF PortTaken, TakenForPort, PortsOf, SwitchPorts, Buffers, Ports, PortOK
  <1>4. m.fault \in FaultsOf(m.type, m.stats, More(m)) =>
          m.fault \in {"none", "UNSUPPORTED_VERSION", "NO_TABLE_AVAILABLE"} \cup (IF More(m) THEN PortFaults ELSE {})
    BY DEF FaultsOf
  <1>5. m.type \in Types /\ m.length \in Nat
    BY DEF Types, Buffers
  <1>6. QED
    BY <1>1, <1>2, <1>3, <1>4, <1>5, FeaturesReplyDecides, GoodMeans
    DEF Matches, Decides, HeaderOK, RefusedByCheck, Bodyless, HighFeature, PortFaults

LEMMA GetConfigReplyMatches ==
  ASSUME NEW m \in Buffers, m.length >= 8, m.length <= USHRT_MAX, OneFault(m), m.type = "GET_CONFIG_REPLY"
  PROVE  Matches(m)
  <1>1. validate_openflow_message(m) = validate_get_config_reply(m)
    BY DEF validate_openflow_message
  <1>2. Size(m.type, m.stats) = << 12, 0 >>
    BY DEF Size, ofp_switch_config
  <1>3. PortTaken(m)
    BY DEF PortTaken, TakenForPort, PortsOf, SwitchPorts, Buffers, Ports, PortOK
  <1>4. m.fault \in FaultsOf(m.type, m.stats, More(m)) =>
          m.fault \in {"none", "UNSUPPORTED_VERSION", "INVALID_SWITCH_CONFIG"}
    BY DEF FaultsOf
  <1>5. m.type \in Types /\ m.length \in Nat
    BY DEF Types, Buffers
  <1>6. QED
    BY <1>1, <1>2, <1>3, <1>4, <1>5, SwitchConfigDecides, GoodMeans
    DEF Matches, Decides, HeaderOK, RefusedByCheck, Bodyless, HighFeature, validate_get_config_reply

LEMMA SetConfigMatches ==
  ASSUME NEW m \in Buffers, m.length >= 8, m.length <= USHRT_MAX, OneFault(m), m.type = "SET_CONFIG"
  PROVE  Matches(m)
  <1>1. validate_openflow_message(m) = validate_set_config(m)
    BY DEF validate_openflow_message
  <1>2. Size(m.type, m.stats) = << 12, 0 >>
    BY DEF Size, ofp_switch_config
  <1>3. PortTaken(m)
    BY DEF PortTaken, TakenForPort, PortsOf, SwitchPorts, Buffers, Ports, PortOK
  <1>4. m.fault \in FaultsOf(m.type, m.stats, More(m)) =>
          m.fault \in {"none", "UNSUPPORTED_VERSION", "INVALID_SWITCH_CONFIG"}
    BY DEF FaultsOf
  <1>5. m.type \in Types /\ m.length \in Nat
    BY DEF Types, Buffers
  <1>6. QED
    BY <1>1, <1>2, <1>3, <1>4, <1>5, SwitchConfigDecides, GoodMeans
    DEF Matches, Decides, HeaderOK, RefusedByCheck, Bodyless, HighFeature, validate_set_config

LEMMA PacketInMatches ==
  ASSUME NEW m \in Buffers, m.length >= 8, m.length <= USHRT_MAX, OneFault(m), m.type = "PACKET_IN"
  PROVE  Matches(m)
  <1>1. validate_openflow_message(m) = validate_packet_in(m)
    BY DEF validate_openflow_message
  <1>2. Size(m.type, m.stats) = << 18, 1 >>
    BY DEF Size, ofp_packet_in
  <1>3. PortTaken(m) <=> PortOK(m)
    BY DEF PortTaken, TakenForPort, PortsOf, SwitchPorts, Buffers, Ports, PortOK
  <1>4. m.fault \in FaultsOf(m.type, m.stats, More(m)) =>
          m.fault \in {"none", "UNSUPPORTED_VERSION", "INVALID_PACKET_IN_REASON"}
    BY DEF FaultsOf
  <1>5. m.type \in Types /\ m.length \in Nat
    BY DEF Types, Buffers
  <1>6. QED
    BY <1>1, <1>2, <1>3, <1>4, <1>5, PacketInDecides, GoodMeans
    DEF Matches, Decides, HeaderOK, RefusedByCheck, Bodyless, HighFeature

LEMMA FlowRemovedMatches ==
  ASSUME NEW m \in Buffers, m.length >= 8, m.length <= USHRT_MAX, OneFault(m), m.type = "FLOW_REMOVED"
  PROVE  Matches(m)
  <1>1. validate_openflow_message(m) = validate_flow_removed(m)
    BY DEF validate_openflow_message
  <1>2. Size(m.type, m.stats) = << 88, 0 >>
    BY DEF Size, ofp_flow_removed
  <1>3. PortTaken(m)
    BY DEF PortTaken, TakenForPort, PortsOf, SwitchPorts, Buffers, Ports, PortOK
  <1>4. m.fault \in FaultsOf(m.type, m.stats, More(m)) =>
          m.fault \in {"none", "UNSUPPORTED_VERSION", "INVALID_FLOW_PRIORITY",
                          "INVALID_FLOW_REMOVED_REASON"} \cup MatchFaults
    BY DEF FaultsOf
  <1>5. m.type \in Types /\ m.length \in Nat
    BY DEF Types, Buffers
  <1>6. QED
    BY <1>1, <1>2, <1>3, <1>4, <1>5, FlowRemovedDecides, GoodMeans
    DEF Matches, Decides, HeaderOK, RefusedByCheck, Bodyless, HighFeature, MatchFaults

LEMMA PortStatusMatches ==
  ASSUME NEW m \in Buffers, m.length >= 8, m.length <= USHRT_MAX, OneFault(m), m.type = "PORT_STATUS"
  PROVE  Matches(m)
  <1>1. validate_openflow_message(m) = validate_port_status(m)
    BY DEF validate_openflow_message
  <1>2. Size(m.type, m.stats) = << 64, 0 >>
    BY DEF Size, ofp_port_status
  <1>3. PortTaken(m) <=> PortOK(m)
    BY DEF PortTaken, TakenForPort, PortsOf, SwitchPorts, Buffers, Ports, PortOK
  <1>4. m.fault \in FaultsOf(m.type, m.stats, More(m)) =>
          m.fault \in {"none", "UNSUPPORTED_VERSION", "INVALID_PORT_STATUS_REASON"} \cup PortFaults
    BY DEF FaultsOf
  <1>5. m.type \in Types /\ m.length \in Nat
    BY DEF Types, Buffers
  <1>6. QED
    BY <1>1, <1>2, <1>3, <1>4, <1>5, PortStatusDecides, GoodMeans
    DEF Matches, Decides, HeaderOK, RefusedByCheck, Bodyless, HighFeature, PortFaults

LEMMA PacketOutMatches ==
  ASSUME NEW m \in Buffers, m.length >= 8, m.length <= USHRT_MAX, OneFault(m), m.type = "PACKET_OUT"
  PROVE  Matches(m)
  <1>1. validate_openflow_message(m) = validate_packet_out(m)
    BY DEF validate_openflow_message
  <1>2. Size(m.type, m.stats) = << 16, 8 >>
    BY DEF Size, ofp_packet_out
  <1>3. PortTaken(m) <=> PortOK(m)
    BY DEF PortTaken, TakenForPort, PortsOf, SwitchPorts, Buffers, Ports, PortOK
  <1>4. m.fault \in FaultsOf(m.type, m.stats, More(m)) =>
          m.fault \in {"none", "UNSUPPORTED_VERSION"} \cup (IF More(m) THEN ActionErrors ELSE {})
    BY DEF FaultsOf
  <1>5. m.type \in Types /\ m.length \in Nat
    BY DEF Types, Buffers
  <1>6. QED
    BY <1>1, <1>2, <1>3, <1>4, <1>5, PacketOutDecides, ActionErrorsAre, GoodMeans
    DEF Matches, Decides, HeaderOK, RefusedByCheck, Bodyless, HighFeature

LEMMA FlowModMatches ==
  ASSUME NEW m \in Buffers, m.length >= 8, m.length <= USHRT_MAX, OneFault(m), m.type = "FLOW_MOD"
  PROVE  Matches(m)
  <1>1. validate_openflow_message(m) = validate_flow_mod(m)
    BY DEF validate_openflow_message
  <1>2. Size(m.type, m.stats) = << 72, 8 >>
    BY DEF Size, ofp_flow_mod
  <1>3. PortTaken(m) <=> (m.delete => PortOK(m))
    BY DEF PortTaken, TakenForPort, PortsOf, SwitchPorts, Buffers, Ports, PortOK
  <1>4. m.fault \in FaultsOf(m.type, m.stats, More(m)) =>
          m.fault \in {"none", "UNSUPPORTED_VERSION", "UNDEFINED_FLOW_MOD_COMMAND",
                          "INVALID_FLOW_PRIORITY", "INVALID_FLOW_MOD_FLAGS"}
                         \cup MatchFaults \cup (IF More(m) THEN ActionErrors ELSE {})
    BY DEF FaultsOf
  <1>5. m.type \in Types /\ m.length \in Nat
    BY DEF Types, Buffers
  <1>6. QED
    BY <1>1, <1>2, <1>3, <1>4, <1>5, FlowModDecides, ActionErrorsAre, GoodMeans
    DEF Matches, Decides, HeaderOK, RefusedByCheck, Bodyless, HighFeature, MatchFaults

LEMMA PortModMatches ==
  ASSUME NEW m \in Buffers, m.length >= 8, m.length <= USHRT_MAX, OneFault(m), m.type = "PORT_MOD"
  PROVE  Matches(m)
  <1>1. validate_openflow_message(m) = validate_port_mod(m)
    BY DEF validate_openflow_message
  <1>2. Size(m.type, m.stats) = << 32, 0 >>
    BY DEF Size, ofp_port_mod
  <1>3. PortTaken(m) <=> (PortOK(m) /\ m.port \notin {"virtual", "all", "none"})
    BY DEF PortTaken, TakenForPort, PortsOf, SwitchPorts, Buffers, Ports, PortOK
  <1>4. m.fault \in FaultsOf(m.type, m.stats, More(m)) =>
          m.fault \in {"none", "UNSUPPORTED_VERSION", "INVALID_PORT_CONFIG",
                          "INVALID_PORT_MASK", "INVALID_PORT_FEATURES", HighFeature}
    BY DEF FaultsOf
  <1>5. m.type \in Types /\ m.length \in Nat
    BY DEF Types, Buffers
  <1>6. QED
    BY <1>1, <1>2, <1>3, <1>4, <1>5, PortModDecides, GoodMeans
    DEF Matches, Decides, HeaderOK, RefusedByCheck, Bodyless, HighFeature

LEMMA QueueGetConfigRequestMatches ==
  ASSUME NEW m \in Buffers, m.length >= 8, m.length <= USHRT_MAX, OneFault(m), m.type = "QUEUE_GET_CONFIG_REQUEST"
  PROVE  Matches(m)
  <1>1. validate_openflow_message(m) = validate_queue_get_config_request(m)
    BY DEF validate_openflow_message
  <1>2. Size(m.type, m.stats) = << 12, 0 >>
    BY DEF Size, ofp_queue_get_config_request
  <1>3. PortTaken(m) <=> PortOK(m)
    BY DEF PortTaken, TakenForPort, PortsOf, SwitchPorts, Buffers, Ports, PortOK
  <1>4. m.fault \in FaultsOf(m.type, m.stats, More(m)) =>
          m.fault \in {"none", "UNSUPPORTED_VERSION"}
    BY DEF FaultsOf
  <1>5. m.type \in Types /\ m.length \in Nat
    BY DEF Types, Buffers
  <1>6. QED
    BY <1>1, <1>2, <1>3, <1>4, <1>5, QueueConfigRequestDecides, GoodMeans
    DEF Matches, Decides, HeaderOK, RefusedByCheck, Bodyless, HighFeature

LEMMA QueueGetConfigReplyMatches ==
  ASSUME NEW m \in Buffers, m.length >= 8, m.length <= USHRT_MAX, OneFault(m), m.type = "QUEUE_GET_CONFIG_REPLY"
  PROVE  Matches(m)
  <1>1. validate_openflow_message(m) = validate_queue_get_config_reply(m)
    BY DEF validate_openflow_message
  <1>2. Size(m.type, m.stats) = << 16, 16 >>
    BY DEF Size, ofp_queue_get_config_reply
  <1>3. PortTaken(m) <=> PortOK(m)
    BY DEF PortTaken, TakenForPort, PortsOf, SwitchPorts, Buffers, Ports, PortOK
  <1>4. m.fault \in FaultsOf(m.type, m.stats, More(m)) =>
          m.fault \in {"none", "UNSUPPORTED_VERSION"} \cup (IF More(m) THEN QueueErrors ELSE {})
    BY DEF FaultsOf
  <1>5. m.type \in Types /\ m.length \in Nat
    BY DEF Types, Buffers
  <1>6. QED
    BY <1>1, <1>2, <1>3, <1>4, <1>5, QueueConfigReplyDecides, GoodMeans
    DEF Matches, Decides, HeaderOK, RefusedByCheck, Bodyless, HighFeature, QueueErrors

LEMMA StatsRequestMatches ==
  ASSUME NEW m \in Buffers, m.length >= 8, m.length <= USHRT_MAX, OneFault(m),
         m.type = "STATS_REQUEST"
  PROVE  Matches(m)
  <1>1. validate_openflow_message(m) = validate_stats_request(m)
    BY DEF validate_openflow_message
  <1>2. m.type \in Types /\ m.length \in Nat /\ "OUTSIDE" # "ACCEPTED"
    BY DEF Types, Buffers
  <1>3. ~RefusedByCheck(m) /\ ~Bodyless(m)
    BY DEF RefusedByCheck, Bodyless
  <1>4. Result(m, validate_openflow_message(m)) = "ACCEPTED" <=> m.length >= 10 /\ StatsRequestOK(m)
    BY <1>1, <1>2, StatsRequestDecides DEF Decides
  <1>5. SUFFICES m.length >= 10 /\ StatsRequestOK(m) <=> Good(m)
    BY <1>3, <1>4 DEF Matches
  <1>6. CASE m.stats = "DESC"
    <2>1. Size(m.type, m.stats) = << 12, 0 >>
      BY <1>6 DEF Size, ofp_stats_request
    <2>2. PortTaken(m)
      BY <1>6 DEF PortTaken, TakenForPort, PortsOf, SwitchPorts, Buffers, Ports, PortOK
    <2>3. m.fault \in FaultsOf(m.type, m.stats, More(m)) =>
            m.fault \in {"none", "UNSUPPORTED_VERSION", "INVALID_STATS_REQUEST_FLAGS"}
      BY <1>6 DEF FaultsOf
    <2>4. StatsRequestOK(m) <=> RequestOK(m, "DESC", 12, 12)
      BY <1>6 DEF StatsRequestOK
    <2>5. m.stats \in StatsTypes
      BY <1>6 DEF StatsTypes
    <2>6. QED
      BY <1>2, <1>6, <2>1, <2>2, <2>3, <2>4, <2>5, GoodMeans
      DEF RequestOK, HeaderOK, HighFeature
  <1>7. CASE m.stats = "TABLE"
    <2>1. Size(m.type, m.stats) = << 12, 0 >>
      BY <1>7 DEF Size, ofp_stats_request
    <2>2. PortTaken(m)
      BY <1>7 DEF PortTaken, TakenForPort, PortsOf, SwitchPorts, Buffers, Ports, PortOK
    <2>3. m.fault \in FaultsOf(m.type, m.stats, More(m)) =>
            m.fault \in {"none", "UNSUPPORTED_VERSION", "INVALID_STATS_REQUEST_FLAGS"}
      BY <1>7 DEF FaultsOf
    <2>4. StatsRequestOK(m) <=> RequestOK(m, "TABLE", 12, 12)
      BY <1>7 DEF StatsRequestOK
    <2>5. m.stats \in StatsTypes
      BY <1>7 DEF StatsTypes
    <2>6. QED
      BY <1>2, <1>7, <2>1, <2>2, <2>3, <2>4, <2>5, GoodMeans
      DEF RequestOK, HeaderOK, HighFeature
  <1>8. CASE m.stats = "FLOW"
    <2>1. Size(m.type, m.stats) = << 56, 0 >>
      BY <1>8 DEF Size, ofp_stats_request, ofp_flow_stats_request
    <2>2. PortTaken(m) <=> PortOK(m)
      BY <1>8 DEF PortTaken, TakenForPort, PortsOf, SwitchPorts, Buffers, Ports, PortOK
    <2>3. m.fault \in FaultsOf(m.type, m.stats, More(m)) =>
            m.fault \in {"none", "UNSUPPORTED_VERSION", "INVALID_STATS_REQUEST_FLAGS"} \cup MatchFaults
      BY <1>8 DEF FaultsOf
    <2>4. StatsRequestOK(m) <=> RequestOK(m, "FLOW", 56, 56) /\ m.fault \notin MatchFaults /\ PortOK(m)
      BY <1>8 DEF StatsRequestOK
    <2>5. m.stats \in StatsTypes
      BY <1>8 DEF StatsTypes
    <2>6. QED
      BY <1>2, <1>8, <2>1, <2>2, <2>3, <2>4, <2>5, GoodMeans
      DEF RequestOK, HeaderOK, HighFeature, MatchFaults
  <1>9. CASE m.stats = "AGGREGATE"
    <2>1. Size(m.type, m.stats) = << 56, 0 >>
      BY <1>9 DEF Size, ofp_stats_request, ofp_aggregate_stats_request
    <2>2. PortTaken(m) <=> PortOK(m)
      BY <1>9 DEF PortTaken, TakenForPort, PortsOf, SwitchPorts, Buffers, Ports, PortOK
    <2>3. m.fault \in FaultsOf(m.type, m.stats, More(m)) =>
            m.fault \in {"none", "UNSUPPORTED_VERSION", "INVALID_STATS_REQUEST_FLAGS"} \cup MatchFaults
      BY <1>9 DEF FaultsOf
    <2>4. StatsRequestOK(m) <=> RequestOK(m, "AGGREGATE", 56, 56) /\ m.fault \notin MatchFaults /\ PortOK(m)
      BY <1>9 DEF StatsRequestOK
    <2>5. m.stats \in StatsTypes
      BY <1>9 DEF StatsTypes
    <2>6. QED
      BY <1>2, <1>9, <2>1, <2>2, <2>3, <2>4, <2>5, GoodMeans
      DEF RequestOK, HeaderOK, HighFeature, MatchFaults
  <1>10. CASE m.stats = "PORT"
    <2>1. Size(m.type, m.stats) = << 20, 0 >>
      BY <1>10 DEF Size, ofp_stats_request, ofp_port_stats_request
    <2>2. PortTaken(m) <=> (PortOK(m) /\ m.port \notin {"virtual", "all"})
      BY <1>10 DEF PortTaken, TakenForPort, PortsOf, SwitchPorts, Buffers, Ports, PortOK
    <2>3. m.fault \in FaultsOf(m.type, m.stats, More(m)) =>
            m.fault \in {"none", "UNSUPPORTED_VERSION", "INVALID_STATS_REQUEST_FLAGS"}
      BY <1>10 DEF FaultsOf
    <2>4. StatsRequestOK(m) <=> RequestOK(m, "PORT", 20, 20) /\ PortOK(m) /\ m.port \notin {"virtual", "all"}
      BY <1>10 DEF StatsRequestOK
    <2>5. m.stats \in StatsTypes
      BY <1>10 DEF StatsTypes
    <2>6. QED
      BY <1>2, <1>10, <2>1, <2>2, <2>3, <2>4, <2>5, GoodMeans
      DEF RequestOK, HeaderOK, HighFeature
  <1>11. CASE m.stats = "QUEUE"
    <2>1. Size(m.type, m.stats) = << 20, 0 >>
      BY <1>11 DEF Size, ofp_stats_request, ofp_queue_stats_request
    <2>2. PortTaken(m) <=> PortOK(m)
      BY <1>11 DEF PortTaken, TakenForPort, PortsOf, SwitchPorts, Buffers, Ports, PortOK
    <2>3. m.fault \in FaultsOf(m.type, m.stats, More(m)) =>
            m.fault \in {"none", "UNSUPPORTED_VERSION", "INVALID_STATS_REQUEST_FLAGS"}
      BY <1>11 DEF FaultsOf
    <2>4. StatsRequestOK(m) <=> RequestOK(m, "QUEUE", 20, 20) /\ PortOK(m)
      BY <1>11 DEF StatsRequestOK
    <2>5. m.stats \in StatsTypes
      BY <1>11 DEF StatsTypes
    <2>6. QED
      BY <1>2, <1>11, <2>1, <2>2, <2>3, <2>4, <2>5, GoodMeans
      DEF RequestOK, HeaderOK, HighFeature
  <1>12. CASE m.stats = "VENDOR"
    <2>1. Size(m.type, m.stats) = << 16, 1 >>
      BY <1>12 DEF Size, ofp_stats_request, vendor_id
    <2>2. PortTaken(m)
      BY <1>12 DEF PortTaken, TakenForPort, PortsOf, SwitchPorts, Buffers, Ports, PortOK
    <2>3. m.fault \in FaultsOf(m.type, m.stats, More(m)) =>
            m.fault \in {"none", "UNSUPPORTED_VERSION", "INVALID_STATS_REQUEST_FLAGS"}
      BY <1>12 DEF FaultsOf
    <2>4. StatsRequestOK(m) <=> RequestOK(m, "VENDOR", 16, USHRT_MAX)
      BY <1>12 DEF StatsRequestOK
    <2>5. m.stats \in StatsTypes
      BY <1>12 DEF StatsTypes
    <2>6. QED
      BY <1>2, <1>12, <2>1, <2>2, <2>3, <2>4, <2>5, GoodMeans
      DEF RequestOK, HeaderOK, HighFeature
  <1>13. CASE m.stats = "UNDEFINED"
    <2>1. ~StatsRequestOK(m) /\ m.stats \notin StatsTypes
      BY <1>13 DEF StatsRequestOK, StatsTypes
    <2>2. QED
      BY <2>1 DEF Good, WellFormed
  <1>14. QED
    BY <1>6, <1>7, <1>8, <1>9, <1>10, <1>11, <1>12, <1>13 DEF Buffers, StatsTypes

LEMMA StatsReplyMatches ==
  ASSUME NEW m \in Buffers, m.length >= 8, m.length <= USHRT_MAX, OneFault(m),
         m.type = "STATS_REPLY"
  PROVE  Matches(m)
  <1>1. validate_openflow_message(m) = validate_stats_reply(m)
    BY DEF validate_openflow_message
  <1>2. m.type \in Types /\ m.length \in Nat /\ "OUTSIDE" # "ACCEPTED"
    BY DEF Types, Buffers
  <1>3. ~RefusedByCheck(m)
    BY DEF RefusedByCheck
  <1>4. Result(m, validate_openflow_message(m)) = "ACCEPTED" <=> m.length >= 10 /\ StatsReplyOK(m)
    BY <1>1, <1>2, StatsReplyDecides
  <1>5. SUFFICES m.length >= 10 /\ StatsReplyOK(m) <=> Good(m) \/ Bodyless(m)
    BY <1>3, <1>4 DEF Matches
  <1>6. CASE m.stats = "DESC"
    <2>1. Size(m.type, m.stats) = << 1068, 0 >>
      BY <1>6 DEF Size, ofp_stats_reply, ofp_desc_stats
    <2>2. PortTaken(m)
      BY <1>6 DEF PortTaken, TakenForPort, PortsOf, SwitchPorts, Buffers, Ports, PortOK
    <2>3. m.fault \in FaultsOf(m.type, m.stats, More(m)) =>
            m.fault \in {"none", "UNSUPPORTED_VERSION", "INVALID_STATS_REPLY_FLAGS"}
      BY <1>6 DEF FaultsOf
    <2>4. StatsReplyOK(m) <=> ReplyOK(m, 1068)
      BY <1>6 DEF StatsReplyOK
    <2>5. m.stats \in StatsTypes
      BY <1>6 DEF StatsTypes
    <2>6. Bodyless(m) <=>
            12 <= m.length /\ m.length < 1068 /\ m.hlen = m.length /\ m.fault = "none"
      BY <1>6, <2>1 DEF Bodyless, ofp_stats_reply
    <2>7. QED
      BY <1>2, <1>6, <2>1, <2>2, <2>3, <2>4, <2>5, <2>6, GoodMeans
      DEF ReplyOK, HeaderOK, HighFeature
  <1>7. CASE m.stats = "AGGREGATE"
    <2>1. Size(m.type, m.stats) = << 36, 0 >>
      BY <1>7 DEF Size, ofp_stats_reply, ofp_aggregate_stats_reply
    <2>2. PortTaken(m)
      BY <1>7 DEF PortTaken, TakenForPort, PortsOf, SwitchPorts, Buffers, Ports, PortOK
    <2>3. m.fault \in FaultsOf(m.type, m.stats, More(m)) =>
            m.fault \in {"none", "UNSUPPORTED_VERSION", "INVALID_STATS_REPLY_FLAGS"}
      BY <1>7 DEF FaultsOf
    <2>4. StatsReplyOK(m) <=> ReplyOK(m, 36)
      BY <1>7 DEF StatsReplyOK
    <2>5. m.stats \in StatsTypes
      BY <1>7 DEF StatsTypes
    <2>6. Bodyless(m) <=>
            12 <= m.length /\ m.length < 36 /\ m.hlen = m.length /\ m.fault = "none"
      BY <1>7, <2>1 DEF Bodyless, ofp_stats_reply
    <2>7. QED
      BY <1>2, <1>7, <2>1, <2>2, <2>3, <2>4, <2>5, <2>6, GoodMeans
      DEF ReplyOK, HeaderOK, HighFeature
  <1>8. CASE m.stats = "VENDOR"
    <2>1. Size(m.type, m.stats) = << 16, 1 >>
      BY <1>8 DEF Size, ofp_stats_reply, vendor_id
    <2>2. PortTaken(m)
      BY <1>8 DEF PortTaken, TakenForPort, PortsOf, SwitchPorts, Buffers, Ports, PortOK
    <2>3. m.fault \in FaultsOf(m.type, m.stats, More(m)) =>
            m.fault \in {"none", "UNSUPPORTED_VERSION", "INVALID_STATS_REPLY_FLAGS"}
      BY <1>8 DEF FaultsOf
    <2>4. StatsReplyOK(m) <=> ReplyOK(m, USHRT_MAX)
      BY <1>8 DEF StatsReplyOK
    <2>5. m.stats \in StatsTypes
      BY <1>8 DEF StatsTypes
    <2>6. Bodyless(m) <=>
            12 <= m.length /\ m.length < 16 /\ m.hlen = m.length /\ m.fault = "none"
      BY <1>8, <2>1 DEF Bodyless, ofp_stats_reply
    <2>7. QED
      BY <1>2, <1>8, <2>1, <2>2, <2>3, <2>4, <2>5, <2>6, GoodMeans
      DEF ReplyOK, HeaderOK, HighFeature
  <1>9. CASE m.stats = "TABLE"
    <2>1. Size(m.type, m.stats) = << 12, 64 >>
      BY <1>9 DEF Size, ofp_stats_reply, ofp_table_stats
    <2>2. PortTaken(m)
      BY <1>9 DEF PortTaken, TakenForPort, PortsOf, SwitchPorts, Buffers, Ports, PortOK
    <2>3. m.fault \in FaultsOf(m.type, m.stats, More(m)) =>
            m.fault \in {"none", "UNSUPPORTED_VERSION", "INVALID_STATS_REPLY_FLAGS"} \cup (IF More(m) THEN {"INVALID_WILDCARDS"} ELSE {})
      BY <1>9 DEF FaultsOf
    <2>4. StatsReplyOK(m) <=> TableReplyOK(m)
      BY <1>9 DEF StatsReplyOK
    <2>5. m.stats \in StatsTypes
      BY <1>9 DEF StatsTypes
    <2>6. ~Bodyless(m)
      BY <1>9 DEF Bodyless
    <2>7. QED
      BY <1>2, <1>9, <2>1, <2>2, <2>3, <2>4, <2>5, <2>6, GoodMeans
      DEF ReplyOK, HeaderOK, HighFeature, TableReplyOK
  <1>10. CASE m.stats = "PORT"
    <2>1. Size(m.type, m.stats) = << 12, 104 >>
      BY <1>10 DEF Size, ofp_stats_reply, ofp_port_stats
    <2>2. PortTaken(m) <=> PortOK(m)
      BY <1>10 DEF PortTaken, TakenForPort, PortsOf, SwitchPorts, Buffers, Ports, PortOK
    <2>3. m.fault \in FaultsOf(m.type, m.stats, More(m)) =>
            m.fault \in {"none", "UNSUPPORTED_VERSION", "INVALID_STATS_REPLY_FLAGS"}
      BY <1>10 DEF FaultsOf
    <2>4. StatsReplyOK(m) <=> PortsReplyOK(m, 104)
      BY <1>10 DEF StatsReplyOK
    <2>5. m.stats \in StatsTypes
      BY <1>10 DEF StatsTypes
    <2>6. ~Bodyless(m)
      BY <1>10 DEF Bodyless
    <2>7. QED
      BY <1>2, <1>10, <2>1, <2>2, <2>3, <2>4, <2>5, <2>6, GoodMeans
      DEF ReplyOK, HeaderOK, HighFeature, PortsReplyOK
  <1>11. CASE m.stats = "QUEUE"
    <2>1. Size(m.type, m.stats) = << 12, 32 >>
      BY <1>11 DEF Size, ofp_stats_reply, ofp_queue_stats
    <2>2. PortTaken(m) <=> PortOK(m)
      BY <1>11 DEF PortTaken, TakenForPort, PortsOf, SwitchPorts, Buffers, Ports, PortOK
    <2>3. m.fault \in FaultsOf(m.type, m.stats, More(m)) =>
            m.fault \in {"none", "UNSUPPORTED_VERSION", "INVALID_STATS_REPLY_FLAGS"}
      BY <1>11 DEF FaultsOf
    <2>4. StatsReplyOK(m) <=> PortsReplyOK(m, 32)
      BY <1>11 DEF StatsReplyOK
    <2>5. m.stats \in StatsTypes
      BY <1>11 DEF StatsTypes
    <2>6. ~Bodyless(m)
      BY <1>11 DEF Bodyless
    <2>7. QED
      BY <1>2, <1>11, <2>1, <2>2, <2>3, <2>4, <2>5, <2>6, GoodMeans
      DEF ReplyOK, HeaderOK, HighFeature, PortsReplyOK
  <1>12. CASE m.stats = "FLOW"
    <2>1. Size(m.type, m.stats) = << 12, 88 >>
      BY <1>12 DEF Size, ofp_stats_reply, ofp_flow_stats
    <2>2. PortTaken(m)
      BY <1>12 DEF PortTaken, TakenForPort, PortsOf, SwitchPorts, Buffers, Ports, PortOK
    <2>3. m.fault \in FaultsOf(m.type, m.stats, More(m)) =>
            m.fault \in {"none", "UNSUPPORTED_VERSION", "INVALID_STATS_REPLY_FLAGS"}
                           \cup (IF More(m) THEN MatchFaults \cup {"INVALID_FLOW_PRIORITY"} ELSE {})
      BY <1>12 DEF FaultsOf
    <2>4. StatsReplyOK(m) <=> FlowReplyOK(m)
      BY <1>12 DEF StatsReplyOK
    <2>5. m.stats \in StatsTypes
      BY <1>12 DEF StatsTypes
    <2>6. ~Bodyless(m)
      BY <1>12 DEF Bodyless
    <2>7. /\ m.length >= 12 => (m.length - 12) % 88 = 0 \/ m.length < 66
          /\ More(m) <=> m.length > 12
          /\ m.length >= 12 => m.fault \in FaultsOf(m.type, m.stats, More(m))
          /\ Good(m) <=> /\ m.hlen = m.length /\ m.length >= 12 /\ (m.length - 12) % 88 = 0
                           /\ m.fault \in {"none", HighFeature}
      BY <1>2, <2>1, <2>2, <2>5, GoodMeans
    <2>8. m.length > 12 /\ (m.length - 12) % 88 = 0 => m.length >= 100
      BY <1>2
    <2>9. (20 - 12) % 88 # 0
      OBVIOUS
    <2>10. m.fault = "none" => m.fault \notin MatchFaults /\ m.fault \notin ActionErrors
      BY ActionErrorsAre DEF MatchFaults
    <2>11. FlowReplyOK(m) => Good(m)
      BY <1>2, <2>3, <2>7 DEF FlowReplyOK, ReplyOK, HeaderOK
    <2>12. Good(m) => FlowReplyOK(m)
      BY <1>2, <1>12, <2>3, <2>7, <2>8, <2>10
      DEF FlowReplyOK, ReplyOK, HeaderOK, HighFeature, MatchFaults
    <2>13. m.length >= 10 /\ FlowReplyOK(m) <=> Good(m)
      BY <1>2, <2>7, <2>11, <2>12
    <2>14. QED
      BY <2>4, <2>6, <2>13
  <1>13. CASE m.stats = "UNDEFINED"
    <2>1. ~StatsReplyOK(m) /\ m.stats \notin StatsTypes /\ ~Bodyless(m)
      BY <1>13 DEF StatsReplyOK, StatsTypes, Bodyless
    <2>2. QED
      BY <2>1 DEF Good, WellFormed
  <1>14. QED
    BY <1>6, <1>7, <1>8, <1>9, <1>10, <1>11, <1>12, <1>13 DEF Buffers, StatsTypes

LEMMA UndefinedMatches ==
  ASSUME NEW m \in Buffers, m.length >= 8, m.type = "UNDEFINED"
  PROVE  /\ Matches(m)
         /\ Result(m, validate_openflow_message(m)) = "UNDEFINED_TYPE"
  <1>1. validate_openflow_message(m) = << Test(2, "UNDEFINED_TYPE", TRUE) >>
    BY DEF validate_openflow_message
  <1>2. 2 <= m.length /\ "UNDEFINED_TYPE" \in Errors
    BY DEF Errors, Buffers
  <1>3. Result(m, << Test(2, "UNDEFINED_TYPE", TRUE) >>) = "UNDEFINED_TYPE"
    <2>1. 2 \in Nat /\ TRUE \in BOOLEAN
      OBVIOUS
    <2>2. QED
      BY <1>2, <2>1, OneTest, Zenon
  <1>4. ~Good(m) /\ ~Bodyless(m)
    BY DEF Good, WellFormed, Bodyless, Types
  <1>5. QED
    BY <1>1, <1>3, <1>4 DEF Matches

LEMMA EveryMessageMatches ==
  ASSUME NEW m \in Buffers, m.length >= 8, m.length <= USHRT_MAX, OneFault(m)
  PROVE  Matches(m)
  <1>1. m.type \in Types \cup {"UNDEFINED"}
    BY DEF Buffers
  <1>2. CASE m.type \in {"HELLO", "ERROR", "ECHO_REQUEST", "ECHO_REPLY", "VENDOR", "FEATURES_REQUEST",
                        "FEATURES_REPLY", "GET_CONFIG_REQUEST"}
    BY <1>2, HelloMatches, ErrorMatches, EchoRequestMatches, EchoReplyMatches, VendorMatches,
       FeaturesRequestMatches, FeaturesReplyMatches, GetConfigRequestMatches
  <1>3. CASE m.type \in {"GET_CONFIG_REPLY", "SET_CONFIG", "PACKET_IN", "FLOW_REMOVED", "PORT_STATUS",
                        "PACKET_OUT", "FLOW_MOD", "PORT_MOD"}
    BY <1>3, GetConfigReplyMatches, SetConfigMatches, PacketInMatches, FlowRemovedMatches,
       PortStatusMatches, PacketOutMatches, FlowModMatches, PortModMatches
  <1>4. CASE m.type \in {"STATS_REQUEST", "STATS_REPLY", "BARRIER_REQUEST", "BARRIER_REPLY",
                        "QUEUE_GET_CONFIG_REQUEST", "QUEUE_GET_CONFIG_REPLY", "UNDEFINED"}
    BY <1>4, StatsRequestMatches, StatsReplyMatches, BarrierRequestMatches, BarrierReplyMatches,
       QueueGetConfigRequestMatches, QueueGetConfigReplyMatches, UndefinedMatches
  <1>5. QED
    BY <1>1, <1>2, <1>3, <1>4 DEF Types

-----------------------------------------------------------------------------
(* What the checks make of any buffer.                                     *)

LEMMA ErrorSets ==
  /\ CommonErrors \subseteq Errors /\ ActionErrors \subseteq Errors /\ MatchFaults \subseteq Errors
  /\ RequestErrors \subseteq Errors /\ StatsRequestErrors \subseteq Errors
  /\ {"INVALID_SWITCH_CONFIG", "UNDEFINED_FLOW_MOD_COMMAND", "INVALID_FLOW_PRIORITY",
      "INVALID_FLOW_MOD_FLAGS", "INVALID_PORT_NO", "INVALID_PORT_CONFIG", "INVALID_PORT_MASK",
      "INVALID_PORT_FEATURES", "UNDEFINED_TYPE"} \subseteq Errors
  BY ActionErrorsAre
  DEF Errors, CommonErrors, MatchFaults, RequestErrors, StatsRequestErrors

\* It reads beyond the end in the cases ReadsInside names, and in no other.
LEMMA AnyCheckStaysInside ==
  ASSUME NEW b \in Buffers, b.length >= 8,
         Result(b, validate_openflow_message(b)) = "OUTSIDE"
  PROVE  \/ b.type \in {"STATS_REQUEST", "STATS_REPLY"} /\ b.length < 10
         \/ ShortFlows(b)
  <1> DEFINE r == Result(b, validate_openflow_message(b))
  <1>1. SUFFICES ASSUME ~(b.type \in {"STATS_REQUEST", "STATS_REPLY"} /\ b.length < 10),
                        ~ShortFlows(b)
                 PROVE  r \in {"ACCEPTED"} \cup Errors
    BY ErrorsAreNoResults
  <1>2. b.length \in Nat
    BY DEF Buffers
  <1>3. CASE b.type = "HELLO"
    <2>1. validate_openflow_message(b) = validate_hello(b)
      BY <1>3 DEF validate_openflow_message
    <2>2. QED
      BY <2>1, HeadersDecide, ErrorSets DEF Decides
  <1>4. CASE b.type = "ERROR"
    <2>1. validate_openflow_message(b) = validate_error(b)
      BY <1>4 DEF validate_openflow_message
    <2>2. QED
      BY <2>1, HeadersDecide, ErrorSets DEF Decides
  <1>5. CASE b.type = "ECHO_REQUEST"
    <2>1. validate_openflow_message(b) = validate_echo_request(b)
      BY <1>5 DEF validate_openflow_message
    <2>2. QED
      BY <2>1, EchoesDecide, ErrorSets DEF Decides
  <1>6. CASE b.type = "ECHO_REPLY"
    <2>1. validate_openflow_message(b) = validate_echo_reply(b)
      BY <1>6 DEF validate_openflow_message
    <2>2. QED
      BY <2>1, EchoesDecide, ErrorSets DEF Decides
  <1>7. CASE b.type = "VENDOR"
    <2>1. validate_openflow_message(b) = validate_vendor(b)
      BY <1>7 DEF validate_openflow_message
    <2>2. QED
      BY <2>1, EchoesDecide, ErrorSets DEF Decides
  <1>8. CASE b.type = "FEATURES_REQUEST"
    <2>1. validate_openflow_message(b) = validate_features_request(b)
      BY <1>8 DEF validate_openflow_message
    <2>2. QED
      BY <2>1, HeadersDecide, ErrorSets DEF Decides
  <1>9. CASE b.type = "FEATURES_REPLY"
    <2>1. validate_openflow_message(b) = validate_features_reply(b)
      BY <1>9 DEF validate_openflow_message
    <2>2. QED
      BY <2>1, FeaturesReplyDecides, ErrorSets DEF Decides
  <1>10. CASE b.type = "GET_CONFIG_REQUEST"
    <2>1. validate_openflow_message(b) = validate_get_config_request(b)
      BY <1>10 DEF validate_openflow_message
    <2>2. QED
      BY <2>1, HeadersDecide, ErrorSets DEF Decides
  <1>11. CASE b.type = "GET_CONFIG_REPLY"
    <2>1. "GET_CONFIG_REPLY" \in Types
      BY DEF Types
    <2>2. validate_openflow_message(b) = validate_switch_config(b, "GET_CONFIG_REPLY")
      BY <1>11 DEF validate_openflow_message, validate_get_config_reply
    <2>3. QED
      BY <2>1, <2>2, SwitchConfigDecides, ErrorSets DEF Decides
  <1>12. CASE b.type = "SET_CONFIG"
    <2>1. "SET_CONFIG" \in Types
      BY DEF Types
    <2>2. validate_openflow_message(b) = validate_switch_config(b, "SET_CONFIG")
      BY <1>12 DEF validate_openflow_message, validate_set_config
    <2>3. QED
      BY <2>1, <2>2, SwitchConfigDecides, ErrorSets DEF Decides
  <1>13. CASE b.type = "PACKET_IN"
    <2>1. validate_openflow_message(b) = validate_packet_in(b)
      BY <1>13 DEF validate_openflow_message
    <2>2. QED
      BY <2>1, PacketInDecides, ErrorSets DEF Decides
  <1>14. CASE b.type = "FLOW_REMOVED"
    <2>1. validate_openflow_message(b) = validate_flow_removed(b)
      BY <1>14 DEF validate_openflow_message
    <2>2. QED
      BY <2>1, FlowRemovedDecides, ErrorSets DEF Decides
  <1>15. CASE b.type = "PORT_STATUS"
    <2>1. validate_openflow_message(b) = validate_port_status(b)
      BY <1>15 DEF validate_openflow_message
    <2>2. QED
      BY <2>1, PortStatusDecides, ErrorSets DEF Decides
  <1>16. CASE b.type = "PACKET_OUT"
    <2>1. validate_openflow_message(b) = validate_packet_out(b)
      BY <1>16 DEF validate_openflow_message
    <2>2. QED
      BY <2>1, PacketOutDecides, ErrorSets DEF Decides
  <1>17. CASE b.type = "FLOW_MOD"
    <2>1. validate_openflow_message(b) = validate_flow_mod(b)
      BY <1>17 DEF validate_openflow_message
    <2>2. QED
      BY <2>1, FlowModDecides, ErrorSets DEF Decides
  <1>18. CASE b.type = "PORT_MOD"
    <2>1. validate_openflow_message(b) = validate_port_mod(b)
      BY <1>18 DEF validate_openflow_message
    <2>2. QED
      BY <2>1, PortModDecides, ErrorSets DEF Decides
  <1>19. CASE b.type = "BARRIER_REQUEST"
    <2>1. validate_openflow_message(b) = validate_barrier_request(b)
      BY <1>19 DEF validate_openflow_message
    <2>2. QED
      BY <2>1, HeadersDecide, ErrorSets DEF Decides
  <1>20. CASE b.type = "BARRIER_REPLY"
    <2>1. validate_openflow_message(b) = validate_barrier_reply(b)
      BY <1>20 DEF validate_openflow_message
    <2>2. QED
      BY <2>1, HeadersDecide, ErrorSets DEF Decides
  <1>21. CASE b.type = "QUEUE_GET_CONFIG_REQUEST"
    <2>1. validate_openflow_message(b) = validate_queue_get_config_request(b)
      BY <1>21 DEF validate_openflow_message
    <2>2. QED
      BY <2>1, QueueConfigRequestDecides, ErrorSets DEF Decides
  <1>22. CASE b.type = "QUEUE_GET_CONFIG_REPLY"
    <2>1. validate_openflow_message(b) = validate_queue_get_config_reply(b)
      BY <1>22 DEF validate_openflow_message
    <2>2. QED
      BY <2>1, QueueConfigReplyDecides, ErrorSets DEF Decides
  <1>23. CASE b.type = "STATS_REQUEST"
    <2>1. validate_openflow_message(b) = validate_stats_request(b) /\ b.length >= 10
      BY <1>1, <1>2, <1>23 DEF validate_openflow_message
    <2>2. QED
      BY <2>1, StatsRequestDecides, ErrorSets DEF Decides
  <1>24. CASE b.type = "STATS_REPLY"
    <2>1. validate_openflow_message(b) = validate_stats_reply(b) /\ b.length >= 10
      BY <1>1, <1>2, <1>24 DEF validate_openflow_message
    <2>2. ~(b.stats = "FLOW" /\ b.length \in 13 .. 65)
      BY <1>1, <1>24 DEF ShortFlows
    <2>3. QED
      BY <2>1, <2>2, StatsReplyDecides
  <1>25. CASE b.type = "UNDEFINED"
    BY <1>25, UndefinedMatches, ErrorSets
  <1> HIDE DEF r
  <1>26. QED
    BY <1>3, <1>4, <1>5, <1>6, <1>7, <1>8, <1>9, <1>10, <1>11, <1>12, <1>13, <1>14, <1>15, <1>16, <1>17, <1>18, <1>19, <1>20, <1>21, <1>22, <1>23, <1>24, <1>25 DEF Buffers, Types

\* A refused request can be answered, except for two errors in actions.
Answered(type, error) ==
  cc_trans_error_type_and_code(type, error) <=>
    ~(type \in {"PACKET_OUT", "FLOW_MOD"} /\ error \in {"INVALID_NW_TOS", "TOO_SHORT_ACTION"})

LEMMA RequestIsAnswered ==
  ASSUME NEW b \in Buffers, b.length >= 8, b.type \in Requests,
         Result(b, validate_openflow_message(b)) \notin {"ACCEPTED", "OUTSIDE"}
  PROVE  Answered(b.type, Result(b, validate_openflow_message(b)))
  <1> DEFINE r == Result(b, validate_openflow_message(b))
  <1>1. b.type \in Types /\ b.length \in Nat
    BY DEF Requests, Types, Buffers
  <1>2. ASSUME NEW e \in CommonErrors PROVE Answered(b.type, e)
    BY DEF Answered, cc_trans_error_type_and_code, error_maps, CommonErrors
  <1>3. CASE b.type = "HELLO"
    <2>1. validate_openflow_message(b) = validate_hello(b)
      BY <1>3 DEF validate_openflow_message
    <2>2. r \in CommonErrors
      BY <2>1, HeadersDecide DEF Decides
    <2>3. QED
      BY <1>2, <2>2
  <1>4. CASE b.type = "ECHO_REQUEST"
    <2>1. validate_openflow_message(b) = validate_echo_request(b)
      BY <1>4 DEF validate_openflow_message
    <2>2. r \in CommonErrors
      BY <2>1, EchoesDecide DEF Decides
    <2>3. QED
      BY <1>2, <2>2
  <1>5. CASE b.type = "VENDOR"
    <2>1. validate_openflow_message(b) = validate_vendor(b)
      BY <1>5 DEF validate_openflow_message
    <2>2. r \in CommonErrors
      BY <2>1, EchoesDecide DEF Decides
    <2>3. QED
      BY <1>2, <2>2
  <1>6. CASE b.type = "FEATURES_REQUEST"
    <2>1. validate_openflow_message(b) = validate_features_request(b)
      BY <1>6 DEF validate_openflow_message
    <2>2. r \in CommonErrors
      BY <2>1, HeadersDecide DEF Decides
    <2>3. QED
      BY <1>2, <2>2
  <1>7. CASE b.type = "GET_CONFIG_REQUEST"
    <2>1. validate_openflow_message(b) = validate_get_config_request(b)
      BY <1>7 DEF validate_openflow_message
    <2>2. r \in CommonErrors
      BY <2>1, HeadersDecide DEF Decides
    <2>3. QED
      BY <1>2, <2>2
  <1>8. CASE b.type = "BARRIER_REQUEST"
    <2>1. validate_openflow_message(b) = validate_barrier_request(b)
      BY <1>8 DEF validate_openflow_message
    <2>2. r \in CommonErrors
      BY <2>1, HeadersDecide DEF Decides
    <2>3. QED
      BY <1>2, <2>2
  <1>9. CASE b.type = "SET_CONFIG"
    <2>1. validate_openflow_message(b) = validate_switch_config(b, "SET_CONFIG")
      BY <1>9 DEF validate_openflow_message, validate_set_config
    <2>2. r \in CommonErrors \cup {"INVALID_SWITCH_CONFIG"}
      BY <1>1, <1>9, <2>1, SwitchConfigDecides DEF Decides
    <2>3. ASSUME NEW e \in {"INVALID_SWITCH_CONFIG"}
          PROVE  Answered(b.type, e)
      BY <1>1, <1>9
      DEF Answered, cc_trans_error_type_and_code, error_maps, CommonErrors
    <2> HIDE DEF r
    <2>4. r \in CommonErrors \/ r \in {"INVALID_SWITCH_CONFIG"}
      BY <2>2
    <2>5. Answered(b.type, r)
      BY <1>2, <2>3, <2>4
    <2>6. QED
      BY <2>5 DEF r
  <1>10. CASE b.type = "PACKET_OUT"
    <2>1. validate_openflow_message(b) = validate_packet_out(b)
      BY <1>10 DEF validate_openflow_message
    <2>2. r \in CommonErrors \cup ActionErrors
      BY <1>1, <1>10, <2>1, PacketOutDecides DEF Decides
    <2>3. ASSUME NEW e \in ActionErrors
          PROVE  Answered(b.type, e)
      BY <1>1, <1>10, ActionErrorsAre
      DEF Answered, cc_trans_error_type_and_code, error_maps, MappedActionErrors, CommonErrors
    <2> HIDE DEF r
    <2>4. r \in CommonErrors \/ r \in ActionErrors
      BY <2>2
    <2>5. Answered(b.type, r)
      BY <1>2, <2>3, <2>4
    <2>6. QED
      BY <2>5 DEF r
  <1>11. CASE b.type = "FLOW_MOD"
    <2>1. validate_openflow_message(b) = validate_flow_mod(b)
      BY <1>11 DEF validate_openflow_message
    <2>2. r \in CommonErrors \cup ActionErrors \cup MatchFaults \cup
              {"UNDEFINED_FLOW_MOD_COMMAND", "INVALID_FLOW_PRIORITY", "INVALID_FLOW_MOD_FLAGS"}
      BY <1>1, <1>11, <2>1, FlowModDecides DEF Decides
    <2>3. ASSUME NEW e \in ActionErrors \cup MatchFaults \cup
              {"UNDEFINED_FLOW_MOD_COMMAND", "INVALID_FLOW_PRIORITY", "INVALID_FLOW_MOD_FLAGS"}
          PROVE  Answered(b.type, e)
      BY <1>1, <1>11, ActionErrorsAre
      DEF Answered, cc_trans_error_type_and_code, error_maps, MappedActionErrors, CommonErrors, MatchFaults
    <2> HIDE DEF r
    <2>4. r \in CommonErrors \/ r \in ActionErrors \cup MatchFaults \cup
              {"UNDEFINED_FLOW_MOD_COMMAND", "INVALID_FLOW_PRIORITY", "INVALID_FLOW_MOD_FLAGS"}
      BY <2>2
    <2>5. Answered(b.type, r)
      BY <1>2, <2>3, <2>4
    <2>6. QED
      BY <2>5 DEF r
  <1>12. CASE b.type = "PORT_MOD"
    <2>1. validate_openflow_message(b) = validate_port_mod(b)
      BY <1>12 DEF validate_openflow_message
    <2>2. r \in CommonErrors \cup {"INVALID_PORT_NO", "INVALID_PORT_CONFIG", "INVALID_PORT_MASK", "INVALID_PORT_FEATURES"}
      BY <1>1, <1>12, <2>1, PortModDecides DEF Decides
    <2>3. ASSUME NEW e \in {"INVALID_PORT_NO", "INVALID_PORT_CONFIG", "INVALID_PORT_MASK", "INVALID_PORT_FEATURES"}
          PROVE  Answered(b.type, e)
      BY <1>1, <1>12
      DEF Answered, cc_trans_error_type_and_code, error_maps, CommonErrors
    <2> HIDE DEF r
    <2>4. r \in CommonErrors \/ r \in {"INVALID_PORT_NO", "INVALID_PORT_CONFIG", "INVALID_PORT_MASK", "INVALID_PORT_FEATURES"}
      BY <2>2
    <2>5. Answered(b.type, r)
      BY <1>2, <2>3, <2>4
    <2>6. QED
      BY <2>5 DEF r
  <1>13. CASE b.type = "QUEUE_GET_CONFIG_REQUEST"
    <2>1. validate_openflow_message(b) = validate_queue_get_config_request(b)
      BY <1>13 DEF validate_openflow_message
    <2>2. r \in CommonErrors \cup {"INVALID_PORT_NO"}
      BY <1>1, <1>13, <2>1, QueueConfigRequestDecides DEF Decides
    <2>3. ASSUME NEW e \in {"INVALID_PORT_NO"}
          PROVE  Answered(b.type, e)
      BY <1>1, <1>13
      DEF Answered, cc_trans_error_type_and_code, error_maps, CommonErrors
    <2> HIDE DEF r
    <2>4. r \in CommonErrors \/ r \in {"INVALID_PORT_NO"}
      BY <2>2
    <2>5. Answered(b.type, r)
      BY <1>2, <2>3, <2>4
    <2>6. QED
      BY <2>5 DEF r
  <1>14. CASE b.type = "STATS_REQUEST"
    <2>1. validate_openflow_message(b) = validate_stats_request(b)
      BY <1>14 DEF validate_openflow_message
    <2>2. r \in StatsRequestErrors
      BY <1>1, <2>1, StatsRequestDecides DEF Decides
    <2>3. ASSUME NEW e \in StatsRequestErrors
          PROVE  Answered(b.type, e)
      BY <1>1, <1>14
      DEF Answered, cc_trans_error_type_and_code, error_maps, CommonErrors, StatsRequestErrors,
          RequestErrors, MatchFaults
    <2>4. QED
      BY <2>2, <2>3
  <1>15. QED
    BY <1>3, <1>4, <1>5, <1>6, <1>7, <1>8, <1>9, <1>10, <1>11, <1>12, <1>13, <1>14 DEF Requests

\* What a handler accepts.
LEMMA HandlerDecides ==
  ASSUME NEW b \in Buffers, b.length >= 8, b.type \in Dispatched
  PROVE  LET r == Result(b, cc_recv_ops(b)) IN
         /\ r = "ACCEPTED" => b.hlen = b.length
         /\ r # "OUTSIDE"
         /\ b.length <= USHRT_MAX /\ OneFault(b) =>
              (r = "ACCEPTED" <=> (Proper(b) /\ ~RefusedByHandler(b)) \/ AcceptedByHandler(b))
  <1> DEFINE r == Result(b, cc_recv_ops(b))
             goal == /\ r = "ACCEPTED" => b.hlen = b.length
                     /\ r # "OUTSIDE"
                     /\ b.length <= USHRT_MAX /\ OneFault(b) =>
                          (r = "ACCEPTED" <=> (Proper(b) /\ ~RefusedByHandler(b)) \/ AcceptedByHandler(b))
  <1>1. \A e \in Errors : e # "OUTSIDE" /\ e # "ACCEPTED"
    BY ErrorsAreNoResults
  <1>2. ASSUME cc_recv_ops(b) = validate_openflow_message(b),
               b.type \notin {"FLOW_REMOVED", "STATS_REPLY"},
               r = "ACCEPTED" => b.hlen = b.length,
               r # "OUTSIDE"
        PROVE  goal
    <2>1. b.length <= USHRT_MAX /\ OneFault(b) =>
            (r = "ACCEPTED" <=> (Proper(b) /\ ~RefusedByCheck(b)) \/ AcceptedByCheck(b))
      BY <1>2, EveryMessageMatches, MatchesProtocol
    <2>2. RefusedByCheck(b) <=> RefusedByHandler(b)
      BY <1>2 DEF RefusedByCheck, RefusedByHandler, Dispatched
    <2>3. b.type \notin {"PACKET_IN", "PORT_STATUS"} => ~TakenForPort(b)
      BY <1>2 DEF TakenForPort, PortsOf, Dispatched, Buffers
    <2>4. b.type \in {"PACKET_IN", "PORT_STATUS"} => ~RefusedByCheck(b)
      BY DEF RefusedByCheck
    <2>5. AcceptedByCheck(b) <=> AcceptedByHandler(b)
      BY <1>2, <2>3, <2>4 DEF AcceptedByCheck, Bodyless, AcceptedByHandler
    <2>6. QED
      BY <1>2, <2>1, <2>2, <2>5
  <1>3. ASSUME b.type = "HELLO" PROVE goal
    <2>1. /\ cc_recv_ops(b) = validate_hello(b)
          /\ validate_openflow_message(b) = validate_hello(b)
      BY <1>3 DEF cc_recv_ops, validate_openflow_message
    <2>2. (r = "ACCEPTED" => b.hlen = b.length) /\ r # "OUTSIDE"
      BY <1>1, <2>1, HeadersDecide, ErrorSets DEF Decides, HeaderOK
    <2> HIDE DEF goal
    <2>3. QED
      BY <1>2, <1>3, <2>1, <2>2
  <1>4. ASSUME b.type = "ERROR" PROVE goal
    <2>1. /\ cc_recv_ops(b) = validate_error(b)
          /\ validate_openflow_message(b) = validate_error(b)
      BY <1>4 DEF cc_recv_ops, validate_openflow_message
    <2>2. (r = "ACCEPTED" => b.hlen = b.length) /\ r # "OUTSIDE"
      BY <1>1, <2>1, HeadersDecide, ErrorSets DEF Decides, HeaderOK
    <2> HIDE DEF goal
    <2>3. QED
      BY <1>2, <1>4, <2>1, <2>2
  <1>5. ASSUME b.type = "ECHO_REQUEST" PROVE goal
    <2>1. /\ cc_recv_ops(b) = validate_echo_request(b)
          /\ validate_openflow_message(b) = validate_echo_request(b)
      BY <1>5 DEF cc_recv_ops, validate_openflow_message
    <2>2. (r = "ACCEPTED" => b.hlen = b.length) /\ r # "OUTSIDE"
      BY <1>1, <2>1, EchoesDecide, ErrorSets DEF Decides, HeaderOK
    <2> HIDE DEF goal
    <2>3. QED
      BY <1>2, <1>5, <2>1, <2>2
  <1>6. ASSUME b.type = "ECHO_REPLY" PROVE goal
    <2>1. /\ cc_recv_ops(b) = validate_echo_reply(b)
          /\ validate_openflow_message(b) = validate_echo_reply(b)
      BY <1>6 DEF cc_recv_ops, validate_openflow_message
    <2>2. (r = "ACCEPTED" => b.hlen = b.length) /\ r # "OUTSIDE"
      BY <1>1, <2>1, EchoesDecide, ErrorSets DEF Decides, HeaderOK
    <2> HIDE DEF goal
    <2>3. QED
      BY <1>2, <1>6, <2>1, <2>2
  <1>7. ASSUME b.type = "VENDOR" PROVE goal
    <2>1. /\ cc_recv_ops(b) = validate_vendor(b)
          /\ validate_openflow_message(b) = validate_vendor(b)
      BY <1>7 DEF cc_recv_ops, validate_openflow_message
    <2>2. (r = "ACCEPTED" => b.hlen = b.length) /\ r # "OUTSIDE"
      BY <1>1, <2>1, EchoesDecide, ErrorSets DEF Decides, HeaderOK
    <2> HIDE DEF goal
    <2>3. QED
      BY <1>2, <1>7, <2>1, <2>2
  <1>8. ASSUME b.type = "GET_CONFIG_REPLY" PROVE goal
    <2>1. /\ cc_recv_ops(b) = validate_get_config_reply(b)
          /\ validate_openflow_message(b) = validate_get_config_reply(b)
      BY <1>8 DEF cc_recv_ops, validate_openflow_message
    <2>2. "GET_CONFIG_REPLY" \in Types /\ validate_get_config_reply(b) = validate_switch_config(b, "GET_CONFIG_REPLY")
      BY DEF Types, validate_get_config_reply
    <2>3. (r = "ACCEPTED" => b.hlen = b.length) /\ r # "OUTSIDE"
      BY <1>1, <2>1, <2>2, SwitchConfigDecides, ErrorSets DEF Decides, HeaderOK
    <2> HIDE DEF goal
    <2>4. QED
      BY <1>2, <1>8, <2>1, <2>3
  <1>9. ASSUME b.type = "PACKET_IN" PROVE goal
    <2>1. /\ cc_recv_ops(b) = validate_packet_in(b)
          /\ validate_openflow_message(b) = validate_packet_in(b)
      BY <1>9 DEF cc_recv_ops, validate_openflow_message
    <2>2. (r = "ACCEPTED" => b.hlen = b.length) /\ r # "OUTSIDE"
      BY <1>1, <2>1, PacketInDecides, ErrorSets DEF Decides, HeaderOK
    <2> HIDE DEF goal
    <2>3. QED
      BY <1>2, <1>9, <2>1, <2>2
  <1>10. ASSUME b.type = "PORT_STATUS" PROVE goal
    <2>1. /\ cc_recv_ops(b) = validate_port_status(b)
          /\ validate_openflow_message(b) = validate_port_status(b)
      BY <1>10 DEF cc_recv_ops, validate_openflow_message
    <2>2. (r = "ACCEPTED" => b.hlen = b.length) /\ r # "OUTSIDE"
      BY <1>1, <2>1, PortStatusDecides, ErrorSets DEF Decides, HeaderOK
    <2> HIDE DEF goal
    <2>3. QED
      BY <1>2, <1>10, <2>1, <2>2
  <1>11. ASSUME b.type = "FLOW_REMOVED" PROVE goal
    <2>1. cc_recv_ops(b) = validate_flow_mod(b)
      BY <1>11 DEF cc_recv_ops
    <2>2. r # "ACCEPTED" /\ r # "OUTSIDE"
      BY <1>1, <1>11, <2>1, FlowModDecides, ErrorSets DEF Decides, HeaderOK
    <2>3. RefusedByHandler(b) /\ ~AcceptedByHandler(b)
      BY <1>11 DEF RefusedByHandler, AcceptedByHandler
    <2>4. QED
      BY <2>2, <2>3
  <1>12. ASSUME b.type = "STATS_REPLY" PROVE goal
    <2>1. cc_recv_ops(b) = validate_port_status(b)
      BY <1>12 DEF cc_recv_ops
    <2>2. r # "ACCEPTED" /\ r # "OUTSIDE"
      BY <1>1, <1>12, <2>1, PortStatusDecides, ErrorSets DEF Decides, HeaderOK
    <2>3. RefusedByHandler(b) /\ ~AcceptedByHandler(b)
      BY <1>12 DEF RefusedByHandler, AcceptedByHandler
    <2>4. QED
      BY <2>2, <2>3
  <1> HIDE DEF goal
  <1>13. goal
    BY <1>3, <1>4, <1>5, <1>6, <1>7, <1>8, <1>9, <1>10, <1>11, <1>12 DEF Dispatched
  <1>14. QED
    BY <1>13 DEF goal

-----------------------------------------------------------------------------
(* The reception.                                                          *)

LEMMA SentAreBuffers == \A m \in Sent : m \in Buffers /\ m.length \in Nat /\ m.length >= 8
  BY DEF Sent, Buffers, ofp_header

(***************************************************************************)
(* The invariant.  Returned: what the last read returned, beside the       *)
(* message it began in.  Outcome: what became of it, up to now.            *)
(***************************************************************************)
Returned ==
  /\ buf \in Buffers /\ first \in Sent
  /\ stage # "none" => buf.length >= 8 /\ buf.length <= CC_RECV_BUFFER_SIZE
  /\ stage # "none" /\ Whole => buf = first
  /\ stage \in {"queued", "done"} /\ Framed => buf.hlen = first.length

Outcome ==
  /\ stage = "none" => result \in {"none", "SHORT"}
  /\ stage = "queued" => result = "none" /\ Accepts(buf)
  /\ stage = "done" =>
       \/ result = "DROPPED" /\ ~Accepts(buf)
       \/ result = "IGNORED" /\ buf.type \notin Dispatched
       \/ /\ buf.type \in Dispatched /\ Accepts(buf)
          /\ result = Result(buf, cc_recv_ops(buf))
  /\ stage = "checked" => result = Result(buf, validate_openflow_message(buf))

IInv == TypeOK /\ Returned /\ Outcome

LEMMA InitInv == Init => IInv
  <1> SUFFICES ASSUME Init PROVE IInv
    OBVIOUS
  <1>1. PICK m \in Messages : stream = <<m, Second>> /\ first = m
    BY DEF Init
  <1>2. /\ m \in Sent /\ Second \in Sent
        /\ m \in Buffers /\ m.length \in Nat /\ m.length > 0 /\ Second \in Buffers
    BY MessagesAreSent, SentAreBuffers
  <1>3. stream \in Seq(Sent) /\ Len(stream) = 2 /\ Head(stream) = m
    BY <1>1, <1>2
  <1>4. TypeOK
    BY <1>2, <1>3 DEF Init, TypeOK
  <1>5. Returned
    BY <1>1, <1>2 DEF Init, Returned
  <1>6. Outcome
    BY DEF Init, Outcome
  <1>7. QED
    BY <1>4, <1>5, <1>6 DEF IInv

\* What is at the front of the stream, and how far the reads may go.
LEMMA FrontOfStream ==
  ASSUME TypeOK, stream # <<>>
  PROVE  /\ Head(stream) \in Sent /\ Head(stream) \in Buffers
         /\ Head(stream).length \in Nat /\ skip \in Nat /\ skip < Head(stream).length
         /\ Rest \in Nat /\ Rest > 0
         /\ Tail(stream) \in Seq(Sent) /\ Len(Tail(stream)) = Len(stream) - 1
         /\ \/ Len(stream) = 1 /\ Available = Rest
            \/ /\ Len(stream) = 2 /\ Tail(stream) # <<>> /\ Head(Tail(stream)) = stream[2]
               /\ stream[2].length \in Nat /\ Available = Rest + stream[2].length
  <1>1. /\ stream \in Seq(Sent) /\ Len(stream) \in {1, 2}
        /\ skip \in Nat /\ skip < Head(stream).length
    <2>1. stream \in Seq(Sent) /\ Len(stream) <= 2
      BY DEF TypeOK
    <2>2. Len(stream) \in Nat /\ Len(stream) # 0
      BY <2>1, EmptySeq, LenProperties
    <2>3. Len(stream) \in {1, 2}
      <3>1. \A k \in Nat : k # 0 /\ k <= 2 => k \in {1, 2}
        OBVIOUS
      <3>2. QED
        BY <2>1, <2>2, <3>1, Zenon
    <2>4. QED
      BY <2>1, <2>3 DEF TypeOK
  <1>2. /\ Head(stream) \in Sent
        /\ Tail(stream) \in Seq(Sent) /\ Len(Tail(stream)) = Len(stream) - 1
        /\ \A i \in 1 .. Len(Tail(stream)) : Tail(stream)[i] = stream[i + 1]
    BY <1>1, HeadTailProperties
  <1>3. \A m \in Sent : m \in Buffers /\ m.length \in Nat
    BY SentAreBuffers
  <1>4. Rest \in Nat /\ Rest > 0
    BY <1>1, <1>2, <1>3 DEF Rest
  <1>5. ASSUME Len(stream) = 2
        PROVE  /\ Tail(stream) # <<>> /\ Head(Tail(stream)) = stream[2]
               /\ stream[2].length \in Nat
    <2>1. Len(Tail(stream)) = 1 /\ Tail(stream)[1] = stream[2]
      BY <1>2, <1>5
    <2>2. Tail(stream) # <<>>
      <3> DEFINE u == Tail(stream)
      <3>1. Len(u) # 0
        BY <2>1
      <3> HIDE DEF u
      <3>2. u # <<>>
        BY <3>1, EmptySeq
      <3>3. QED
        BY <3>2 DEF u
    <2>3. Head(Tail(stream)) = Tail(stream)[1]
      BY <1>2, <2>2, HeadTailProperties
    <2>4. stream[2] \in Sent
      <3>1. 2 \in 1 .. Len(stream)
        BY <1>5
      <3>2. QED
        BY <1>1, <3>1, ElementOfSeq
    <2>5. QED
      BY <1>3, <2>1, <2>2, <2>3, <2>4
  <1>6. QED
    BY <1>1, <1>2, <1>3, <1>4, <1>5 DEF Available

\* The bytes of the stream that are left after a read are at its front.
LEMMA AdvanceKeepsType ==
  ASSUME TypeOK, stream # <<>>, NEW n \in 1 .. Available, Advance(n)
  PROVE  /\ stream' \in Seq(Sent) /\ Len(stream') <= 2
         /\ skip' \in Nat
         /\ stream' # <<>> => skip' < Head(stream').length
  <1>1. n \in Nat /\ n >= 1 /\ n <= Available
    BY FrontOfStream
  <1>2. CASE n = Available /\ stream' = <<>> /\ skip' = 0
    BY <1>2
  <1>3. CASE n # Available /\ n < Rest /\ stream' = stream /\ skip' = skip + n
    <2>1. skip + n < Head(stream).length
      BY <1>1, <1>3, FrontOfStream DEF Rest
    <2>2. QED
      BY <1>1, <1>3, <2>1 DEF TypeOK
  <1>4. CASE n # Available /\ ~(n < Rest) /\ stream' = Tail(stream) /\ skip' = n - Rest
    <2>1. Rest \in Nat /\ Available = Rest + stream[2].length /\ stream[2].length \in Nat
      BY <1>1, <1>4, FrontOfStream
    <2>2. n - Rest \in Nat /\ n - Rest < stream[2].length
      BY <1>1, <1>4, <2>1
    <2>3. ~(Len(stream) = 1)
      BY <1>4, <1>1, FrontOfStream
    <2> DEFINE u == Tail(stream)
    <2>4. /\ u \in Seq(Sent) /\ Len(u) = Len(stream) - 1
          /\ Len(stream) = 2 /\ Head(u) = stream[2]
      BY <2>3, FrontOfStream, Zenon
    <2>5. stream' = u /\ skip' = n - Rest
      BY <1>4
    <2> HIDE DEF u
    <2>6. u \in Seq(Sent) /\ Len(u) = 1 /\ Head(u) = stream[2]
      <3>1. Len(u) = 2 - 1
        BY <2>4, Zenon
      <3>2. QED
        BY <2>4, <3>1
    <2>7. Head(u).length = stream[2].length
      BY <2>6
    <2>8. stream' \in Seq(Sent) /\ Len(stream') = 1
      BY <2>5, <2>6, Zenon
    <2>9. skip' \in Nat /\ skip' < Head(stream').length
      BY <2>2, <2>5, <2>7
    <2>10. QED
      BY <2>8, <2>9
  <1>5. \/ n = Available /\ stream' = <<>> /\ skip' = 0
        \/ n # Available /\ n < Rest /\ stream' = stream /\ skip' = skip + n
        \/ n # Available /\ ~(n < Rest) /\ stream' = Tail(stream) /\ skip' = n - Rest
    <2>1. ~(n = Available /\ n < Rest)
      BY <1>1, FrontOfStream
    <2>2. QED
      BY <2>1 DEF Advance
  <1>6. QED
    BY <1>2, <1>3, <1>4, <1>5

\* What the bytes of a read look like.
LEMMA ContentsAreBuffers ==
  ASSUME TypeOK, stream # <<>>, NEW n \in 1 .. CC_RECV_BUFFER_SIZE, NEW b \in Contents(n)
  PROVE  /\ b \in Buffers /\ b.length = n
         /\ skip = 0 /\ Head(stream).hlen = Head(stream).length =>
              b.hlen = Head(stream).length
         /\ skip = 0 /\ n = Head(stream).length => b = Head(stream)
  <1> DEFINE m == Head(stream)
  <1>1. m \in Buffers /\ m.length \in Nat /\ n \in Nat /\ skip \in Nat
    BY FrontOfStream DEF CC_RECV_BUFFER_SIZE
  <1>2. m.hlen \in Nat /\ m.type \in Types \cup {"UNDEFINED"} /\ m.fault \in Errors
    BY <1>1 DEF Buffers
  <1>3. \A g \in Guesses(n) : g \in Buffers /\ g.length = n
    BY MessagesAreSent
  <1> HIDE DEF m
  <1>4. CASE skip > 0
    <2>1. b \in Guesses(n)
      BY <1>4 DEF Contents
    <2>2. QED
      BY <1>1, <1>3, <1>4, <2>1
  <1>5. CASE ~(skip > 0) /\ m.hlen > m.length /\ n > m.length
    <2> DEFINE rest(g) == [g EXCEPT !.type = m.type, !.hlen = m.hlen,
                                    !.fault = IF m.fault = "none" THEN g.fault ELSE m.fault]
    <2>1. PICK g \in Guesses(n) : b = rest(g)
      BY <1>5 DEF Contents, m
    <2>2. rest(g) \in Buffers /\ rest(g).length = n
      BY <1>2, <1>3 DEF Buffers
    <2>3. m.hlen # m.length /\ n # m.length
      BY <1>1, <1>2, <1>5
    <2>4. QED
      BY <2>1, <2>2, <2>3 DEF m
  <1>6. CASE ~(skip > 0) /\ ~(m.hlen > m.length /\ n > m.length)
    <2>1. b = [m EXCEPT !.length = n]
      BY <1>6 DEF Contents, m
    <2>2. b \in Buffers /\ b.length = n /\ b.hlen = m.hlen
      BY <1>1, <2>1 DEF Buffers
    <2>3. n = m.length => b = m
      <3>1. n = m.length => [m EXCEPT !.length = n] = m
        BY <1>1 DEF Buffers
      <3>2. QED
        BY <2>1, <3>1, Zenon
    <2>4. QED
      BY <2>2, <2>3 DEF m
  <1>7. QED
    BY <1>4, <1>5, <1>6

LEMMA ReadInv ==
  ASSUME IInv, stream # <<>>, NEW n, Read(n) PROVE IInv'
  <1> DEFINE m == Head(stream)
  <1>1. /\ TypeOK /\ stream # <<>> /\ n \in 1 .. Available
        /\ n <= CC_RECV_BUFFER_SIZE
    BY DEF IInv, Read
  <1>2. /\ n \in Nat /\ m \in Buffers /\ m.length \in Nat /\ m \in Sent
        /\ n \in 1 .. CC_RECV_BUFFER_SIZE
    BY <1>1, FrontOfStream DEF Buffers, CC_RECV_BUFFER_SIZE
  <1>3. PICK b \in Contents(n) :
          /\ buf' = b
          /\ IF n < 8 THEN stage' = "none" /\ result' = "SHORT"
             ELSE IF Accepts(b) THEN stage' = "queued" /\ result' = "none"
             ELSE stage' = "done" /\ result' = "DROPPED"
    BY DEF Read, ofp_header
  <1>4. /\ b \in Buffers /\ b.length = n
        /\ skip = 0 /\ m.hlen = m.length => b.hlen = m.length
        /\ skip = 0 /\ n = m.length => b = m
    BY <1>1, <1>2, ContentsAreBuffers
  <1>5. first' = m /\ from' = skip
    BY DEF Read
  <1>6. TypeOK'
    <2>1. Advance(n)
      BY DEF Read
    <2>2. skip \in Nat
      BY <1>1 DEF TypeOK
    <2>3. stage' \in {"none", "queued", "done", "checked"}
      BY <1>3
    <2>4. QED
      BY <1>1, <1>5, <2>1, <2>2, <2>3, AdvanceKeepsType DEF TypeOK
  <1> HIDE DEF m
  <1>7. Returned'
    <2>1. stage' # "none" => buf'.length >= 8 /\ buf'.length <= CC_RECV_BUFFER_SIZE
      BY <1>1, <1>2, <1>3, <1>4 DEF CC_RECV_BUFFER_SIZE
    <2>2. Framed' => buf'.hlen = first'.length
      BY <1>3, <1>4, <1>5 DEF Framed
    <2>3. Whole' => buf' = first'
      BY <1>3, <1>4, <1>5 DEF Whole
    <2>4. QED
      BY <1>2, <1>3, <1>4, <1>5, <2>1, <2>2, <2>3 DEF Returned
  <1>8. Outcome'
    <2>1. Accepts(buf)' <=> Accepts(b)
      BY <1>3 DEF Accepts
    <2>2. QED
      BY <1>3, <2>1 DEF Outcome
  <1>9. QED
    BY <1>6, <1>7, <1>8 DEF IInv

LEMMA HandleInv ==
  ASSUME IInv, cc_ofpmsg_recv_handle PROVE IInv'
  <1>1. /\ stage = "queued" /\ stage' = "done"
        /\ UNCHANGED <<stream, skip, first, from, buf>>
        /\ result' = IF buf.type \in Dispatched THEN Result(buf, cc_recv_ops(buf)) ELSE "IGNORED"
    BY DEF cc_ofpmsg_recv_handle
  <1>2. Accepts(buf)
    BY <1>1 DEF IInv, Outcome
  <1>3. TypeOK'
    BY <1>1 DEF IInv, TypeOK
  <1>4. Returned'
    BY <1>1 DEF IInv, Returned, Framed, Whole
  <1>5. Outcome'
    <2>1. buf' = buf
      BY <1>1
    <2>2. Accepts(buf)' <=> Accepts(buf)
      BY <2>1 DEF Accepts
    <2>3. Result(buf, cc_recv_ops(buf))' = Result(buf, cc_recv_ops(buf))
      BY <2>1
    <2>4. QED
      BY <1>1, <1>2, <2>1, <2>2, <2>3 DEF Outcome
  <1>6. QED
    BY <1>3, <1>4, <1>5 DEF IInv

LEMMA ChecksInv ==
  ASSUME IInv, Checks PROVE IInv'
  <1>1. /\ stage = "done" /\ stage' = "checked"
        /\ UNCHANGED <<stream, skip, first, from, buf>>
        /\ result' = Result(buf, validate_openflow_message(buf))
    BY DEF Checks
  <1>2. TypeOK'
    BY <1>1 DEF IInv, TypeOK
  <1>3. Returned'
    BY <1>1 DEF IInv, Returned, Framed, Whole
  <1>4. Outcome'
    <2>1. Result(buf, validate_openflow_message(buf))' = Result(buf, validate_openflow_message(buf))
      BY <1>1
    <2>2. QED
      BY <1>1, <2>1 DEF Outcome
  <1>5. QED
    BY <1>2, <1>3, <1>4 DEF IInv

LEMMA StutterInv ==
  ASSUME IInv, UNCHANGED vars PROVE IInv'
  <1>1. TypeOK' /\ Returned'
    BY DEF IInv, TypeOK, Returned, Framed, Whole, vars
  <1>2. Outcome'
    <2>1. buf' = buf /\ stage' = stage /\ result' = result
      BY DEF vars
    <2>2. /\ Accepts(buf)' <=> Accepts(buf)
          /\ Result(buf, cc_recv_ops(buf))' = Result(buf, cc_recv_ops(buf))
          /\ Result(buf, validate_openflow_message(buf))' = Result(buf, validate_openflow_message(buf))
      BY <2>1 DEF Accepts
    <2>3. QED
      BY <2>1, <2>2 DEF IInv, Outcome
  <1>3. QED
    BY <1>1, <1>2 DEF IInv

LEMMA NextInv == IInv /\ [Next]_vars => IInv'
  <1> SUFFICES ASSUME IInv, [Next]_vars PROVE IInv'
    OBVIOUS
  <1>1. CASE Reads
    BY <1>1, ReadInv DEF Reads
  <1>2. CASE cc_ofpmsg_recv_handle
    BY <1>2, HandleInv
  <1>3. CASE Checks
    BY <1>3, ChecksInv
  <1>4. CASE UNCHANGED vars
    BY <1>4, StutterInv
  <1>5. QED
    BY <1>1, <1>2, <1>3, <1>4 DEF Next, Done

LEMMA Invariance == Spec => []IInv
  BY InitInv, NextInv, PTL DEF Spec

\* What a read returned that is the message it began in.
LEMMA WholeIsFirst ==
  ASSUME IInv, stage # "none", Whole
  PROVE  /\ buf = first /\ buf \in Buffers
         /\ buf.length \in Nat /\ buf.length >= 8 /\ buf.length <= USHRT_MAX
  <1>1. buf = first /\ buf \in Buffers
    BY DEF IInv, Returned
  <1>2. buf.length \in Nat /\ buf.length >= 8 /\ buf.length <= CC_RECV_BUFFER_SIZE
    BY <1>1 DEF IInv, Returned, Buffers
  <1>3. QED
    BY <1>1, <1>2 DEF CC_RECV_BUFFER_SIZE, USHRT_MAX

\* What is done with, and was not ignored, was dropped or came from a handler.
LEMMA HandledBy ==
  ASSUME IInv, stage = "done"
  PROVE  /\ buf \in Buffers /\ buf.length >= 8
         /\ \/ result = "DROPPED" /\ ~Accepts(buf)
            \/ result = "IGNORED" /\ buf.type \notin Dispatched
            \/ buf.type \in Dispatched /\ result = Result(buf, cc_recv_ops(buf))
  BY DEF IInv, Returned, Outcome

\* What is left of the stream is of messages, and of the first one a part that
\* is not empty: no read is made that could return nothing.
THEOREM TypeCorrect == Spec => []TypeOK
  <1>1. IInv => TypeOK
    BY DEF IInv
  <1>2. QED
    BY <1>1, Invariance, PTL

\* Whatever the messages, their lengths and where the reads end, a handler that
\* accepts what a read from the beginning of a message returned, whose header has
\* its length, has that message and nothing of the next.
THEOREM NoHalfNorTwo == Spec => []AcceptedIsWhole
  <1>1. IInv => AcceptedIsWhole
    <2> SUFFICES ASSUME IInv, stage = "done", result = "ACCEPTED", Framed PROVE Whole
      BY DEF AcceptedIsWhole
    <2>1. buf.hlen = first.length
      BY DEF IInv, Returned
    <2>2. buf \in Buffers /\ buf.length >= 8 /\ buf.type \in Dispatched
          /\ result = Result(buf, cc_recv_ops(buf))
      BY HandledBy
    <2>3. buf.hlen = buf.length
      BY <2>2, HandlerDecides
    <2>4. QED
      BY <2>1, <2>3 DEF Whole, Framed
  <1>2. QED
    BY <1>1, Invariance, PTL

\* A handler accepts a whole message, of any length and with at most one fault, if
\* and only if the protocol has it, with the exceptions of RefusedByHandler and of
\* AcceptedByHandler: whatever follows the message, and wherever the reads end.
\* (What is dropped before it is handled is no proper message either: one of
\* another version, or whose header claims more than the read returned.)
THEOREM HandlersMatch == Spec => []ProperIsHandled
  <1>1. IInv => ProperIsHandled
    <2> SUFFICES ASSUME IInv, stage = "done", Whole, OneFault(first), first.type \in Dispatched
                 PROVE  (result = "ACCEPTED") =
                          ((Proper(first) /\ ~RefusedByHandler(first)) \/ AcceptedByHandler(first))
      BY DEF ProperIsHandled
    <2>1. /\ buf = first /\ buf \in Buffers
          /\ buf.length \in Nat /\ buf.length >= 8 /\ buf.length <= USHRT_MAX
      BY WholeIsFirst
    <2>2. result = "ACCEPTED" <=>
            (Proper(buf) /\ ~RefusedByHandler(buf)) \/ AcceptedByHandler(buf)
      <3>1. CASE result = "DROPPED" /\ ~Accepts(buf)
        <4>1. buf.hlen \in Nat /\ buf.length <= CC_RECV_BUFFER_SIZE
          BY <2>1 DEF Buffers, IInv, Returned
        <4>2. buf.hlen = buf.length => buf.fault = "UNSUPPORTED_VERSION"
          BY <2>1, <3>1, <4>1 DEF Accepts, CC_RECV_BUFFER_SIZE
        <4>3. "UNSUPPORTED_VERSION" \notin {"none", HighFeature}
          BY DEF HighFeature
        <4>4. ~Proper(buf) /\ ~AcceptedByHandler(buf)
          BY <4>2, <4>3 DEF Proper, AcceptedByHandler, WellFormed
        <4>5. QED
          BY <3>1, <4>4
      <3>2. CASE result = Result(buf, cc_recv_ops(buf))
        BY <2>1, <3>2, HandlerDecides
      <3>3. QED
        BY <2>1, <3>1, <3>2, HandledBy
    <2>3. QED
      BY <2>1, <2>2
  <1>2. QED
    BY <1>1, Invariance, PTL

\* validate_openflow_message accepts a whole message, of any length and with at most
\* one fault, if and only if the protocol has it, with the exceptions of
\* RefusedByCheck and AcceptedByCheck: what openflow.h says of ports is not what it
\* checks.
THEOREM ChecksMatch == Spec => []ChecksMatchProtocol
  <1>1. IInv => ChecksMatchProtocol
    <2> SUFFICES ASSUME IInv, stage = "checked", Whole, OneFault(first)
                 PROVE  (result = "ACCEPTED") =
                          ((Proper(first) /\ ~RefusedByCheck(first)) \/ AcceptedByCheck(first))
      BY DEF ChecksMatchProtocol
    <2>1. /\ buf = first /\ buf \in Buffers
          /\ buf.length \in Nat /\ buf.length >= 8 /\ buf.length <= USHRT_MAX
      BY WholeIsFirst
    <2>2. result = Result(buf, validate_openflow_message(buf))
      BY DEF IInv, Outcome
    <2>3. result = "ACCEPTED" <=>
            (Proper(buf) /\ ~RefusedByCheck(buf)) \/ AcceptedByCheck(buf)
      BY <2>1, <2>2, EveryMessageMatches, MatchesProtocol
    <2>4. QED
      BY <2>1, <2>3
  <1>2. QED
    BY <1>1, Invariance, PTL

\* Of whatever a read returned, of messages of any length and with any contents,
\* no check of a handler reads beyond the end, and of the checks of
\* validate_openflow_message only the two ReadsInside names.
THEOREM ChecksStayInside == Spec => []ReadsInside
  <1>1. IInv => ReadsInside
    <2> SUFFICES ASSUME IInv, result = "OUTSIDE"
                 PROVE  /\ stage = "checked"
                        /\ \/ buf.type \in {"STATS_REQUEST", "STATS_REPLY"} /\ buf.length < 10
                           \/ ShortFlows(buf)
      BY DEF ReadsInside
    <2>1. stage # "done"
      <3> SUFFICES ASSUME stage = "done" PROVE FALSE
        OBVIOUS
      <3>1. /\ buf \in Buffers /\ buf.length >= 8 /\ buf.type \in Dispatched
            /\ result = Result(buf, cc_recv_ops(buf))
        BY HandledBy
      <3>2. QED
        BY <3>1, HandlerDecides
    <2>2. stage = "checked"
      BY <2>1 DEF IInv, TypeOK, Outcome
    <2>3. buf \in Buffers /\ buf.length >= 8
          /\ Result(buf, validate_openflow_message(buf)) = "OUTSIDE"
      BY <2>2 DEF IInv, Returned, Outcome
    <2>4. QED
      BY <2>2, <2>3, AnyCheckStaysInside
  <1>2. QED
    BY <1>1, Invariance, PTL

\* Whatever a read returned, if validate_openflow_message refuses it as a request
\* there is an OpenFlow error to answer with, but for the two of RefusalIsAnswered.
THEOREM RefusalsAnswered == Spec => []RefusalIsAnswered
  <1>1. IInv => RefusalIsAnswered
    <2> SUFFICES ASSUME IInv, stage = "checked", result \notin {"ACCEPTED", "OUTSIDE"},
                        buf.type \in Requests
                 PROVE  cc_trans_error_type_and_code(buf.type, result) =
                          ~(buf.type \in {"PACKET_OUT", "FLOW_MOD"}
                              /\ result \in {"INVALID_NW_TOS", "TOO_SHORT_ACTION"})
      BY DEF RefusalIsAnswered
    <2>1. buf \in Buffers /\ buf.length >= 8
      BY DEF IInv, Returned
    <2>2. result = Result(buf, validate_openflow_message(buf))
      BY DEF IInv, Outcome
    <2>3. Answered(buf.type, result)
      BY <2>1, <2>2, RequestIsAnswered
    <2>4. cc_trans_error_type_and_code(buf.type, result) \in BOOLEAN
      BY DEF cc_trans_error_type_and_code
    <2>5. QED
      BY <2>3, <2>4 DEF Answered
  <1>2. QED
    BY <1>1, Invariance, PTL
=============================================================================
