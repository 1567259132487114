--------------------------- MODULE Parameters_proofs ---------------------------
(***************************************************************************)
(* Proofs about Parameters: its types, how many answers a request gets,    *)
(* and that a number that was set is the number that is read, when the two *)
(* conversions on its way can carry it.                                    *)
(*                                                                         *)
(* None of the three follows from itself.  The answer to a read is made    *)
(* from param, and the number it must be equal to is in acked, which no    *)
(* action reads: the invariant Remembers ties the two together, through    *)
(* requests that are refused, that name some tasks only, or that carry a   *)
(* number that is changed on its way.                                      *)
(***************************************************************************)
EXTENDS Parameters, FiniteSetTheorems, TLAPS

-----------------------------------------------------------------------------
(* Lemmas about the operators. *)

\* A number that a width holds is not changed by it.
LEMMA UnsignedKeeps ==
    ASSUME NEW size \in Nat \ {0}, NEW n \in UnsignedRange(size)
    PROVE  Unsigned(size, n) = n
BY DEF Unsigned, UnsignedRange

LEMMA SignedKeeps ==
    ASSUME NEW half \in Nat \ {0}, NEW n \in SignedRange(half)
    PROVE  Signed(half, n) = n
<1>1. n \in Int /\ n >= -half /\ n < half
  BY DEF SignedRange
<1>2. 2 * half \in Nat \ {0} /\ n + half \in UnsignedRange(2 * half)
  BY <1>1 DEF UnsignedRange
<1>3. (n + half) % (2 * half) = n + half
  BY <1>2, UnsignedKeeps DEF Unsigned
<1> QED
  BY <1>1, <1>3 DEF Signed

\* The bounds of a width.
LEMMA UnsignedBounds ==
    ASSUME NEW size \in Nat, NEW n \in UnsignedRange(size)
    PROVE  n \in Int /\ 0 <= n /\ n < size
BY DEF UnsignedRange

LEMMA SignedBounds ==
    ASSUME NEW half \in Nat, NEW n \in SignedRange(half)
    PROVE  n \in Int /\ -half <= n /\ n < half
BY DEF SignedRange

\* A number that both conversions carry is one that a long can be.
LEMMA CarriedAreLong ==
    ASSUME NEW type \in {"INT8", "UINT8", "INT16", "UINT16", "INT32", "UINT32"},
           NEW n \in Carries(type)
    PROVE  n \in Int /\ Long(n) = n /\ n \in SignedRange(Half) /\ n >= Least
<1>1. n \in Int /\ -Half <= n /\ n < Half /\ n >= Least
  <2>1. CASE type = "INT8"
    <3>1. n \in SignedRange(128)
      BY <2>1 DEF Carries, Holds
    <3>2. n \in Int /\ -128 <= n /\ n < 128
      BY <3>1, SignedBounds
    <3> QED
      BY <3>2, NumberAssumption
  <2>2. CASE type = "UINT8"
    <3>1. n \in UnsignedRange(256)
      BY <2>2 DEF Carries, Holds
    <3>2. n \in Int /\ 0 <= n /\ n < 256
      BY <3>1, UnsignedBounds
    <3> QED
      BY <3>2, NumberAssumption
  <2>3. CASE type = "INT16"
    <3>1. n \in SignedRange(32768)
      BY <2>3 DEF Carries, Holds
    <3>2. n \in Int /\ -32768 <= n /\ n < 32768
      BY <3>1, SignedBounds
    <3> QED
      BY <3>2, NumberAssumption
  <2>4. CASE type = "UINT16"
    <3>1. n \in UnsignedRange(65536)
      BY <2>4 DEF Carries, Holds
    <3>2. n \in Int /\ 0 <= n /\ n < 65536
      BY <3>1, UnsignedBounds
    <3> QED
      BY <3>2, NumberAssumption
  <2>5. CASE type = "INT32"
    BY <2>5, NumberAssumption DEF Carries
  <2>6. CASE type = "UINT32"
    BY <2>6, NumberAssumption DEF Carries
  <2> QED
    BY <2>1, <2>2, <2>3, <2>4, <2>5, <2>6
<1> QED
  BY <1>1, NumberAssumption DEF Long, SignedRange

\* The whole numbers of a float that are sent with their hundredths intact.
LEMMA CarriedByFloat ==
    ASSUME NEW n \in -(Exact \div 100) .. Exact \div 100
    PROVE  /\ n \in Int /\ Single(n) = n
           /\ 100 * n \in SignedRange(Half) /\ Single(100 * n) = 100 * n
<1>1. n \in Int /\ n \in -Exact .. Exact /\ 100 * n \in -Exact .. Exact
  BY NumberAssumption
<1>2. 100 * n \in SignedRange(Half)
  BY <1>1, NumberAssumption DEF SignedRange
<1> QED
  BY <1>1, <1>2 DEF Single

\* The conversion of a carried number to the type of its parameter changes
\* nothing: atol or atof and the casts of _parameter_set_by_string.
LEMMA CarriedAreStored ==
    ASSUME NEW type, NEW n, n \in Carries(type)
    PROVE  Converted(type, n) = n
<1>1. CASE type = "INT8"
  <2>1. n \in SignedRange(128) /\ Long(n) = n
    BY <1>1, CarriedAreLong DEF Carries, Holds
  <2>2. Signed(128, n) = n
    BY <2>1, SignedKeeps
  <2> QED
    BY <1>1, <2>1, <2>2 DEF Converted
<1>2. CASE type = "UINT8"
  <2>1. n \in UnsignedRange(256) /\ Long(n) = n
    BY <1>2, CarriedAreLong DEF Carries, Holds
  <2>2. Unsigned(256, n) = n
    BY <2>1, UnsignedKeeps
  <2> QED
    BY <1>2, <2>1, <2>2 DEF Converted
<1>3. CASE type = "INT16"
  <2>1. n \in SignedRange(32768) /\ Long(n) = n
    BY <1>3, CarriedAreLong DEF Carries, Holds
  <2>2. Signed(32768, n) = n
    BY <2>1, SignedKeeps
  <2> QED
    BY <1>3, <2>1, <2>2 DEF Converted
<1>4. CASE type = "UINT16"
  <2>1. n \in UnsignedRange(65536) /\ Long(n) = n
    BY <1>4, CarriedAreLong DEF Carries, Holds
  <2>2. Unsigned(65536, n) = n
    BY <2>1, UnsignedKeeps
  <2> QED
    BY <1>4, <2>1, <2>2 DEF Converted
<1>5. CASE type = "INT32"
  <2>1. n \in SignedRange(Half) /\ Long(n) = n /\ Half \in Nat \ {0}
    BY <1>5, CarriedAreLong, NumberAssumption
  <2>2. Signed(Half, n) = n
    BY <2>1, SignedKeeps
  <2> QED
    BY <1>5, <2>1, <2>2 DEF Converted
<1>6. CASE type = "UINT32"
  <2>1. Long(n) = n /\ 2 * Half \in Nat \ {0} /\ n \in 0 .. Half - 1
    BY <1>6, CarriedAreLong, NumberAssumption DEF Carries
  <2>2. n \in UnsignedRange(2 * Half)
    BY <2>1, NumberAssumption DEF UnsignedRange
  <2>3. Unsigned(2 * Half, n) = n
    BY <2>1, <2>2, UnsignedKeeps
  <2> QED
    BY <1>6, <2>1, <2>3 DEF Converted
<1>7. CASE type = "FLOAT"
  <2>1. n \in -(Exact \div 100) .. Exact \div 100
    BY <1>7 DEF Carries
  <2> QED
    BY <1>7, <2>1, CarriedByFloat DEF Converted
<1>8. CASE type \notin {"INT8", "UINT8", "INT16", "UINT16", "INT32", "UINT32", "FLOAT"}
  BY <1>8 DEF Carries, Holds
<1> QED
  BY <1>1, <1>2, <1>3, <1>4, <1>5, <1>6, <1>7, <1>8

\* Neither does the way back, from the value to the text of the answer:
\* new_lwm_object_from_type_value and serialize_lwm_object.
LEMMA CarriedAreSent ==
    ASSUME NEW type, NEW n, n \in Carries(type)
    PROVE  Sent(type, n) = n
<1>1. CASE type \in {"INT8", "UINT8", "INT16", "UINT16", "INT32", "UINT32"}
  <2>1. n \in Int /\ n \in SignedRange(Half) /\ n >= Least /\ Half \in Nat \ {0}
    BY <1>1, CarriedAreLong, NumberAssumption
  <2>2. Signed(Half, n) = n
    BY <2>1, SignedKeeps
  <2>3. Decimal(n) = n
    BY <2>1, NumberAssumption DEF Decimal
  <2>4. Sent(type, n) = Decimal(Signed(Half, n))
    BY <1>1 DEF Sent
  <2> QED
    BY <2>2, <2>3, <2>4
<1>2. CASE type = "FLOAT"
  <2>1. n \in -(Exact \div 100) .. Exact \div 100
    BY <1>2 DEF Carries
  <2> QED
    BY <1>2, <2>1, CarriedByFloat DEF Sent
<1>3. CASE type \notin {"INT8", "UINT8", "INT16", "UINT16", "INT32", "UINT32", "FLOAT"}
  BY <1>3 DEF Carries, Holds
<1> QED
  BY <1>1, <1>2, <1>3

\* The services of a list that are s are numbered from 1, none when s is not
\* among them, and not all of the list when its last one is another.
LEMMA TimesListed ==
    ASSUME NEW S, NEW listed \in Seq(S), NEW s
    PROVE  LET times == Cardinality({i \in DOMAIN listed : listed[i] = s})
           IN  /\ times \in Nat
               /\ times <= Len(listed)
               /\ s \in Range(listed) => times >= 1
               /\ listed # <<>> /\ listed[Len(listed)] # s => times <= Len(listed) - 1
<1> DEFINE at == {i \in DOMAIN listed : listed[i] = s}
<1>1. Len(listed) \in Nat /\ 1 \in Int /\ Len(listed) \in Int /\ Len(listed) - 1 \in Int
  OBVIOUS
<1>2. DOMAIN listed = 1 .. Len(listed)
  OBVIOUS
<1>3. /\ IsFiniteSet(1 .. Len(listed))
      /\ Cardinality(1 .. Len(listed)) = IF 1 > Len(listed) THEN 0 ELSE Len(listed) - 1 + 1
  BY <1>1, FS_Interval
<1>4. Cardinality(1 .. Len(listed)) = Len(listed)
  BY <1>1, <1>3
<1>5. at \subseteq 1 .. Len(listed)
  BY <1>2
<1>6. IsFiniteSet(at) /\ Cardinality(at) <= Cardinality(1 .. Len(listed))
  BY <1>3, <1>5, FS_Subset
<1>7. Cardinality(at) \in Nat
  BY <1>6, FS_CardinalityType
<1>8. ASSUME s \in Range(listed) PROVE Cardinality(at) >= 1
  <2>1. at # {}
    BY <1>8 DEF Range
  <2>2. Cardinality(at) # 0
    BY <2>1, <1>6, FS_EmptySet
  <2> QED
    BY <2>2, <1>7
<1>9. ASSUME listed # <<>>, listed[Len(listed)] # s
      PROVE  Cardinality(at) <= Len(listed) - 1
  <2>1. Len(listed) >= 1
    BY <1>9
  <2>2. /\ IsFiniteSet(1 .. Len(listed) - 1)
        /\ Cardinality(1 .. Len(listed) - 1)
             = IF 1 > Len(listed) - 1 THEN 0 ELSE Len(listed) - 1 - 1 + 1
    BY <1>1, FS_Interval
  <2>3. Cardinality(1 .. Len(listed) - 1) = Len(listed) - 1
    BY <1>1, <2>1, <2>2
  <2>4. at \subseteq 1 .. Len(listed) - 1
    BY <1>2, <1>9
  <2>5. Cardinality(at) <= Cardinality(1 .. Len(listed) - 1)
    BY <2>2, <2>4, FS_Subset
  <2> QED
    BY <2>3, <2>5
<1> QED
  BY <1>4, <1>6, <1>7, <1>8, <1>9

\* xQueueSend without waiting: a queue never holds more than it has room for.
LEMMA QueuesAreBounded ==
    ASSUME NEW length \in 0 .. QueueLength, NEW n \in Nat
    PROVE  Offered(length, n) \in 0 .. QueueLength
BY ParametersAssumption DEF Offered

-----------------------------------------------------------------------------
(* The inductive invariant. *)

\* The number that was set with 200 as the answer is the value of its
\* parameter, when the conversions can carry it.
Remembers ==
    \A t \in Task : \A a \in Aliases(t) :
        acked[t][a] \in Carries(TypeOf[a]) => param[t][a] = acked[t][a]

IInv == TypeOK /\ AnsweredPerService /\ Remembers /\ ReadsBack

-----------------------------------------------------------------------------
(* What the handlers answer. *)

\* A set request is answered once, with 200 only when it set something.
LEMMA SetAnswersOnce ==
    ASSUME NEW r \in Request, Set(r)
    PROVE  /\ Len(answers') = 1 /\ DOMAIN answers' = {1}
           /\ answers'[1].rsc = 200 => Executes(r)
           /\ answers'[1].rsc # 200 => ~Executes(r) \/ Targets(r) = {}
<1> DEFINE rsc == IF ~Executes(r) THEN 400 ELSE IF Targets(r) = {} THEN 404 ELSE 200
<1>1. answers' = Answered(<<>>, rsc)
  BY DEF Set
<1>2. rsc # 300
  OBVIOUS
<1>3. answers' = Reply(rsc)
  BY <1>1, <1>2 DEF Answered, Reply
<1>4. Len(answers') = 1 /\ DOMAIN answers' = {1} /\ answers'[1].rsc = rsc
  BY <1>3 DEF Reply, Answer
<1> QED
  BY <1>4

\* A read is answered once; with 200, when it reads parameters, with their values.
LEMMA ReadAnswersOnce ==
    ASSUME NEW r \in Request, r.op \in {"read", "readAll"}, Read(r)
    PROVE  /\ Len(answers') = 1 /\ DOMAIN answers' = {1}
           /\ answers'[1].rsc = 200 =>
                 \A a \in DOMAIN answers'[1].values :
                     /\ r.tis[1] \in Task /\ a \in Aliases(r.tis[1])
                     /\ answers'[1].values[a] = Sent(TypeOf[a], param[r.tis[1]][a])
<1> DEFINE t     == r.tis[1]
           names == ReadNames(r)
           found == IF Known(t) THEN Having(r, t) \cap Range(names) ELSE {}
           all   == IF Known(t) THEN ValuesOf(t, Aliases(t)) ELSE NoValues
<1>1. \A rsc : rsc # 300 => /\ Len(Answered(<<>>, rsc)) = 1
                            /\ DOMAIN Answered(<<>>, rsc) = {1}
                            /\ Answered(<<>>, rsc)[1].rsc = rsc
  BY DEF Answered, Reply, Answer
<1>2. \A values : /\ Len(Answered(<<Answer(200, values)>>, 300)) = 1
                  /\ DOMAIN Answered(<<Answer(200, values)>>, 300) = {1}
                  /\ Answered(<<Answer(200, values)>>, 300)[1].values = values
  BY DEF Answered, Answer
<1>3. \/ \E rsc : rsc \notin {200, 300} /\ answers' = Answered(<<>>, rsc)
      \/ answers' = Answered(<<Answer(200, all)>>, 300)
      \/ answers' = Answered(<<Answer(200, ValuesOf(t, found))>>, 300)
  BY DEF Read
<1>4. \A a \in DOMAIN all : t \in Task /\ a \in Aliases(t) /\ all[a] = Sent(TypeOf[a], param[t][a])
  BY DEF ValuesOf, NoValues, Known
<1>5. \A a \in DOMAIN ValuesOf(t, found) :
          t \in Task /\ a \in Aliases(t) /\ ValuesOf(t, found)[a] = Sent(TypeOf[a], param[t][a])
  BY DEF ValuesOf, Known, Having, Aliases
<1>6. CASE \E rsc : rsc \notin {200, 300} /\ answers' = Answered(<<>>, rsc)
  BY <1>1, <1>6
<1>7. CASE answers' = Answered(<<Answer(200, all)>>, 300)
  <2> HIDE DEF all
  <2> QED
    BY <1>2, <1>4, <1>7
<1>8. CASE answers' = Answered(<<Answer(200, ValuesOf(t, found))>>, 300)
  <2> HIDE DEF found
  <2> QED
    BY <1>2, <1>5, <1>8
<1> QED
  BY <1>3, <1>6, <1>7, <1>8

\* An output read is answered with values, one for every time the service is
\* listed, and at the end with an error when the last of the list was not one of
\* these; it stays unanswered only when the service runs without a value.
LEMMA OutputAnswers ==
    ASSUME NEW r \in Request, r.op = "output", ServeOutputRead(r)
    PROVE  /\ Len(answers') <= IF r.mis # Missing /\ Len(r.mis) > 1 THEN Len(r.mis) ELSE 1
           /\ answers' = <<>> => state' = "RUNNING" /\ output' = None
           /\ \A i \in DOMAIN answers' : answers'[i].rsc # 200 => i = Len(answers')
<1> DEFINE listed  == IF r.mis = Missing THEN <<>> ELSE r.mis
           asked   == Service \in Range(listed) /\ state = "RUNNING"
           Code(s) == CASE s # Service -> 404
                        [] s = Service /\ state # "RUNNING" -> 400
                        [] OTHER -> IF Answers(r.dri) THEN 300 ELSE 400
           code    == IF listed = <<>> THEN 400 ELSE Code(listed[Len(listed)])
           values  == IF output = Freed THEN Output \cup {Garbage} ELSE {output}
           times   == Cardinality({i \in DOMAIN listed : listed[i] = Service})
           given(value) == IF asked /\ Answers(r.dri) /\ output # None
                           THEN [i \in 1 .. times |-> Answer(200, value)] ELSE <<>>
<1>1. listed \in Seq({Service, NoService})
  BY RequestAssumption
<1>2. PICK value \in values : answers' = Answered(given(value), code)
  BY DEF ServeOutputRead
<1>3. output' = output /\ state' = state
  BY DEF ServeOutputRead
<1>4. /\ times \in Nat
      /\ times <= Len(listed)
      /\ Service \in Range(listed) => times >= 1
      /\ listed # <<>> /\ listed[Len(listed)] # Service => times <= Len(listed) - 1
  BY <1>1, TimesListed
<1>5. Len(listed) \in Nat /\ (listed # <<>> => Len(listed) >= 1 /\ Len(listed) \in DOMAIN listed)
  BY <1>1
<1>6. code = 300 => /\ listed # <<>> /\ listed[Len(listed)] = Service
                    /\ state = "RUNNING" /\ Answers(r.dri)
  OBVIOUS
<1>7. /\ listed # <<>>
      /\ listed[Len(listed)] = Service
      /\ state = "RUNNING"
      /\ Answers(r.dri)
      => code = 300
  OBVIOUS
<1>8. code = 300 => Service \in Range(listed)
  BY <1>5, <1>6 DEF Range
<1>s. /\ listed = <<>> => Len(r.mis) = 0 \/ r.mis = Missing
      /\ listed # <<>> => r.mis # Missing /\ Len(r.mis) = Len(listed)
  OBVIOUS
<1> HIDE DEF times
<1>9. /\ given(value) = <<>> \/ (given(value) \in Seq({Answer(200, value)}) /\ Len(given(value)) = times)
      /\ given(value) # <<>> => asked /\ Answers(r.dri)
      /\ asked /\ Answers(r.dri) /\ output # None => Len(given(value)) = times
  BY <1>4
<1> HIDE DEF listed, code, given
<1>10. CASE code = 300
  <2>1. answers' = given(value)
    BY <1>2, <1>10 DEF Answered
  <2>2. asked /\ Answers(r.dri)
    BY <1>6, <1>8, <1>10
  <2>3. answers' = <<>> => output = None
    BY <2>1, <2>2, <1>4, <1>8, <1>9, <1>10
  <2>4. Len(answers') <= Len(listed)
    BY <2>1, <1>4, <1>5, <1>9
  <2>5. given(value) \in Seq({Answer(200, value)})
    <3>1. <<>> \in Seq({Answer(200, value)})
      OBVIOUS
    <3> QED
      BY <3>1, <1>9, Zenon
  <2>6. \A i \in DOMAIN answers' : answers'[i].rsc = 200
    BY <2>1, <2>5 DEF Answer
  <2> QED
    BY <2>3, <2>4, <2>6, <1>3, <1>5, <1>6, <1>10, <1>s
<1>11. CASE code # 300
  <2>1. answers' = given(value) \o <<Answer(code, NoValues)>>
    BY <1>2, <1>11 DEF Answered, Reply
  <2>2. given(value) \in Seq({Answer(200, value)})
    <3>1. <<>> \in Seq({Answer(200, value)})
      OBVIOUS
    <3> QED
      BY <3>1, <1>9, Zenon
  <2>3. Len(answers') = Len(given(value)) + 1
    BY <2>1, <2>2
  <2>4. listed # <<>> => Len(answers') <= Len(listed)
    <3> SUFFICES ASSUME listed # <<>> PROVE Len(answers') <= Len(listed)
      OBVIOUS
    <3>1. CASE given(value) = <<>>
      BY <3>1, <2>3, <1>5
    <3>2. CASE given(value) # <<>>
      <4>1. asked /\ Answers(r.dri) /\ Len(given(value)) = times
        BY <3>2, <1>9
      <4>2. listed[Len(listed)] # Service
        BY <4>1, <1>7, <1>11
      <4> QED
        BY <4>1, <4>2, <2>3, <1>4, <1>5
    <3> QED
      BY <3>1, <3>2
  <2>5. listed = <<>> => Len(answers') = 1
    <3> SUFFICES ASSUME listed = <<>> PROVE given(value) = <<>>
      BY <2>3
    <3>1. Len(listed) = 0 /\ Service \notin Range(listed)
      BY DEF Range
    <3> QED
      BY <3>1, <1>9
  <2>6. \A i \in DOMAIN answers' : answers'[i].rsc # 200 => i = Len(answers')
    <3> SUFFICES ASSUME NEW i \in DOMAIN answers', i # Len(answers')
                 PROVE  answers'[i].rsc = 200
      OBVIOUS
    <3>1. i \in 1 .. Len(given(value)) /\ answers'[i] = given(value)[i]
      BY <2>1, <2>2, <2>3
    <3>2. given(value)[i] = Answer(200, value)
      BY <3>1, <2>2
    <3> QED
      BY <3>1, <3>2 DEF Answer
  <2>7. Len(answers') # 0
    BY <2>2, <2>3
  <2> QED
    BY <2>3, <2>2, <2>4, <2>5, <2>6, <2>7, <1>5, <1>s
<1> QED
  BY <1>10, <1>11

-----------------------------------------------------------------------------
(* The steps. *)

\* A request that was not answered with 200 changes no parameter, and one that
\* was sets the numbers it is remembered for.
LEMMA SetRemembers ==
    ASSUME Remembers, NEW r \in Request, ServeSet(r)
    PROVE  Remembers'
<1>0. Set(r)
  BY DEF ServeSet
<1>1. CASE answers'[1].rsc = 200
  <2>1. Executes(r)
    BY <1>0, <1>1, SetAnswersOnce
  <2>2. param' = With(param, Targets(r), LAMBDA a : Converted(TypeOf[a], r.fp[a]))
    BY <2>1 DEF ServeSet, Set
  <2>3. acked' = With(acked, Targets(r), LAMBDA a : r.fp[a])
    BY <1>1 DEF ServeSet
  <2> SUFFICES ASSUME NEW t \in Task, NEW a \in Aliases(t),
                      acked'[t][a] \in Carries(TypeOf[a])
               PROVE  param'[t][a] = acked'[t][a]
    BY DEF Remembers, Aliases
  <2>4. CASE <<t, a>> \in Targets(r)
    <3>1. acked'[t][a] = r.fp[a]
      BY <2>3, <2>4 DEF With
    <3>2. param'[t][a] = Converted(TypeOf[a], r.fp[a])
      BY <2>2, <2>4 DEF With
    <3> QED
      BY <3>1, <3>2, CarriedAreStored
  <2>5. CASE <<t, a>> \notin Targets(r)
    <3>1. acked'[t][a] = acked[t][a]
      BY <2>3, <2>5 DEF With
    <3>2. param'[t][a] = param[t][a]
      BY <2>2, <2>5 DEF With
    <3> QED
      BY <3>1, <3>2 DEF Remembers
  <2> QED
    BY <2>4, <2>5
<1>2. CASE answers'[1].rsc # 200
  <2>1. ~Executes(r) \/ Targets(r) = {}
    BY <1>0, <1>2, SetAnswersOnce
  <2>2. acked' = acked
    BY <1>2 DEF ServeSet
  <2>3. \A t \in Task : \A a \in Aliases(t) : param'[t][a] = param[t][a]
    BY <2>1 DEF ServeSet, Set, With
  <2> QED
    BY <2>2, <2>3 DEF Remembers, Aliases
<1> QED
  BY <1>1, <1>2

\* Everything is set to what it starts with when the service is described anew.
LEMMA FreshRemembers ==
    ASSUME param' = Fresh, acked' = Fresh
    PROVE  Remembers'
BY DEF Remembers, Fresh, Aliases

LEMMA RemembersNext ==
    ASSUME Remembers, [Next]_vars
    PROVE  Remembers'
<1>0. CASE UNCHANGED <<param, acked>>
  BY <1>0 DEF Remembers, Aliases
<1>1. CASE Live
  <2>1. CASE Create
    BY <2>1, FreshRemembers DEF Create
  <2>2. CASE \/ Run \/ RunAgain \/ FreeOutput
             \/ \E t \in Task : TaskOff(t) \/ TaskOn(t)
             \/ \E value \in Output : ReplaceOutput(value)
    BY <2>2, <1>0 DEF Run, RunAgain, TaskOff, TaskOn, FreeOutput, ReplaceOutput
  <2>3. CASE \E next \in {"CREATED", "NOT_READY"} : Remove(next)
    BY <2>3, FreshRemembers DEF Remove
  <2> QED
    BY <1>1, <2>1, <2>2, <2>3 DEF Live
<1>2. CASE Served \/ UNCHANGED vars
  BY <1>2, <1>0 DEF Served, vars, serviceVars
<1>3. ASSUME NEW r \in Request, Serve(r) PROVE Remembers'
  <2>1. CASE ServeSet(r)
    BY <2>1, SetRemembers
  <2>2. CASE ServeRead(r) \/ ServeOutputRead(r)
    BY <2>2, <1>0 DEF ServeRead, ServeOutputRead, serviceVars
  <2> QED
    BY <1>3, <2>1, <2>2 DEF Serve
<1> QED
  BY <1>1, <1>2, <1>3 DEF Next

LEMMA TypeNext ==
    ASSUME TypeOK, [Next]_vars
    PROVE  TypeOK'
<1>0. CASE UNCHANGED serviceVars
  BY <1>0 DEF TypeOK, serviceVars, Busy
<1>e. 0 \in 0 .. QueueLength
  BY ParametersAssumption
<1>1. CASE Live
  <2>1. CASE Create
    BY <2>1 DEF TypeOK, Create, Busy
  <2>2. CASE Run
    BY <2>2 DEF TypeOK, Run, Busy
  <2>3. CASE RunAgain
    BY <2>3 DEF TypeOK, RunAgain, Busy
  <2>4. ASSUME NEW next \in {"CREATED", "NOT_READY"}, Remove(next) PROVE TypeOK'
    <3>1. queued' \in [Task -> 0 .. QueueLength] /\ \A t \in Task : queued'[t] = 0
      BY <2>4, <1>e DEF Remove, Empty
    <3>2. latest' \in Dri \cup {None}
      BY <2>4 DEF Remove, TypeOK
    <3> QED
      BY <2>4, <3>1, <3>2 DEF TypeOK, Remove, Busy
  <2>5. CASE FreeOutput \/ \E value \in Output : ReplaceOutput(value)
    BY <2>5 DEF TypeOK, FreeOutput, ReplaceOutput, Busy
  <2>6. ASSUME NEW t \in Task, TaskOff(t) PROVE TypeOK'
    <3>1. queued' \in [Task -> 0 .. QueueLength]
      BY <2>6, <1>e DEF TaskOff, TypeOK
    <3>2. \A u \in Task : u \notin Listening => queued'[u] = 0
      BY <2>6 DEF TaskOff, TypeOK
    <3>3. marked' \subseteq Counted /\ (marked' # {} => state' = "RUNNING")
      BY <2>6 DEF TaskOff, TypeOK, Busy
    <3> QED
      BY <2>6, <3>1, <3>2, <3>3 DEF TypeOK, TaskOff, Busy, Rearranged
  <2>7. ASSUME NEW t \in Task, TaskOn(t) PROVE TypeOK'
    BY <2>7 DEF TypeOK, TaskOn, Busy, Rearranged
  <2> QED
    BY <1>1, <2>1, <2>2, <2>3, <2>4, <2>5, <2>6, <2>7 DEF Live
<1>2. CASE Served \/ UNCHANGED vars
  BY <1>2, <1>0 DEF Served, vars
<1>3. ASSUME NEW r \in Request, Serve(r) PROVE TypeOK'
  <2>1. CASE ServeSet(r)
    BY <2>1 DEF ServeSet, TypeOK, Busy
  <2>2. CASE ServeRead(r)
    BY <2>2, <1>0 DEF ServeRead
  <2>3. CASE ServeOutputRead(r)
    <3> DEFINE listed == IF r.mis = Missing THEN <<>> ELSE r.mis
               times  == Cardinality({i \in DOMAIN listed : listed[i] = Service})
    <3>1. listed \in Seq({Service, NoService})
      BY RequestAssumption
    <3>2. times \in Nat
      BY <3>1, TimesListed
    <3>3. UNCHANGED <<state, marked, output>> /\ r.op = "output"
      BY <2>3 DEF ServeOutputRead
    <3>4. \/ UNCHANGED <<latest, queued>>
          \/ /\ latest' = r.dri
             /\ queued' = [t \in Task |->
                  IF t \in Listening THEN Offered(queued[t], times) ELSE queued[t]]
      BY <2>3 DEF ServeOutputRead
    <3> HIDE DEF times
    <3>5. latest' \in Dri \cup {None}
      BY <3>3, <3>4, RequestAssumption DEF TypeOK
    <3>6. /\ queued' \in [Task -> 0 .. QueueLength]
          /\ \A t \in Task : t \notin Listening => queued'[t] = 0
      <4>1. \A t \in Task : queued[t] \in 0 .. QueueLength
        BY DEF TypeOK
      <4>2. \A t \in Task : Offered(queued[t], times) \in 0 .. QueueLength
        BY <3>2, <4>1, QueuesAreBounded
      <4> QED
        BY <3>4, <4>1, <4>2 DEF TypeOK
    <3> QED
      BY <3>3, <3>5, <3>6 DEF TypeOK, Busy
  <2> QED
    BY <1>3, <2>1, <2>2, <2>3 DEF Serve
<1> QED
  BY <1>1, <1>2, <1>3 DEF Next

\* Only while a request is being served is there anything to say about its
\* answers, and they are sent in the step that serves it.
LEMMA AnswersNext ==
    ASSUME Remembers, AnsweredPerService, ReadsBack, [Next]_vars
    PROVE  AnsweredPerService' /\ ReadsBack'
<1>1. CASE UNCHANGED vars
  BY <1>1 DEF AnsweredPerService, ReadsBack, vars, serviceVars
<1>2. CASE Live \/ Served
  <2>1. request' = None
    BY <1>2 DEF Live, Served
  <2> QED
    BY <2>1 DEF AnsweredPerService, ReadsBack
<1>3. ASSUME NEW r \in Request, Serve(r) PROVE AnsweredPerService' /\ ReadsBack'
  <2>0. request' = r
    BY <1>3 DEF Serve
  <2>1. CASE ServeSet(r)
    <3>1. r.op = "set" /\ Len(answers') = 1 /\ DOMAIN answers' = {1}
      BY <2>1, SetAnswersOnce DEF ServeSet
    <3> QED
      BY <2>0, <3>1 DEF AnsweredPerService, ReadsBack
  <2>2. CASE ServeRead(r)
    <3>1. r.op \in {"read", "readAll"} /\ Read(r) /\ UNCHANGED acked /\ UNCHANGED param
      BY <2>2 DEF ServeRead, serviceVars
    <3>2. Len(answers') = 1 /\ DOMAIN answers' = {1}
      BY <3>1, ReadAnswersOnce
    <3>3. ASSUME answers'[1].rsc = 200, NEW a \in DOMAIN answers'[1].values,
                 acked'[r.tis[1]][a] \in Carries(TypeOf[a])
          PROVE  answers'[1].values[a] = acked'[r.tis[1]][a]
      <4>1. /\ r.tis[1] \in Task /\ a \in Aliases(r.tis[1])
            /\ answers'[1].values[a] = Sent(TypeOf[a], param[r.tis[1]][a])
        BY <3>1, <3>3, ReadAnswersOnce
      <4>2. param[r.tis[1]][a] = acked[r.tis[1]][a] /\ acked[r.tis[1]][a] \in Carries(TypeOf[a])
        BY <3>1, <3>3, <4>1 DEF Remembers
      <4> QED
        BY <3>1, <4>1, <4>2, CarriedAreSent
    <3>4. \A i \in DOMAIN answers' : i = 1
      BY <3>2
    <3>5. ReadsBack'
      BY <2>0, <3>3, <3>4 DEF ReadsBack
    <3> QED
      BY <2>0, <3>1, <3>2, <3>5 DEF AnsweredPerService
  <2>3. CASE ServeOutputRead(r)
    <3>1. r.op = "output"
      BY <2>3 DEF ServeOutputRead
    <3>2. /\ Len(answers') <= IF r.mis # Missing /\ Len(r.mis) > 1 THEN Len(r.mis) ELSE 1
          /\ answers' = <<>> => state' = "RUNNING" /\ output' = None
          /\ \A i \in DOMAIN answers' : answers'[i].rsc # 200 => i = Len(answers')
      BY <2>3, <3>1, OutputAnswers
    <3> QED
      BY <2>0, <3>1, <3>2 DEF AnsweredPerService, ReadsBack
  <2> QED
    BY <1>3, <2>1, <2>2, <2>3 DEF Serve
<1> QED
  BY <1>1, <1>2, <1>3 DEF Next

-----------------------------------------------------------------------------
(* Theorems. *)

\* In every behaviour: the types, the answers and what they are made from.
THEOREM ParametersInductive == Spec => []IInv
<1>1. Init => IInv
  <2> SUFFICES ASSUME Init PROVE IInv
    OBVIOUS
  <2>1. 0 \in 0 .. QueueLength
    BY ParametersAssumption
  <2>2. queued \in [Task -> 0 .. QueueLength] /\ \A t \in Task : queued[t] = 0
    BY <2>1 DEF Init, Empty
  <2>3. TypeOK
    BY <2>2 DEF Init, TypeOK, Busy
  <2>4. Remembers
    BY DEF Init, Remembers, Fresh
  <2> QED
    BY <2>3, <2>4 DEF Init, IInv, AnsweredPerService, ReadsBack
<1>2. IInv /\ [Next]_vars => IInv'
  BY TypeNext, RemembersNext, AnswersNext DEF IInv
<1> QED
  BY <1>1, <1>2, PTL DEF Spec

\* The queues of the tasks never hold more than mainQUEUE_LENGTH messages, a
\* task without a queue holds none, and only a running service is busy.
THEOREM TypeCorrect == Spec => []TypeOK
<1>1. IInv => TypeOK
  BY DEF IInv
<1> QED
  BY <1>1, ParametersInductive, PTL

\* Whatever a request names or leaves out, its handler and the dispatcher do not
\* both answer it and do not leave it to each other.  The exceptions are part of
\* what is proved: an output read of several services is answered at most once
\* for each, with an error only at the end, so that a list of a known and an
\* unknown one is answered with 200 and 404; and it stays unanswered when the
\* service runs and has no output value.
THEOREM RequestsAnsweredPerService == Spec => []AnsweredPerService
<1>1. IInv => AnsweredPerService
  BY DEF IInv
<1> QED
  BY <1>1, ParametersInductive, PTL

\* A number that was set with 200 as the answer is the number of the answer to
\* every later read, for all numbers that the two conversions carry: those of
\* INT8, UINT8, INT16 and UINT16, of INT32 from Least, of UINT32 below 2^31, and
\* the whole ones of FLOAT whose hundredths a float is exact for.  DOUBLE, for
\* which nothing is carried, and STRING are not among them.
THEOREM ReadsReturnWhatWasSet == Spec => []ReadsBack
<1>1. IInv => ReadsBack
  BY DEF IInv
<1> QED
  BY <1>1, ParametersInductive, PTL
================================================================================
