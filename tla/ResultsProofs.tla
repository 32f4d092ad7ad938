--------------------------- MODULE ResultsProofs ---------------------------
(***************************************************************************)
(* Proofs about the results of the simulator, for every campaign and every *)
(* trace: the clients' options and the campaign that makes the results     *)
(* (IInv, preserved by every step), the parser that sums up a trace        *)
(* (ParserInv, one lemma per step, and from it the properties of the row   *)
(* and the implementation of FrameCount), and the plots that show the      *)
(* results (PlotInv).                                                      *)
(***************************************************************************)
EXTENDS Campaign, Plotting, FrameParser, FiniteSums, SequenceTheorems

-----------------------------------------------------------------------------
(* The clients' options. *)

(* A variable of the client, if it has one that goes by the option. *)
Assigned(own, o, v) ==
    [x \in DOMAIN own |-> IF x = o THEN IF o = "u" THEN 1 ELSE v ELSE own[x]]
Took(own) == [conf |-> own, awaits |-> "none"]

OptionLetters == {"d", "t", "u", "s", "b", "n", "p", "r"}

(* Behind an option and its word no argument is awaited, and only the      *)
(* variable of the option has changed: "u" is set by itself and the word   *)
(* behind it is passed over.                                               *)
LEMMA PairTaken ==
    ASSUME NEW D, NEW own, own = [x \in D |-> own[x]], "none" \notin D,
           NEW o \in OptionLetters, NEW v
    PROVE  TakePair(Took(own), o, v) = Took(Assigned(own, o, v))
<1> DEFINE was == Took(own)
           opt == Word(TRUE, o)
           arg == Word(FALSE, v)
<1>1. was.conf = own /\ was.awaits = "none" /\ opt.option = TRUE /\ opt.v = o
      /\ arg.option = FALSE /\ arg.v = v
  BY DEF Took, Word
<1>2. DOMAIN own = D
  OBVIOUS
<1>3. CASE o = "u"
  <2>1. ~ TakesArgument(o)
    BY <1>3 DEF TakesArgument
  <2> DEFINE set == IF o \in D THEN [own EXCEPT ![o] = 1] ELSE own
  <2>2. Take(was, opt) = [conf |-> set, awaits |-> "none"]
    BY <1>1, <1>2, <2>1 DEF Take
  <2>3. DOMAIN set = D
    BY <1>2
  <2>4. Take([conf |-> set, awaits |-> "none"], arg) = [conf |-> set, awaits |-> "none"]
    BY <1>1, <2>3 DEF Take
  <2>5. set = Assigned(own, o, v)
    BY <1>2, <1>3 DEF Assigned
  <2>. QED
    BY <2>2, <2>4, <2>5 DEF TakePair, Took
<1>4. CASE o # "u"
  <2>1. TakesArgument(o)
    BY <1>4 DEF TakesArgument, OptionLetters
  <2>2. Take(was, opt) = [conf |-> own, awaits |-> o]
    BY <1>1, <1>2, <2>1 DEF Take
  <2> DEFINE set == IF o \in D THEN [own EXCEPT ![o] = v] ELSE own
  <2>3. Take([conf |-> own, awaits |-> o], arg) = [conf |-> set, awaits |-> "none"]
    BY <1>1, <1>2 DEF Take
  <2>4. set = Assigned(own, o, v)
    BY <1>2, <1>4 DEF Assigned
  <2>. QED
    BY <2>2, <2>3, <2>4 DEF TakePair, Took
<1>. QED
  BY <1>3, <1>4

(* After k options the client has what was given for the first k letters   *)
(* and what it was initialised with for the others.                        *)
TookFirst(own, D, argument, k) ==
    /\ own = [x \in D |-> own[x]]
    /\ \A j \in 1..8 : j <= k /\ Letters[j] \in D \ {"u"} => own[Letters[j]] = argument[Letters[j]]

LEMMA LettersDiffer ==
    /\ Len(Letters) = 8
    /\ \A j \in 1..8 : Letters[j] \in OptionLetters
    /\ \A j, k \in 1..8 : Letters[j] = Letters[k] => j = k
    /\ \A o \in OptionLetters : \E j \in 1..8 : o = Letters[j]
<1>. DEFINE T == Letters
<1>1. /\ Letters[1] = "d" /\ Letters[2] = "t" /\ Letters[3] = "u" /\ Letters[4] = "s"
      /\ Letters[5] = "b" /\ Letters[6] = "n" /\ Letters[7] = "p" /\ Letters[8] = "r"
      /\ Len(Letters) = 8
  BY DEF Letters
<1>2. \A j \in 1..8 : j \in {1, 2, 3, 4, 5, 6, 7, 8}
  OBVIOUS
<1>. QED
  BY <1>1, <1>2 DEF OptionLetters

LEMMA OneMoreTaken ==
    ASSUME NEW D, "none" \notin D, NEW argument, NEW k \in 1..8,
           NEW own, TookFirst(own, D, argument, k - 1)
    PROVE  \E c : /\ TakePair(Took(own), Letters[k], argument[Letters[k]]) = Took(c)
                  /\ TookFirst(c, D, argument, k)
<1>1. own = [x \in D |-> own[x]]
  BY DEF TookFirst
<1> DEFINE o == Letters[k]
           v == argument[o]
           c == Assigned(own, o, v)
<1>2. o \in OptionLetters
  BY LettersDiffer
<1>3. TakePair(Took(own), o, v) = Took(c)
  <2> HIDE DEF o, v
  <2>. QED
    BY <1>1, <1>2, PairTaken
<1>4. /\ c = [x \in D |-> c[x]]
      /\ \A x \in D : x # o => c[x] = own[x]
      /\ o \in D \ {"u"} => c[o] = v
  <2> HIDE DEF o, v
  <2>. QED
    BY <1>1 DEF Assigned
<1>5. ASSUME NEW j \in 1..8, j <= k, Letters[j] \in D \ {"u"}
      PROVE  c[Letters[j]] = argument[Letters[j]]
  <2>1. CASE j = k
    <3> HIDE DEF c
    <3>. QED
      BY <2>1, <1>4, <1>5
  <2>2. CASE j # k
    <3>1. Letters[j] # o /\ j <= k - 1
      BY <2>2, <1>5, LettersDiffer
    <3>2. own[Letters[j]] = argument[Letters[j]]
      BY <3>1, <1>5 DEF TookFirst
    <3> HIDE DEF c, o
    <3>. QED
      BY <3>1, <3>2, <1>4, <1>5
  <2>. QED
    BY <2>1, <2>2
<1>6. TookFirst(c, D, argument, k)
  <2> HIDE DEF c
  <2>. QED
    BY <1>4, <1>5 DEF TookFirst
<1>. QED
  BY <1>3, <1>6

(* The loop of getopt() as a function of the options taken. *)
AfterStep(first, argument, g) ==
    [k \in 0..8 |-> IF k = 0 THEN Took(first)
                    ELSE TakePair(g[k - 1], Letters[k], argument[Letters[k]])]

LEMMA AfterExists ==
    ASSUME NEW first, NEW argument
    PROVE  \E g : g = AfterStep(first, argument, g)
<1> DEFINE T(w, k) == TakePair(w, Letters[k], argument[Letters[k]])
           a0 == Took(first)
           a1 == T(a0, 1)
           a2 == T(a1, 2)
           a3 == T(a2, 3)
           a4 == T(a3, 4)
           a5 == T(a4, 5)
           a6 == T(a5, 6)
           a7 == T(a6, 7)
           a8 == T(a7, 8)
<1> HIDE DEF T
<1>1. /\ a1 = T(a0, 1) /\ a2 = T(a1, 2) /\ a3 = T(a2, 3) /\ a4 = T(a3, 4)
      /\ a5 = T(a4, 5) /\ a6 = T(a5, 6) /\ a7 = T(a6, 7) /\ a8 = T(a7, 8)
  OBVIOUS
<1> HIDE DEF a0, a1, a2, a3, a4, a5, a6, a7, a8
<1> DEFINE g == [k \in 0..8 |-> IF k = 0 THEN a0 ELSE IF k = 1 THEN a1 ELSE IF k = 2 THEN a2
                  ELSE IF k = 3 THEN a3 ELSE IF k = 4 THEN a4 ELSE IF k = 5 THEN a5
                  ELSE IF k = 6 THEN a6 ELSE IF k = 7 THEN a7 ELSE a8]
<1>2. /\ g[0] = a0 /\ g[1] = a1 /\ g[2] = a2 /\ g[3] = a3 /\ g[4] = a4
      /\ g[5] = a5 /\ g[6] = a6 /\ g[7] = a7 /\ g[8] = a8
  OBVIOUS
<1>3. g = [k \in 0..8 |-> g[k]]
  OBVIOUS
<1> HIDE DEF g
<1>4. \A k \in 0..8 : g[k] = IF k = 0 THEN a0 ELSE T(g[k - 1], k)
  <2>1. \A k \in 0..8 : k \in {0, 1, 2, 3, 4, 5, 6, 7, 8}
    OBVIOUS
  <2>2. 1 - 1 = 0 /\ 2 - 1 = 1 /\ 3 - 1 = 2 /\ 4 - 1 = 3 /\ 5 - 1 = 4 /\ 6 - 1 = 5
        /\ 7 - 1 = 6 /\ 8 - 1 = 7
    OBVIOUS
  <2>. QED
    BY <1>1, <1>2, <2>1, <2>2
<1>5. g = [k \in 0..8 |-> IF k = 0 THEN a0 ELSE T(g[k - 1], k)]
  BY <1>3, <1>4
<1>. QED
  BY <1>5 DEF AfterStep, T, a0

(* Every client works with the value that was given for each of its        *)
(* options but "u".                                                        *)
LEMMA ConfiguredAsGiven ==
    ASSUME NEW protocol \in {"tcp", "udp", "dccp", "sctp"}, NEW argument
    PROVE  LET own == Configured(protocol, argument)
           IN  /\ DOMAIN own = DOMAIN Options[protocol]
               /\ \A o \in DOMAIN own \ {"u"} : own[o] = argument[o]
<1> DEFINE first == Options[protocol]
           D == DOMAIN first
<1>1. /\ D \subseteq OptionLetters
      /\ first = [x \in D |-> first[x]]
      /\ "none" \notin D
  BY DEF Options, TcpOptions, UdpOptions, DccpOptions, SctpOptions, OptionLetters
<1> DEFINE after == CHOOSE g : g = AfterStep(first, argument, g)
<1>2. Configured(protocol, argument) = after[8].conf
  BY LettersDiffer DEF Configured, AfterStep, Took
<1>3. after = AfterStep(first, argument, after)
  BY AfterExists
<1> HIDE DEF after, first, D
<1>4. /\ after[0] = Took(first)
      /\ \A k \in 1..8 : after[k] = TakePair(after[k - 1], Letters[k], argument[Letters[k]])
  BY <1>3 DEF AfterStep
<1> DEFINE P(k) == \E c : after[k] = Took(c) /\ TookFirst(c, D, argument, k)
<1>5. P(0)
  BY <1>1, <1>4 DEF TookFirst
<1>6. ASSUME NEW k \in 1..8, P(k - 1) PROVE P(k)
  BY <1>1, <1>4, <1>6, OneMoreTaken
<1>7. P(8)
  <2> HIDE DEF P
  <2>1. \A k \in 1..8 : P(k - 1) => P(k)
    BY <1>6
  <2>2. P(1) /\ P(2) /\ P(3) /\ P(4)
    BY <1>5, <2>1
  <2>. QED
    BY <2>1, <2>2
<1>8. PICK c : after[8] = Took(c) /\ TookFirst(c, D, argument, 8)
  BY <1>7
<1>9. c = [x \in D |-> c[x]] /\ \A o \in D \ {"u"} : c[o] = argument[o]
  <2>1. \A o \in D : \E j \in 1..8 : o = Letters[j]
    BY <1>1, LettersDiffer
  <2>. QED
    BY <1>8, <2>1 DEF TookFirst
<1>. QED
  BY <1>2, <1>8, <1>9 DEF Took, D, first

-----------------------------------------------------------------------------
(* The campaign. *)

LEMMA OrderIs ==
    /\ Len(Order) = 4 /\ DOMAIN Order = 1..4
    /\ \A j \in 1..4 : Order[j] \in Protocols
    /\ \A p \in Protocols : \E j \in 1..4 : p = Order[j]
    /\ \A j, k \in 1..4 : Order[j] = Order[k] => j = k
    /\ Protocols \subseteq {"tcp", "udp", "dccp", "sctp"}
<1>1. Len(Order) = 4 /\ DOMAIN Order = 1..4
  BY DEF Order
<1>2. Order[1] = "dccp" /\ Order[2] = "udp" /\ Order[3] = "tcp" /\ Order[4] = "sctp"
  BY DEF Order
<1>3. \A j \in 1..4 : j \in {1, 2, 3, 4}
  OBVIOUS
<1>. QED
  BY <1>1, <1>2, <1>3 DEF Protocols

LEMMA KindsIs ==
    /\ Len(Kinds) = 4 /\ DOMAIN Kinds = 1..4
    /\ \A f \in Removed : \E k \in 1..4 : f = Kinds[k]
<1>1. Len(Kinds) = 4 /\ DOMAIN Kinds = 1..4
  BY DEF Kinds
<1>. QED
  BY <1>1, RemovedAssumption

(* The parameters. *)
LEMMA CampaignConstants ==
    /\ MinBytes \in Nat \ {0} /\ IncBytes \in Nat \ {0} /\ MaxBytes \in Nat \ {0}
    /\ number_of_clients \in Nat \ {0} /\ IntMax \in Nat \ {0}
    /\ MinBytes <= MaxBytes /\ MaxBytes + IncBytes <= IntMax
BY SpanAssumption, IntMaxAssumption

(* An int that does not overflow. *)
LEMMA IntIsKept ==
    ASSUME NEW n \in 0 .. IntMax
    PROVE  Int32(n) = n
<1> DEFINE a == n + IntMax + 1
           b == 2 * (IntMax + 1)
<1>1. a \in Int /\ b \in Nat /\ 0 \in Int /\ a \in 0 .. (b - 1) /\ a = 0 * b + a
  BY CampaignConstants
<1>2. a % b = a
  <2> HIDE DEF a, b
  <2>. QED
    BY <1>1, ModUnique
<1>. QED
  BY <1>2, CampaignConstants DEF Int32

LEMMA IntIsInt ==
    ASSUME NEW n \in Int
    PROVE  Int32(n) \in Int
<1> DEFINE a == n + IntMax + 1
           b == 2 * (IntMax + 1)
<1>1. a \in Int /\ b \in Nat /\ b > 0
  BY CampaignConstants
<1>2. a % b \in Int
  <2> HIDE DEF a, b
  <2>. QED
    BY <1>1
<1>. QED
  BY <1>2, CampaignConstants DEF Int32

(* The row of a test is of the data the clients were told to send, which   *)
(* the parser expects unless it is no int.                                 *)
LEMMA RowOfTest ==
    ASSUME CampaignTypeOK, ConfInv, process = "parse"
    PROVE  /\ Row \in RowSet
           /\ Row.bytes = var /\ Row.start = starts
           /\ Row.told <= IntMax => Row.expected = Row.told
<1>1. settings \in [{"t", "u", "s", "b", "n", "p", "r"} -> Nat] /\ var \in Nat /\ starts \in Nat
  BY SettingsAssumption DEF CampaignTypeOK
<1>2. conf["d"] = var /\ conf["n"] = settings["n"]
  <2>1. "d" \in DOMAIN conf \ {"u"} /\ "n" \in DOMAIN conf \ {"u"}
    BY DEF ConfInv, Testing
  <2>2. conf["d"] = WithData["d"] /\ conf["n"] = WithData["n"]
    BY <2>1 DEF ConfInv, Testing
  <2>. QED
    BY <2>2, <1>1 DEF WithData
<1> DEFINE n == settings["n"]
           product == var * n
           told == number_of_clients * product
<1>3. n \in Nat /\ product \in Nat /\ told \in Nat
  <2>1. n \in Nat
    BY <1>1
  <2>2. \A x, y \in Nat : x * y \in Nat
    OBVIOUS
  <2>. QED
    BY <2>1, <2>2, <1>1, CampaignConstants
<1>4. Row = [bytes |-> var, start |-> starts, expected |-> Expected, told |-> told]
  BY <1>2 DEF Row
<1>5. Expected = Int32(number_of_clients * Int32(product))
  BY DEF Expected
<1>6. Expected \in Int
  <2> HIDE DEF product
  <2> DEFINE i == Int32(product)
             m == number_of_clients * i
  <2>1. i \in Int
    BY <1>3, IntIsInt
  <2>2. m \in Int
    <3> HIDE DEF i
    <3>. QED
      BY <2>1, CampaignConstants
  <2>3. Int32(m) \in Int
    <3> HIDE DEF m
    <3>. QED
      BY <2>2, IntIsInt
  <2>. QED
    BY <2>3, <1>5
<1>7. ASSUME told <= IntMax PROVE Expected = told
  <2>1. product <= told
    <3>1. \A x, y \in Nat : x # 0 => y <= x * y
      OBVIOUS
    <3> HIDE DEF product
    <3>. QED
      BY <3>1, <1>3, CampaignConstants
  <2>2. product \in 0 .. IntMax /\ told \in 0 .. IntMax
    <3> HIDE DEF product, told
    <3>. QED
      BY <2>1, <1>3, <1>7, CampaignConstants
  <2>3. Int32(product) = product
    <3> HIDE DEF product
    <3>. QED
      BY <2>2, IntIsKept
  <2>4. Int32(told) = told
    <3> HIDE DEF told
    <3>. QED
      BY <2>2, IntIsKept
  <2>. QED
    BY <2>3, <2>4, <1>5
<1> HIDE DEF told, product, n
<1>. QED
  BY <1>1, <1>3, <1>4, <1>6, <1>7 DEF RowSet

(* The results have lengths. *)
RowsAreSequences ==
    \A p \in Protocols : /\ rows[p] \in Seq(RowSet) /\ Len(rows[p]) \in Nat
                         /\ before[p] \in Nat /\ before[p] <= Len(rows[p])
LEMMA LengthsOfRows == CampaignTypeOK => RowsAreSequences
<1>. SUFFICES ASSUME CampaignTypeOK, NEW p \in Protocols
              PROVE  /\ rows[p] \in Seq(RowSet) /\ Len(rows[p]) \in Nat
                     /\ before[p] \in Nat /\ before[p] <= Len(rows[p])
  BY DEF RowsAreSequences
<1>1. rows[p] \in Seq(RowSet) /\ before[p] \in Nat /\ before[p] <= Len(rows[p])
  BY DEF CampaignTypeOK
<1>2. Len(rows[p]) \in Nat
  BY <1>1, LenProperties
<1>. QED
  BY <1>1, <1>2

(* The first amounts of a start: one more in every round. *)
LEMMA AmountsGrow ==
    ASSUME NEW n \in Nat
    PROVE  /\ Amounts(0) = {}
           /\ Amounts(n + 1) = Amounts(n) \cup {MinBytes + n * IncBytes}
           /\ \A a \in Amounts(n) :
                /\ a \in Nat /\ a < MinBytes + n * IncBytes
                /\ a = MinBytes \/ a - IncBytes \in Amounts(n)
<1>. USE CampaignConstants
<1> DEFINE am(i) == MinBytes + i * IncBytes
<1>1. \A i, j \in Nat : /\ am(i) \in Nat /\ (i < j => am(i) < am(j))
                        /\ am(i + 1) - IncBytes = am(i) /\ am(0) = MinBytes
  <2>1. TAKE i, j \in Nat
  <2>2. \A x, y \in Nat : x * y \in Nat /\ (x + 1) * y = x * y + y /\ 0 * y = 0
    OBVIOUS
  <2>3. i * IncBytes \in Nat /\ (i + 1) * IncBytes = i * IncBytes + IncBytes /\ 0 * IncBytes = 0
    BY <2>2
  <2>4. i < j => i * IncBytes < j * IncBytes
    <3>1. \A x, y, z \in Nat : x < y /\ z > 0 => x * z < y * z
      BY Z3
    <3>. QED
      BY <3>1
  <2>5. j * IncBytes \in Nat
    BY <2>2
  <2>. QED
    BY <2>3, <2>4, <2>5
<1>2. Amounts(0) = {}
  BY DEF Amounts
<1>3. Amounts(n + 1) = Amounts(n) \cup {am(n)}
  <2>1. 0 .. (n + 1) - 1 = (0 .. n - 1) \cup {n}
    OBVIOUS
  <2>. QED
    BY <2>1 DEF Amounts
<1>4. ASSUME NEW a \in Amounts(n)
      PROVE  a \in Nat /\ a < am(n) /\ (a = MinBytes \/ a - IncBytes \in Amounts(n))
  <2>1. PICK i \in 0 .. n - 1 : a = am(i)
    BY DEF Amounts
  <2>2. i \in Nat /\ i < n
    OBVIOUS
  <2>3. a \in Nat /\ a < am(n)
    BY <1>1, <2>1, <2>2
  <2>4. CASE i = 0
    BY <1>1, <2>1, <2>4
  <2>5. CASE i # 0
    <3>1. i - 1 \in 0 .. n - 1 /\ i - 1 \in Nat /\ (i - 1) + 1 = i
      BY <2>2, <2>5
    <3>2. am(i) - IncBytes = am(i - 1)
      BY <1>1, <3>1
    <3>3. am(i - 1) \in Amounts(n)
      BY <3>1 DEF Amounts
    <3>. QED
      BY <2>1, <2>3, <3>2, <3>3
  <2>. QED
    BY <2>3, <2>4, <2>5
<1>. QED
  BY <1>2, <1>3, <1>4

LEMMA InitIInv == Init => IInv
<1>. SUFFICES ASSUME Init PROVE IInv
  OBVIOUS
<1>1. << >> \in Seq(RowSet)
  BY EmptySeq
<1>2. \A p \in Protocols : Len(rows[p]) = 0 /\ before[p] = 0 /\ unwritten[p] = {}
  BY DEF Init
<1>3. CampaignTypeOK
  BY <1>1, <1>2, CampaignConstants DEF Init, CampaignTypeOK
<1>4. \A p \in Protocols : NewRows(p) = {} /\ Tested(p) = {}
  BY <1>2 DEF NewRows, Tested
<1>5. RowsInStep
  BY <1>4, OrderIs DEF RowsInStep, RowsAreTrue, NoneLeftOut, ProtocolsInStep
<1>. QED
  BY <1>3, <1>5 DEF Init, IInv, ConfInv, Testing, RoundInv, SpaceInv, SpaceIsSaved

(* In a round the protocols are in step. *)
RoundInStep == turn \in 1..4 /\ process # "off" /\ RoundInv => NoneLeftOut /\ ProtocolsInStep
LEMMA RoundIsInStep == RoundInStep
<1>. SUFFICES ASSUME turn \in 1..4, process # "off", RoundInv
              PROVE  NoneLeftOut /\ ProtocolsInStep
  BY DEF RoundInStep
<1>. USE OrderIs
<1>1. PICK r \in Nat : InRound(r)
  BY DEF RoundInv
<1> DEFINE past(j) == process = "clean" \/ j < turn
<1>2. \A j \in 1..4 : Tested(Order[j]) = IF past(j) THEN Amounts(r + 1) ELSE Amounts(r)
  BY <1>1 DEF InRound
<1>3. Amounts(r + 1) = Amounts(r) \cup {var}
  BY <1>1, AmountsGrow DEF InRound
<1>4. \A a \in Amounts(r) : a = MinBytes \/ a - IncBytes \in Amounts(r)
  BY AmountsGrow
<1>5. \A a \in Amounts(r + 1) : a = MinBytes \/ a - IncBytes \in Amounts(r + 1)
  <2> DEFINE n == r + 1
  <2>1. n \in Nat
    OBVIOUS
  <2> HIDE DEF n
  <2>2. \A a \in Amounts(n) : a = MinBytes \/ a - IncBytes \in Amounts(n)
    BY <2>1, AmountsGrow
  <2>. QED
    BY <2>2 DEF n
<1>6. \A j, k \in 1..4 : j < k /\ past(k) => past(j)
  OBVIOUS
<1> HIDE DEF past
<1>7. NoneLeftOut
  <2>. SUFFICES ASSUME NEW p \in Protocols, NEW a \in Tested(p)
                PROVE  a = MinBytes \/ a - IncBytes \in Tested(p)
    BY DEF NoneLeftOut
  <2>1. PICK j \in 1..4 : p = Order[j]
    OBVIOUS
  <2>. QED
    BY <1>2, <1>4, <1>5, <2>1
<1>8. ProtocolsInStep
  BY <1>2, <1>3, <1>6 DEF ProtocolsInStep
<1>. QED
  BY <1>7, <1>8

(* Steps that write no rows. *)
SameRows ==
    /\ rows' = rows /\ before' = before /\ unwritten' = unwritten
    /\ starts' = starts /\ var' = var
LEMMA RowsKept ==
    ASSUME SameRows, RowsInStep
    PROVE  RowsInStep' /\ \A p \in Protocols : Tested(p)' = Tested(p)
BY DEF SameRows, RowsInStep, RowsAreTrue, NoneLeftOut, ProtocolsInStep, Tested, NewRows

(* A test is of the first amount that its protocol has not been through;   *)
(* behind it the protocol has, with a row or without.                      *)
LEMMA StepParse ==
    ASSUME IInv, Parse
    PROVE  RowsInStep' /\ RoundInv' /\ CampaignTypeOK'
<1>. USE CampaignConstants, OrderIs
<1> DEFINE mine == Row
<1>0. /\ CampaignTypeOK /\ ConfInv /\ RowsInStep /\ RoundInv
      /\ turn \in 1..4 /\ var \in Nat /\ starts \in Nat /\ RowsAreSequences
  BY LengthsOfRows DEF IInv, CampaignTypeOK
<1>p. PICK p \in Protocols : p = Order[turn]
  BY <1>0
<1>1. /\ process = "parse"
      /\ process' = IF turn < 4 THEN "simulate" ELSE "clean"
      /\ turn' = IF turn < 4 THEN turn + 1 ELSE 1
      /\ var' = var /\ starts' = starts /\ settings' = settings /\ before' = before
      /\ \/ rows' = [rows EXCEPT ![p] = Append(@, mine)] /\ unwritten' = unwritten
         \/ rows' = rows /\ unwritten' = [unwritten EXCEPT ![p] = @ \cup {var}]
  <2>1. turn \in {1, 2, 3, 4} /\ 1 % 4 = 1 /\ 2 % 4 = 2 /\ 3 % 4 = 3 /\ 4 % 4 = 0
    BY <1>0
  <2>2. (turn % 4) + 1 = IF turn < 4 THEN turn + 1 ELSE 1
    BY <2>1
  <2>. QED
    BY <2>2, <1>p DEF Parse, NextTest
<1>2. /\ mine \in RowSet /\ mine.bytes = var /\ mine.start = starts
      /\ mine.told <= IntMax => mine.expected = mine.told
  BY <1>0, <1>1, RowOfTest
<1>3. p \in Protocols
  OBVIOUS
<1>4. PICK r \in Nat : InRound(r)
  BY <1>0, <1>1 DEF RoundInv
<1>5. Tested(p) = Amounts(r) /\ Amounts(r + 1) = Amounts(r) \cup {var}
      /\ \A a \in Tested(p) : a \in Nat /\ a < var
  <2>1. Tested(p) = Amounts(r) /\ var = MinBytes + r * IncBytes
    BY <1>0, <1>1, <1>4, <1>p DEF InRound
  <2>. QED
    BY <2>1, AmountsGrow
<1> DEFINE last == Len(rows[p])
<1>6. last \in Nat /\ before[p] \in Nat /\ before[p] <= last /\ rows[p] \in Seq(RowSet)
  BY <1>0, <1>3 DEF RowsAreSequences
<1> HIDE DEF mine
<1>7. /\ \A q \in Protocols \ {p} : rows'[q] = rows[q] /\ unwritten'[q] = unwritten[q]
      /\ \A k \in 1 .. last : rows'[p][k] = rows[p][k]
      /\ \/ /\ rows'[p] \in Seq(RowSet) /\ Len(rows'[p]) = last + 1
            /\ rows'[p][last + 1] = mine /\ unwritten'[p] = unwritten[p]
         \/ rows'[p] = rows[p] /\ unwritten'[p] = unwritten[p] \cup {var}
  <2>1. CASE rows' = [rows EXCEPT ![p] = Append(@, mine)] /\ unwritten' = unwritten
    <3>1. rows'[p] = Append(rows[p], mine) /\ \A q \in Protocols \ {p} : rows'[q] = rows[q]
      BY <1>0, <1>3, <2>1 DEF CampaignTypeOK
    <3>. QED
      BY <3>1, <2>1, <1>2, <1>6, AppendProperties
  <2>2. CASE rows' = rows /\ unwritten' = [unwritten EXCEPT ![p] = @ \cup {var}]
    BY <1>0, <1>3, <2>2 DEF CampaignTypeOK
  <2>. QED
    BY <1>1, <2>1, <2>2
<1>8. CampaignTypeOK'
  <2>1. rows' \in [Protocols -> Seq(RowSet)]
    BY <1>0, <1>1, <1>3, <1>7 DEF CampaignTypeOK
  <2>2. unwritten' \in [Protocols -> SUBSET Nat]
    BY <1>0, <1>1 DEF CampaignTypeOK
  <2>3. \A q \in Protocols : before'[q] <= Len(rows'[q])
    <3>1. TAKE q \in Protocols
    <3>2. CASE q = p
      BY <3>2, <1>1, <1>6, <1>7
    <3>3. CASE q # p
      BY <3>3, <1>0, <1>1, <1>7 DEF CampaignTypeOK
    <3>. QED
      BY <3>2, <3>3
  <2>4. turn' \in 1..4 /\ process' \in {"simulate", "clean"} /\ var <= MaxBytes
    BY <1>0, <1>1 DEF CampaignTypeOK
  <2>. QED
    BY <1>0, <1>1, <2>1, <2>2, <2>3, <2>4 DEF CampaignTypeOK
<1>9. /\ \A q \in Protocols \ {p} : NewRows(q)' = NewRows(q) /\ Tested(q)' = Tested(q)
      /\ \/ NewRows(p)' = NewRows(p) \cup {last + 1} /\ rows'[p][last + 1] = mine
            /\ unwritten'[p] = unwritten[p]
         \/ NewRows(p)' = NewRows(p) /\ unwritten'[p] = unwritten[p] \cup {var}
      /\ \A k \in NewRows(p) : k # last + 1 /\ k \in 1 .. last /\ rows'[p][k] = rows[p][k]
  <2>1. ASSUME NEW q \in Protocols \ {p}
        PROVE  NewRows(q)' = NewRows(q) /\ Tested(q)' = Tested(q)
    <3>1. rows'[q] = rows[q] /\ unwritten'[q] = unwritten[q] /\ before'[q] = before[q]
      BY <1>1, <1>7
    <3>2. NewRows(q)' = NewRows(q)
      BY <3>1 DEF NewRows
    <3>. QED
      BY <3>1, <3>2 DEF Tested
  <2>2. \A k \in NewRows(p) : k # last + 1 /\ k \in 1 .. last
    BY <1>6 DEF NewRows
  <2>3. Len(rows'[p]) = last + 1 => NewRows(p)' = NewRows(p) \cup {last + 1}
    <3>1. ASSUME Len(rows'[p]) = last + 1
          PROVE  before[p] + 1 .. last + 1 = (before[p] + 1 .. last) \cup {last + 1}
      <4> HIDE DEF last
      <4>. QED
        BY <1>6
    <3>. QED
      BY <3>1, <1>1 DEF NewRows
  <2>4. rows'[p] = rows[p] => NewRows(p)' = NewRows(p)
    BY <1>1 DEF NewRows
  <2>. QED
    BY <1>7, <2>1, <2>2, <2>3, <2>4
<1>10. Tested(p)' = Amounts(r + 1)
  <2>1. Tested(p)' = Tested(p) \cup {var}
    <3> HIDE DEF last
    <3>. QED
      BY <1>2, <1>9 DEF Tested
  <2>. QED
    BY <1>5, <2>1
<1>11. InRound(r)'
  <2>1. \A j \in 1..4 : Tested(Order[j])' = Amounts(IF process' = "clean" \/ j < turn' THEN r + 1 ELSE r)
    <3>1. TAKE j \in 1..4
    <3>2. CASE j = turn
      BY <1>0, <1>1, <1>10, <1>p, <3>2
    <3>3. CASE j # turn
      <4>1. Order[j] \in Protocols \ {p}
        BY <3>3, <1>0, <1>p
      <4>2. Tested(Order[j]) = Amounts(IF j < turn THEN r + 1 ELSE r)
        BY <1>1, <1>4 DEF InRound
      <4>3. (process' = "clean" \/ j < turn') <=> j < turn
        BY <1>0, <1>1, <3>3
      <4>. QED
        BY <4>1, <4>2, <4>3, <1>9
    <3>. QED
      BY <3>2, <3>3
  <2>. QED
    BY <1>1, <1>4, <2>1 DEF InRound
<1>12. RoundInv'
  BY <1>11 DEF RoundInv
<1>13. RowsAreTrue'
  <2>. SUFFICES ASSUME NEW q \in Protocols, NEW k \in NewRows(q)'
                PROVE  /\ rows'[q][k].start = starts
                       /\ rows'[q][k].told <= IntMax => rows'[q][k].expected = rows'[q][k].told
                       /\ rows'[q][k].bytes \notin unwritten'[q]
                       /\ k - 1 \in NewRows(q)' => rows'[q][k - 1].bytes < rows'[q][k].bytes
    BY <1>1 DEF RowsAreTrue
  <2> DEFINE Told(x) == x.start = starts /\ (x.told <= IntMax => x.expected = x.told)
  <2>1. \A x \in Protocols : \A i \in NewRows(x) :
            /\ Told(rows[x][i]) /\ rows[x][i].bytes \notin unwritten[x]
            /\ i - 1 \in NewRows(x) => rows[x][i - 1].bytes < rows[x][i].bytes
    BY <1>0 DEF RowsInStep, RowsAreTrue
  <2>2. CASE q # p
    <3>1. NewRows(q)' = NewRows(q) /\ rows'[q] = rows[q] /\ unwritten'[q] = unwritten[q]
      BY <1>7, <1>9, <2>2
    <3>2. k \in NewRows(q) /\ (k - 1 \in NewRows(q)' => k - 1 \in NewRows(q))
      BY <3>1
    <3>3. /\ Told(rows[q][k]) /\ rows[q][k].bytes \notin unwritten[q]
          /\ k - 1 \in NewRows(q) => rows[q][k - 1].bytes < rows[q][k].bytes
      BY <2>1, <3>2
    <3>. QED
      BY <3>1, <3>2, <3>3
  <2>3. CASE q = p
    <3> HIDE DEF last
    <3>1. \A i \in NewRows(p) : rows[p][i].bytes \in Tested(p) /\ rows[p][i].bytes < var
                                /\ rows[p][i].bytes # var
      <4>1. \A i \in NewRows(p) : rows[p][i].bytes \in Tested(p)
        BY DEF Tested
      <4>. QED
        BY <4>1, <1>0, <1>5
    <3>2. var \notin unwritten[p]
      <4>1. unwritten[p] \subseteq Tested(p)
        BY DEF Tested
      <4>. QED
        BY <4>1, <1>0, <1>5
    <3>3. CASE k \in NewRows(p)
      <4>1. rows'[p][k] = rows[p][k] /\ Told(rows[p][k])
        BY <1>9, <2>1, <2>3, <3>3, <1>3
      <4>2. rows[p][k].bytes \notin unwritten'[p]
        BY <1>9, <2>1, <3>1, <3>3, <1>3
      <4>3. k - 1 \in NewRows(p)' => k - 1 \in NewRows(p)
        BY <1>6, <1>9, <3>3 DEF last
      <4>. QED
        BY <4>1, <4>2, <4>3, <1>9, <2>1, <2>3, <3>3, <1>3
    <3>4. CASE k \notin NewRows(p)
      <4>1. k = last + 1 /\ rows'[p][k] = mine /\ unwritten'[p] = unwritten[p]
        BY <1>9, <2>3, <3>4
      <4>2. k - 1 \in NewRows(p)' => k - 1 \in NewRows(p)
        BY <1>6, <1>9, <4>1 DEF last
      <4>. QED
        BY <4>1, <4>2, <1>2, <1>9, <2>3, <3>1, <3>2
    <3>. QED
      BY <3>3, <3>4
  <2>. QED
    BY <2>2, <2>3
<1>14. NoneLeftOut' /\ ProtocolsInStep'
  <2>1. RoundInStep'
    BY RoundIsInStep, PTL
  <2>. QED
    BY <1>1, <1>8, <1>12, <2>1 DEF RoundInStep, CampaignTypeOK
<1>. QED
  BY <1>8, <1>12, <1>13, <1>14 DEF RowsInStep

(* Behind the clean-up of a round comes the next amount, or the end. *)
LEMMA StepClean ==
    ASSUME IInv, Clean
    PROVE  IInv'
<1>. USE CampaignConstants, OrderIs, KindsIs
<1>0. /\ CampaignTypeOK /\ ConfInv /\ RowsInStep /\ RoundInv /\ SpaceInv
      /\ turn \in 1..4 /\ var \in Nat
  BY DEF IInv, CampaignTypeOK
<1>1. /\ process = "clean" /\ starts' = starts /\ settings' = settings
      /\ rows' = rows /\ before' = before /\ unwritten' = unwritten /\ conf' = conf
  BY DEF Clean, results
<1>2. \/ /\ turn < 4 /\ turn' = turn + 1 /\ process' = process /\ var' = var
      \/ /\ turn = 4 /\ turn' = 1 /\ var' = var + IncBytes
         /\ process' = IF var + IncBytes <= MaxBytes THEN "simulate" ELSE "off"
  BY <1>0 DEF Clean
<1>3. CampaignTypeOK'
  <2>1. turn' \in 1..4 /\ var' \in Nat /\ process' \in {"off", "simulate", "clean"}
    BY <1>0, <1>1, <1>2
  <2>2. process' # "off" => var' <= MaxBytes
    BY <1>0, <1>1, <1>2 DEF CampaignTypeOK
  <2>. QED
    BY <1>0, <1>1, <2>1, <2>2 DEF CampaignTypeOK
<1>4. PICK r \in Nat : InRound(r)
  BY <1>0, <1>1 DEF RoundInv
<1> DEFINE n == r + 1
<1>5. \A j \in 1..4 : Tested(Order[j])' = Amounts(n) /\ Tested(Order[j]) = Amounts(n)
  <2>1. \A p \in Protocols : Tested(p)' = Tested(p)
    BY <1>1 DEF Tested, NewRows
  <2>2. \A j \in 1..4 : Tested(Order[j]) = Amounts(n)
    BY <1>1, <1>4 DEF InRound
  <2>. QED
    BY <2>1, <2>2
<1>6. var = MinBytes + r * IncBytes
  BY <1>4 DEF InRound
<1>7. n \in Nat
  OBVIOUS
<1>8. RoundInv'
  <2>1. CASE turn < 4
    <3>1. InRound(r)'
      BY <1>1, <1>2, <1>5, <1>6, <2>1 DEF InRound
    <3>. QED
      BY <3>1 DEF RoundInv
  <2>2. CASE turn = 4 /\ process' = "simulate"
    <3>1. var' = MinBytes + n * IncBytes
      <4>1. var' = MinBytes + r * IncBytes + IncBytes
        BY <1>2, <1>6, <2>2
      <4>2. \A x, y \in Nat : (x + 1) * y = x * y + y /\ x * y \in Nat
        OBVIOUS
      <4>3. (r + 1) * IncBytes = r * IncBytes + IncBytes /\ r * IncBytes \in Nat
        BY <4>2
      <4>. QED
        BY <4>1, <4>3
    <3>2. \A j \in 1..4 : ~ (j < turn')
      BY <1>2, <2>2
    <3> HIDE DEF n
    <3>3. InRound(n)'
      BY <1>5, <2>2, <3>1, <3>2 DEF InRound
    <3>. QED
      BY <1>7, <3>3 DEF RoundInv
  <2>3. CASE process' = "off"
    BY <2>3 DEF RoundInv
  <2>. QED
    BY <1>0, <1>1, <1>2, <2>1, <2>2, <2>3
<1>9. RowsInStep'
  <2>1. RowsAreTrue' /\ NoneLeftOut'
    BY <1>0, <1>1 DEF RowsInStep, RowsAreTrue, NoneLeftOut, Tested, NewRows
  <2> HIDE DEF n
  <2>2. ProtocolsInStep'
    BY <1>5 DEF ProtocolsInStep
  <2>. QED
    BY <2>1, <2>2 DEF RowsInStep
<1>10. ConfInv'
  BY <1>1, <1>2 DEF ConfInv, Testing
<1>11. SpaceInv'
  <2>1. /\ disk' \subseteq disk
        /\ Removed \ missed' \subseteq (Removed \ missed) \cup {Kinds[turn]}
        /\ \A f \in disk' : f.kind = Kinds[turn] => f.kind \notin Removed \ missed'
    BY DEF Clean, Remove, Matching
  <2>2. ASSUME NEW f \in disk', NEW k \in 1..4, k <= turn, f.kind = Kinds[k]
        PROVE  f.kind \notin Removed \ missed'
    <3>1. CASE f.kind = Kinds[turn]
      BY <2>1, <3>1
    <3>2. CASE f.kind # Kinds[turn]
      <4>1. k < turn /\ f \in disk
        BY <1>0, <2>1, <2>2, <3>2
      <4>2. f.kind \notin Removed \ missed
        BY <1>0, <1>1, <2>2, <4>1 DEF SpaceInv
      <4>. QED
        BY <2>1, <3>2, <4>2
    <3>. QED
      BY <3>1, <3>2
  <2>3. CASE turn < 4
    <3>1. \A k \in 1..4 : k < turn' => k <= turn
      BY <1>0, <1>2, <2>3
    <3>2. SpaceIsSaved'
      <4>1. var' = var /\ starts' = starts /\ process # "off"
        BY <1>1, <1>2, <2>3
      <4>2. ASSUME NEW f \in disk', var > MinBytes, f.kind \in Removed \ missed'
            PROVE  f.start = starts /\ f.bytes = var
        <5>1. f.kind # Kinds[turn] /\ f \in disk
          BY <2>1, <4>2
        <5>2. f.kind \in Removed \ missed
          BY <2>1, <4>2, <5>1
        <5>. QED
          BY <1>0, <4>1, <4>2, <5>1, <5>2 DEF SpaceInv, SpaceIsSaved
      <4>. QED
        BY <4>1, <4>2 DEF SpaceIsSaved
    <3>. QED
      BY <2>2, <3>1, <3>2 DEF SpaceInv
  <2>4. CASE turn = 4
    <3>1. \A f \in disk' : f.kind \notin Removed \ missed'
      <4>1. TAKE f \in disk'
      <4>2. f.kind \in Removed => \E k \in 1..4 : f.kind = Kinds[k]
        OBVIOUS
      <4>. QED
        BY <2>2, <2>4, <4>2
    <3>. QED
      BY <1>2, <2>4, <3>1 DEF SpaceInv, SpaceIsSaved
  <2>. QED
    BY <1>0, <2>3, <2>4
<1>. QED
  BY <1>3, <1>8, <1>9, <1>10, <1>11 DEF IInv

(* main() starts with the rows it finds, and nothing of a round done. *)
LEMMA StepStart ==
    ASSUME IInv, Start
    PROVE  IInv'
<1>. USE CampaignConstants, OrderIs
<1>0. CampaignTypeOK
  BY DEF IInv
<1>1. /\ process = "off" /\ process' = "simulate" /\ turn' = 1 /\ var' = MinBytes
      /\ starts' = starts + 1 /\ settings' = settings
      /\ before' = [p \in Protocols |-> Len(rows'[p])]
      /\ unwritten' = [p \in Protocols |-> {}]
  BY DEF Start
<1>2. rows' \in [Protocols -> Seq(RowSet)]
  <2>1. << >> \in Seq(RowSet) /\ rows \in [Protocols -> Seq(RowSet)]
    BY <1>0, EmptySeq DEF CampaignTypeOK
  <2>2. \/ rows' = [p \in Protocols |-> << >>] \/ rows' = rows
        \/ \E gone \in SUBSET Protocols :
                rows' = [p \in Protocols |-> IF p \in gone THEN << >> ELSE rows[p]]
    BY DEF Start, ClearOutput
  <2>. QED
    BY <2>1, <2>2
<1>3. \A p \in Protocols :
        before'[p] = Len(rows'[p]) /\ Len(rows'[p]) \in Nat /\ unwritten'[p] = {}
  BY <1>1, <1>2, LenProperties
<1>4. CampaignTypeOK'
  <2>1. before' \in [Protocols -> Nat] /\ \A p \in Protocols : before'[p] <= Len(rows'[p])
    BY <1>1, <1>3
  <2>. QED
    BY <1>0, <1>1, <1>2, <2>1 DEF CampaignTypeOK
<1>5. \A p \in Protocols : NewRows(p)' = {} /\ Tested(p)' = {}
  BY <1>3 DEF NewRows, Tested
<1>6. RowsInStep'
  BY <1>5 DEF RowsInStep, RowsAreTrue, NoneLeftOut, ProtocolsInStep
<1>7. RoundInv'
  <2>1. Amounts(0) = {}
    BY AmountsGrow
  <2>2. var' = MinBytes + 0 * IncBytes
    BY <1>1
  <2>3. \A j \in 1..4 :
            Tested(Order[j])' = Amounts(IF process' = "clean" \/ j < turn' THEN 1 ELSE 0)
    <3>1. TAKE j \in 1..4
    <3>2. Order[j] \in Protocols /\ ~ (process' = "clean" \/ j < turn')
      BY <1>1
    <3>3. Tested(Order[j])' = {}
      BY <1>5, <3>2
    <3>. QED
      BY <2>1, <3>2, <3>3
  <2>4. InRound(0)'
    BY <2>2, <2>3 DEF InRound
  <2>. QED
    BY <2>4 DEF RoundInv
<1>8. ConfInv' /\ SpaceInv'
  BY <1>1 DEF ConfInv, Testing, SpaceInv, SpaceIsSaved
<1>. QED
  BY <1>4, <1>6, <1>7, <1>8 DEF IInv

LEMMA StepIInv == IInv /\ [Next]_vars => IInv'
<1>. SUFFICES ASSUME IInv, [Next]_vars PROVE IInv'
  OBVIOUS
<1>. USE CampaignConstants, OrderIs, KindsIs
<1>0. /\ CampaignTypeOK /\ ConfInv /\ RowsInStep /\ RoundInv /\ SpaceInv
      /\ turn \in 1..4 /\ var \in Nat /\ starts \in Nat
  BY DEF IInv, CampaignTypeOK
<1>1. ASSUME SameRows, settings' = settings, turn' = turn,
             process \notin {"off", "clean"}, process' \in {"off", "tshark", "no trace", "parse"}
      PROVE  CampaignTypeOK' /\ RowsInStep' /\ RoundInv'
  <2>1. CampaignTypeOK' /\ RowsInStep' /\ \A p \in Protocols : Tested(p)' = Tested(p)
    BY <1>0, <1>1, RowsKept DEF CampaignTypeOK, SameRows
  <2>2. PICK r \in Nat : InRound(r)
    BY <1>0, <1>1 DEF RoundInv
  <2>3. process' # "off" => InRound(r)'
    BY <1>1, <2>1, <2>2 DEF InRound, SameRows
  <2>. QED
    BY <2>1, <2>3 DEF RoundInv
<1>2. CASE Simulate
  <2>1. /\ process = "simulate" /\ process' = "tshark" /\ SameRows
        /\ turn' = turn /\ var' = var /\ starts' = starts /\ settings' = settings
        /\ conf' = Configured(Order[turn], WithData)
        /\ missed' = missed /\ disk' = disk \cup TestFiles
    BY <1>2 DEF Simulate, results, SameRows
  <2>2. CampaignTypeOK' /\ RowsInStep' /\ RoundInv'
    BY <1>1, <2>1
  <2>3. ConfInv'
    <3> DEFINE p == Order[turn]
               argument == WithData
               c == Configured(p, argument)
    <3>1. p \in {"tcp", "udp", "dccp", "sctp"}
      BY <1>0
    <3>2. DOMAIN c = DOMAIN Options[p] /\ \A o \in DOMAIN c \ {"u"} : c[o] = argument[o]
      <4> HIDE DEF p, argument
      <4>. QED
        BY <3>1, ConfiguredAsGiven
    <3>3. {"d", "n"} \subseteq DOMAIN Options[p]
      <4> HIDE DEF p
      <4>. QED
        BY <3>1 DEF Options, TcpOptions, UdpOptions, DccpOptions, SctpOptions
    <3>4. WithData' = argument /\ conf' = c
      BY <2>1 DEF WithData
    <3> HIDE DEF argument, c, p
    <3>. QED
      BY <3>2, <3>3, <3>4 DEF ConfInv
  <2>4. SpaceInv'
    <3>1. \A f \in TestFiles : f.start = starts /\ f.bytes = var
      BY DEF TestFiles, This
    <3>. QED
      BY <1>0, <2>1, <3>1 DEF SpaceInv, SpaceIsSaved
  <2>. QED
    BY <2>2, <2>3, <2>4 DEF IInv
<1>3. CASE Tshark
  <2>1. /\ process = "tshark" /\ process' \in {"parse", "no trace"} /\ SameRows
        /\ turn' = turn /\ var' = var /\ starts' = starts /\ settings' = settings
        /\ conf' = conf /\ missed' = missed
        /\ \A f \in disk' : f \in disk \/ f = This("txt")
    BY <1>3 DEF Tshark, results, SameRows
  <2>2. CampaignTypeOK' /\ RowsInStep' /\ RoundInv'
    BY <1>1, <2>1
  <2>3. ConfInv'
    <3>1. WithData' = WithData
      BY <2>1 DEF WithData
    <3>. QED
      BY <1>0, <2>1, <3>1 DEF ConfInv, Testing
  <2>4. SpaceInv'
    <3>1. This("txt").start = starts /\ This("txt").bytes = var
      BY DEF This
    <3>. QED
      BY <1>0, <2>1, <3>1 DEF SpaceInv, SpaceIsSaved
  <2>. QED
    BY <2>2, <2>3, <2>4 DEF IInv
<1>4. CASE Parse
  <2>1. CampaignTypeOK' /\ RowsInStep' /\ RoundInv'
    BY <1>4, StepParse
  <2>2. /\ process = "parse" /\ process' \in {"simulate", "clean"}
        /\ process' = "clean" => turn' = 1
        /\ var' = var /\ starts' = starts /\ disk' = disk /\ missed' = missed
    <3>1. process' = "clean" => (turn % 4) + 1 = 1
      <4>1. process' = "clean" => turn = 4
        BY <1>0, <1>4 DEF Parse, NextTest
      <4>. QED
        BY <4>1
    <3>. QED
      BY <1>4, <3>1 DEF Parse, NextTest
  <2>3. ConfInv' /\ SpaceInv'
    BY <1>0, <2>2 DEF ConfInv, Testing, SpaceInv, SpaceIsSaved
  <2>. QED
    BY <2>1, <2>3 DEF IInv
<1>5. CASE ParserExits \/ Interrupt
  <2>1. /\ process' = "off" /\ turn' = turn /\ settings' = settings /\ SameRows
    BY <1>5 DEF ParserExits, Interrupt, results, SameRows
  <2>2. CampaignTypeOK'
    BY <1>0, <2>1 DEF CampaignTypeOK, SameRows
  <2>3. RowsInStep'
    BY <1>0, <2>1, RowsKept
  <2>4. ConfInv' /\ RoundInv' /\ SpaceInv'
    BY <2>1 DEF ConfInv, Testing, RoundInv, SpaceInv, SpaceIsSaved
  <2>. QED
    BY <2>2, <2>3, <2>4 DEF IInv
<1>6. CASE UNCHANGED vars
  <2>1. /\ process' = process /\ turn' = turn /\ var' = var /\ starts' = starts
        /\ settings' = settings /\ conf' = conf /\ disk' = disk /\ missed' = missed /\ SameRows
    BY <1>6 DEF vars, results, SameRows
  <2>2. CampaignTypeOK'
    BY <1>0, <2>1 DEF CampaignTypeOK, SameRows
  <2>3. RowsInStep' /\ \A p \in Protocols : Tested(p)' = Tested(p)
    BY <1>0, <2>1, RowsKept
  <2>4. RoundInv'
    <3>1. CASE process # "off"
      <4>1. PICK r \in Nat : InRound(r)
        BY <1>0, <3>1 DEF RoundInv
      <4>2. InRound(r)'
        BY <2>1, <2>3, <4>1 DEF InRound
      <4>. QED
        BY <4>2 DEF RoundInv
    <3>. QED
      BY <2>1, <3>1 DEF RoundInv
  <2>5. ConfInv'
    BY <1>0, <2>1 DEF ConfInv, Testing, WithData
  <2>6. SpaceInv'
    BY <1>0, <2>1 DEF SpaceInv, SpaceIsSaved
  <2>. QED
    BY <2>2, <2>3, <2>4, <2>5, <2>6 DEF IInv
<1>. QED
  BY <1>2, <1>3, <1>4, <1>5, <1>6, StepStart, StepClean DEF Next, Run, Finished

(* The inductive invariant of the campaign: in round r + 1 a protocol has  *)
(* been through the first r amounts, or r + 1 when its test is over.       *)
THEOREM CampaignInvariant == Spec => []IInv
  BY InitIInv, StepIInv, PTL DEF Spec

(* A client is told what is set: the loop over the options of each client  *)
(* finds every option it knows but "u" with the word that belongs to it.   *)
THEOREM ClientsGetTheirSettings == Spec => []SettingsArrive
<1>1. IInv => SettingsArrive
  BY DEF IInv, ConfInv, Testing, SettingsArrive
<1>. QED
  BY <1>1, CampaignInvariant, PTL

(* Once a round is over, nothing that is to be removed is left of it but   *)
(* what the last rm of its kind has missed.                                *)
THEOREM DiskIsCleaned == Spec => []SpaceIsSaved
<1>1. IInv => SpaceIsSaved
  BY DEF IInv, SpaceInv
<1>. QED
  BY <1>1, CampaignInvariant, PTL

(* Whenever and wherever the program ends, its rows are in the order of    *)
(* the amounts, none is there twice, none is left out but for results that *)
(* could not be opened, and the protocols are in step.                     *)
THEOREM RowsStayInStep == Spec => []RowsInStep
<1>1. IInv => RowsInStep
  BY DEF IInv
<1>. QED
  BY <1>1, CampaignInvariant, PTL

-----------------------------------------------------------------------------
(* The parser. *)

FrameSet == [protocols : SUBSET STRING, heartbeat : BOOLEAN, length : Nat, data : Seq(Nat)]

(* The frames of the trace. *)
LEMMA TraceFrames ==
    ASSUME TraceOK
    PROVE  /\ Len(frames) \in Nat /\ DOMAIN frames = 1 .. Len(frames)
           /\ \A n \in 1 .. Len(frames) : frames[n] \in FrameSet
           /\ cut => Len(frames) > 0
<1>1. PICK n \in Nat : frames \in [1 .. n -> FrameKinds]
  BY DEF TraceOK
<1>2. Len(frames) = n /\ DOMAIN frames = 1 .. n
  BY <1>1
<1>3. \A i \in 1 .. n : frames[i] \in FrameSet
  BY <1>1, FrameKindsAssumption DEF FrameSet
<1>4. cut => n > 0
  <2>1. n = 0 => frames = << >>
    BY <1>1
  <2>. QED
    BY <1>1, <2>1 DEF TraceOK
<1>. QED
  BY <1>2, <1>3, <1>4

(* What a line says. *)
LEMMA LineSays ==
    ASSUME NEW w, NEW v
    PROVE  Line(w, v).is = w /\ Line(w, v).v = v
BY DEF Line

LEMMA SizeOfFrame ==
    ASSUME NEW f \in FrameSet
    PROVE  /\ Len(f.data) \in Nat
           /\ HeadSize(f) = IF f.heartbeat THEN 7 ELSE 5
           /\ TextSize(f) = HeadSize(f) + 2 * Len(f.data) + 1
           /\ TextSize(f) \in Nat /\ TextSize(f) > 5
<1> DEFINE z == Len(f.data)  t == TextSize(f)  h == HeadSize(f)
<1>1. z \in Nat /\ h = (IF f.heartbeat THEN 7 ELSE 5) /\ t = h + 2 * z + 1
  BY LenProperties DEF FrameSet, HeadSize, TextSize
<1>2. h \in {5, 7}
  BY <1>1
<1> HIDE DEF z, t, h
<1>3. t \in Nat /\ t > 5
  BY <1>1, <1>2
<1>. QED
  BY <1>1, <1>3 DEF z, t, h

(* The lines of a frame, by their number. *)
LEMMA LinesOfFrame ==
    ASSUME NEW f \in FrameSet, NEW n, NEW k \in 1 .. TextSize(f)
    PROVE  /\ HeadSize(f) \in {5, 7} /\ Len(f.data) \in Nat
           /\ TextSize(f) = HeadSize(f) + 2 * Len(f.data) + 1
           /\ k = 1 => TextLine(n, f, k) = Line("Frame", n)
           /\ k = 2 => TextLine(n, f, k) = Line("Epoch Time:", n)
           /\ k = 3 => TextLine(n, f, k) = Line("Frame Length:", f.length)
           /\ k = 4 => TextLine(n, f, k) = Line("[Protocols in frame:", f.protocols)
           /\ k = 5 => TextLine(n, f, k) = Line("other", 0)
           /\ k = 6 /\ f.heartbeat => TextLine(n, f, k) = Line("HEARTBEAT chunk", 0)
           /\ k = 7 /\ f.heartbeat => TextLine(n, f, k) = Line("other", 0)
           /\ k = TextSize(f) => TextLine(n, f, k) = Line("blank", 0)
           /\ k # TextSize(f) => TextLine(n, f, k).is # "blank"
           /\ k # 1 => TextLine(n, f, k).is # "Frame"
           /\ \A d \in 0 .. Len(f.data) - 1 : k = HeadSize(f) + 1 + 2 * d =>
                  TextLine(n, f, k) = Line("Data", f.data[d + 1])
<1> DEFINE h == HeadSize(f)  z == Len(f.data)  t == TextSize(f)  l == TextLine(n, f, k)
<1>1. h \in {5, 7} /\ z \in Nat /\ t = h + 2 * z + 1 /\ h = IF f.heartbeat THEN 7 ELSE 5
  BY LenProperties DEF FrameSet, HeadSize, TextSize
<1>2. l = IF k <= h THEN HeadLines(n, f)[k]
          ELSE IF k = t THEN Line("blank", 0)
          ELSE IF (k - h) % 2 = 1 THEN Line("Data", f.data[(k - h + 1) \div 2])
          ELSE Line("bytes", 0)
  BY DEF TextLine
<1>3. /\ HeadLines(n, f)[1] = Line("Frame", n)
      /\ HeadLines(n, f)[2] = Line("Epoch Time:", n)
      /\ HeadLines(n, f)[3] = Line("Frame Length:", f.length)
      /\ HeadLines(n, f)[4] = Line("[Protocols in frame:", f.protocols)
      /\ HeadLines(n, f)[5] = Line("other", 0)
      /\ HeadLines(n, f)[6] = Line("HEARTBEAT chunk", 0)
      /\ HeadLines(n, f)[7] = Line("other", 0)
  BY DEF HeadLines
<1>4. k \in 1 .. t
  OBVIOUS
<1>w. /\ Line("Frame", n).is = "Frame" /\ Line("Epoch Time:", n).is = "Epoch Time:"
      /\ Line("Frame Length:", f.length).is = "Frame Length:"
      /\ Line("[Protocols in frame:", f.protocols).is = "[Protocols in frame:"
      /\ Line("other", 0).is = "other" /\ Line("HEARTBEAT chunk", 0).is = "HEARTBEAT chunk"
      /\ Line("blank", 0).is = "blank" /\ Line("bytes", 0).is = "bytes"
      /\ \A v : Line("Data", v).is = "Data"
  BY LineSays
<1> HIDE DEF h, z, t, l
<1>5. k \in Nat /\ k >= 1 /\ k <= t /\ t > h
  BY <1>1, <1>4
<1>6. ASSUME NEW d \in 0 .. z - 1, k = h + 1 + 2 * d
      PROVE  l = Line("Data", f.data[d + 1])
  <2>1. (2 * d + 1) % 2 = 1 /\ (2 * d + 2) \div 2 = d + 1
    BY <1>1
  <2>2. k - h = 2 * d + 1 /\ k - h + 1 = 2 * d + 2 /\ ~ (k <= h) /\ k # t
    BY <1>1, <1>6
  <2>. QED
    BY <1>2, <2>1, <2>2
<1>7. k = t => l = Line("blank", 0)
  BY <1>1, <1>2
<1>8. CASE k <= h
  <2>1. l = HeadLines(n, f)[k] /\ k \in {1, 2, 3, 4, 5, 6, 7} /\ k # t
    BY <1>1, <1>2, <1>5, <1>8
  <2>2. k # 1 => l \in {Line("Epoch Time:", n), Line("Frame Length:", f.length),
                        Line("[Protocols in frame:", f.protocols), Line("other", 0),
                        Line("HEARTBEAT chunk", 0)}
    BY <1>3, <2>1
  <2>3. k # 1 => l.is \in {"Epoch Time:", "Frame Length:", "[Protocols in frame:", "other",
                           "HEARTBEAT chunk"}
    BY <2>2, <1>w
  <2>4. k = 1 => l.is = "Frame"
    BY <1>3, <2>1, <1>w
  <2>5. l.is # "blank" /\ (k # 1 => l.is # "Frame")
    BY <2>3, <2>4
  <2>. QED
    BY <1>1, <1>3, <1>6, <2>1, <2>5 DEF h, z, t, l
<1>9. CASE ~ (k <= h)
  <2>1. k > 5 /\ (f.heartbeat => k > 7)
    BY <1>1, <1>5, <1>9
  <2>2. k # t => l = Line("bytes", 0) \/ \E v : l = Line("Data", v)
    BY <1>2, <1>9
  <2>3. (k # t => l.is # "blank") /\ l.is # "Frame"
    BY <1>7, <2>2, <1>w
  <2>. QED
    <3>1. k # 1 /\ k # 2 /\ k # 3 /\ k # 4 /\ k # 5 /\ ~ (k = 6 /\ f.heartbeat)
          /\ ~ (k = 7 /\ f.heartbeat)
      BY <1>5, <2>1
    <3>. QED
      BY <1>1, <1>6, <1>7, <2>3, <3>1 DEF h, z, t, l
<1>. QED
  BY <1>8, <1>9

LEMMA HeadOfFrame ==
    ASSUME NEW f \in FrameSet, NEW n, NEW k \in 1 .. TextSize(f)
    PROVE  /\ k = 2 => TextLine(n, f, k) = Line("Epoch Time:", n)
           /\ k = 3 => TextLine(n, f, k) = Line("Frame Length:", f.length)
           /\ k = 4 => TextLine(n, f, k) = Line("[Protocols in frame:", f.protocols)
           /\ k = 5 => TextLine(n, f, k) = Line("other", 0)
           /\ k = 6 /\ f.heartbeat => TextLine(n, f, k) = Line("HEARTBEAT chunk", 0)
BY LinesOfFrame

(* The sum of the first chunks of a frame. *)
Gone(f, d) == SumFunctionOnSet(f.data, 1 .. d)

LEMMA FirstChunks ==
    ASSUME NEW f \in FrameSet, NEW d \in 0 .. Len(f.data)
    PROVE  /\ Gone(f, 0) = 0 /\ Gone(f, d) \in Nat
           /\ d < Len(f.data) => /\ f.data[d + 1] \in Nat
                                 /\ Gone(f, d + 1) = Gone(f, d) + f.data[d + 1]
<1>1. f.data \in Seq(Nat) /\ Len(f.data) \in Nat
  BY LenProperties DEF FrameSet
<1>2. \A i \in 1 .. Len(f.data) : f.data[i] \in Nat
  BY <1>1, ElementOfSeq
<1>3. IsFiniteSet(1 .. d) /\ \A i \in 1 .. d : f.data[i] \in Nat
  BY <1>1, <1>2, FS_Interval
<1>4. Gone(f, d) \in Nat
  BY <1>3, SumNat DEF Gone
<1>5. Gone(f, 0) = 0
  <2>1. 1 .. 0 = {}
    OBVIOUS
  <2>. QED
    BY <2>1, SumEmpty DEF Gone
<1>6. ASSUME d < Len(f.data)
      PROVE  f.data[d + 1] \in Nat /\ Gone(f, d + 1) = Gone(f, d) + f.data[d + 1]
  <2>1. f.data[d + 1] \in Nat
    BY <1>1, <1>2, <1>6
  <2>2. d + 1 \notin 1 .. d /\ 1 .. d + 1 = (1 .. d) \cup {d + 1}
    BY <1>1
  <2>3. \A i \in 1 .. d : f.data[i] \in Int
    BY <1>3
  <2> DEFINE y == d + 1
  <2>4. y \notin 1 .. d /\ f.data[y] \in Int
    BY <2>1, <2>2
  <2> HIDE DEF y
  <2>5. SumFunctionOnSet(f.data, (1 .. d) \cup {y}) = f.data[y] + SumFunctionOnSet(f.data, 1 .. d)
    BY <1>3, <2>3, <2>4, SumInsert
  <2>6. SumFunctionOnSet(f.data, 1 .. d + 1) = f.data[d + 1] + SumFunctionOnSet(f.data, 1 .. d)
    BY <2>2, <2>5 DEF y
  <2> DEFINE p == f.data[d + 1]  q == SumFunctionOnSet(f.data, 1 .. d)
             r == SumFunctionOnSet(f.data, 1 .. d + 1)
  <2>7. p \in Nat /\ q \in Nat /\ r = p + q
    BY <1>4, <2>1, <2>6 DEF Gone
  <2> HIDE DEF p, q, r
  <2>8. r = q + p
    BY <2>7
  <2>. QED
    BY <2>1, <2>8 DEF Gone, p, q, r
<1>. QED
  BY <1>4, <1>5, <1>6

(* All of them are the user data of the frame, and none of them are taken  *)
(* back.                                                                   *)
LEMMA AllChunks ==
    ASSUME NEW f \in FrameSet
    PROVE  /\ Frame!Useful(f) = Gone(f, Len(f.data))
           /\ Frame!Useful(f) \in Nat
           /\ \A d \in 0 .. Len(f.data) : Gone(f, d) \in 0 .. Frame!Useful(f)
<1>1. f.data \in Seq(Nat) /\ Len(f.data) \in Nat /\ DOMAIN f.data = 1 .. Len(f.data)
  BY LenProperties DEF FrameSet
<1>2. Frame!Useful(f) = Gone(f, Len(f.data))
  BY <1>1 DEF Frame!Useful, Frame!SumFunction, Frame!FoldFunction, Frame!SumFunctionOnSet, Frame!FoldFunctionOnSet,
       Frame!MapThenFoldSet, Gone, SumFunctionOnSet, FoldFunctionOnSet, MapThenFoldSet
<1>3. Gone(f, Len(f.data)) \in Nat
  BY <1>1, FirstChunks
<1>4. ASSUME NEW d \in 0 .. Len(f.data) PROVE Gone(f, d) <= Gone(f, Len(f.data))
  <2>1. 1 .. d \subseteq 1 .. Len(f.data) /\ IsFiniteSet(1 .. Len(f.data))
    BY <1>1, FS_Interval
  <2>2. \A i \in 1 .. Len(f.data) : f.data[i] \in Nat
    BY <1>1, ElementOfSeq
  <2>. QED
    BY <2>1, <2>2, SumMonotone DEF Gone
<1>5. \A d \in 0 .. Len(f.data) : Gone(f, d) \in Nat
  BY FirstChunks
<1>. QED
  BY <1>1, <1>2, <1>3, <1>4, <1>5

(* How much of a frame the text has, and where the next line is. *)
LEMMA TextOfFrame ==
    ASSUME TraceOK, NEW n \in 1 .. Len(frames)
    PROVE  /\ frames[n] \in FrameSet
           /\ LinesLeft(n) \in 1 .. TextSize(frames[n]) /\ TextSize(frames[n]) \in Nat
           /\ LinesLeft(n) # TextSize(frames[n]) <=> cut /\ n = Len(frames)
<1>1. frames[n] \in FrameSet
  BY TraceFrames
<1>2. TextSize(frames[n]) \in Nat /\ TextSize(frames[n]) > 0
  BY <1>1, SizeOfFrame
<1>3. missing \in Nat /\ (missing # 0 => missing < TextSize(frames[Len(frames)]))
  BY DEF TraceOK, cut
<1> DEFINE t == TextSize(frames[n])
<1>4. CASE n = Len(frames)
  <2>1. LinesLeft(n) = t - missing
    BY <1>4 DEF LinesLeft
  <2>2. missing # 0 => missing < t
    BY <1>3, <1>4
  <2>3. t \in Nat /\ t > 0
    BY <1>2
  <2> HIDE DEF t
  <2>4. LinesLeft(n) \in 1 .. t /\ (LinesLeft(n) # t <=> missing # 0)
    BY <1>3, <2>1, <2>2, <2>3
  <2>. QED
    BY <1>1, <1>2, <1>4, <2>4 DEF cut, t
<1>5. CASE n # Len(frames)
  <2>1. LinesLeft(n) = t - 0
    BY <1>5 DEF LinesLeft
  <2>. QED
    BY <1>1, <1>2, <1>5, <2>1
<1>. QED
  BY <1>4, <1>5

LEMMA NextLine ==
    ASSUME NEW r, NEW n \in Nat, NEW k \in Nat, At(r, n, k)
    PROVE  /\ r.frame = n /\ r.line = k
           /\ k < LinesLeft(n) => At(After(r), n, k + 1)
           /\ ~ (k < LinesLeft(n)) => At(After(r), n + 1, 1)
<1>1. r = [frame |-> n, line |-> k]
  BY DEF At
<1>. QED
  BY <1>1 DEF At, After

(* A step leaves the trace alone, and what follows from it. *)
LEMMA SameTrace ==
    ASSUME UNCHANGED trace
    PROVE  /\ frames' = frames /\ missing' = missing /\ cut' = cut
           /\ TraceOK' = TraceOK
           /\ \A n : LinesLeft(n)' = LinesLeft(n)
           /\ Whole' = Whole
           /\ Lengths' = Lengths /\ Payloads' = Payloads /\ ChunkCounts' = ChunkCounts
<1>1. frames' = frames /\ missing' = missing
  BY DEF trace
<1>2. cut' = cut
  BY <1>1 DEF cut
<1>. QED
  BY <1>1, <1>2 DEF TraceOK, LinesLeft, Whole, Lengths, Payloads, ChunkCounts, Frame!Wanted,
       Frame!Useful, Frame!Chunks

(* A line that is looked for is the first of the frame that is read next:  *)
(* the rest of a frame that was given up is passed over.                   *)
LEMMA StepScan ==
    ASSUME ParserInv, Scan
    PROVE  ParserInv'
<1> DEFINE c == current_frame
<1>1. /\ reading = "scan" /\ ~ AtEnd(reader) /\ reader' = After(reader)
      /\ words' = IF line.is = "blank" THEN words ELSE line
      /\ UNCHANGED trace /\ current_frame' = current_frame /\ totals' = totals /\ row' = row
      /\ \/ /\ words' = Line("Frame", c) /\ reading' = "extract"
            /\ \E e, l \in Garbage : local' = Fresh(e, l)
         \/ words' # Line("Frame", c) /\ reading' = reading /\ local' = local
  BY DEF Scan
<1>2. TraceOK /\ ReaderInv /\ WordsInv /\ TotalsInv /\ RowInv /\ c \in 1 .. Len(frames) + 1
      /\ Len(frames) \in Nat
  BY TraceFrames DEF ParserInv, ReaderInv
<1>3. frames' = frames /\ missing' = missing /\ cut' = cut /\ TraceOK'
      /\ \A n : LinesLeft(n)' = LinesLeft(n)
  BY <1>1, <1>2, SameTrace
<1>4. TotalsInv' /\ RowInv'
  <2>1. /\ Whole' = Whole /\ Lengths' = Lengths /\ Payloads' = Payloads
        /\ ChunkCounts' = ChunkCounts
    BY <1>1, SameTrace
  <2>2. TotalsInv'
    BY <1>1, <1>2, <1>3, <2>1 DEF TotalsInv, Counted, FirstAndLast, Total, Frame!Useful
  <2>3. row = NoRow
    BY <1>1, <1>2 DEF RowInv
  <2>. QED
    BY <1>1, <2>2, <2>3 DEF RowInv, NoRow
<1>5. \A m \in Nat : words = Line("Frame", m) => m < c
  BY <1>1, <1>2 DEF WordsInv
<1>6. CASE At(reader, c, 1)
  <2>1. c \in 1 .. Len(frames)
    BY <1>1, <1>2, <1>6 DEF At, AtEnd
  <2>2. /\ frames[c] \in FrameSet
        /\ LinesLeft(c) \in 1 .. TextSize(frames[c]) /\ TextSize(frames[c]) \in Nat
        /\ LinesLeft(c) # TextSize(frames[c]) <=> cut /\ c = Len(frames)
    BY <1>2, <2>1, TextOfFrame
  <2>3. line = Line("Frame", c)
    <3>1. reader.frame = c /\ reader.line = 1 /\ 1 \in 1 .. TextSize(frames[c])
      BY <1>6, <2>2 DEF At
    <3> DEFINE f == frames[c]
    <3>2. line = TextLine(c, f, 1)
      BY <3>1 DEF line
    <3>3. f \in FrameSet /\ 1 \in 1 .. TextSize(f)
      BY <2>2, <3>1
    <3> HIDE DEF f
    <3>4. TextLine(c, f, 1) = Line("Frame", c)
      BY <3>3, LinesOfFrame
    <3>. QED
      BY <3>2, <3>4
  <2>4. words' = Line("Frame", c)
    BY <1>1, <2>3, LineSays
  <2>5. reading' = "extract" /\ \E e, l \in Garbage : local' = Fresh(e, l)
    BY <1>1, <2>4
  <2>6. \/ LinesLeft(c) > 1 /\ At(reader', c, 2)
        \/ cut /\ c = Len(frames) /\ At(reader', c + 1, 1)
    <3>1. TextSize(frames[c]) > 1
      BY <2>2, SizeOfFrame
    <3>. QED
      BY <1>1, <1>6, <2>1, <2>2, <3>1, NextLine
  <2>7. ReaderInv'
    BY <1>1, <1>2, <1>3, <2>1, <2>2, <2>5, <2>6 DEF ReaderInv, At
  <2>8. WordsInv'
    <3>1. \A m : Line("Frame", m) = Line("Frame", c) => m = c
      BY LineSays
    <3>. QED
      BY <1>1, <2>4, <2>5, <3>1 DEF WordsInv
  <2>9. LocalInv'
    <3>1. PICK e, l \in Garbage : local' = Fresh(e, l)
      BY <2>5
    <3>2. /\ local'.epoch_time = e /\ local'.frame_length = l /\ local'.correct = TRUE
          /\ local'.heartbeat = FALSE /\ local'.data_length = 0 /\ local'.data_chunk_count = 0
      BY <3>1 DEF Fresh
    <3>8. local' \in Locals
      BY <3>1, GarbageAssumption DEF Fresh, Locals
    <3>3. Gone(frames[c], 0) = 0 /\ 0 \in 0 .. Len(frames[c].data)
      <4>1. Len(frames[c].data) \in Nat
        BY <2>2, LenProperties DEF FrameSet
      <4>. QED
        BY <2>2, <4>1, FirstChunks
    <3>4. Gathered(local', frames[c], 0)
      BY <1>1, <1>3, <3>2, <3>3 DEF Gathered, Gone
    <3>5. AtEnd(reader') \/ reader'.line = 2
      BY <2>1, <2>6, <1>2 DEF At, AtEnd
    <3>6. AtEnd(reader)' \/ (reader'.line = 2 /\ 2 <= HeadSize(frames[c]))
      BY <1>3, <3>5 DEF AtEnd, HeadSize
    <3>7. ~ AtEnd(reader)' => Known(local', c, frames[c], reader'.line)
      <4>1. ASSUME ~ AtEnd(reader)'
            PROVE  reader'.line = 2 /\ ~ (2 > 2) /\ ~ (2 > 3) /\ ~ (2 > 4) /\ ~ (2 > 5)
                   /\ ~ (2 > 6) /\ ~ (2 > 7)
        BY <3>6, <4>1
      <4>. QED
        BY <1>1, <1>3, <3>2, <4>1 DEF Known
    <3>. QED
      BY <1>1, <1>3, <3>2, <3>3, <3>4, <3>6, <3>7, <3>8 DEF LocalInv
  <2>. QED
    BY <1>3, <1>4, <2>7, <2>8, <2>9 DEF ParserInv
<1>7. CASE c > 1 /\ \E k \in 2 .. LinesLeft(c - 1) : At(reader, c - 1, k)
  <2>1. PICK k \in 2 .. LinesLeft(c - 1) : At(reader, c - 1, k)
    BY <1>7
  <2>2. c - 1 \in 1 .. Len(frames)
    BY <1>2, <1>7
  <2> DEFINE b == c - 1
  <2>3. frames[b] \in FrameSet /\ LinesLeft(b) \in 1 .. TextSize(frames[b])
        /\ TextSize(frames[b]) \in Nat
    BY <1>2, <2>2, TextOfFrame
  <2>4. line.is # "Frame"
    <3>1. reader.frame = b /\ reader.line = k /\ k \in 1 .. TextSize(frames[b]) /\ k # 1
      BY <2>1, <2>3 DEF At
    <3> HIDE DEF b
    <3>. QED
      BY <2>3, <3>1, LinesOfFrame DEF line
  <2>5. \A m \in Nat : words' = Line("Frame", m) => m < c
    BY <1>1, <1>5, <2>4, LineSays
  <2>6. reading' = "scan" /\ local' = local
    BY <1>1, <1>2, <2>5
  <2>7. \/ k < LinesLeft(b) /\ At(reader', b, k + 1)
        \/ At(reader', c, 1)
    <3>1. b \in Nat /\ k \in Nat /\ b + 1 = c
      BY <1>2, <2>1, <2>2, <2>3
    <3> HIDE DEF b
    <3>. QED
      BY <1>1, <2>1, <2>3, <3>1, NextLine DEF b
  <2>8. ReaderInv'
    <3>1. At(reader', c, 1) \/ \E j \in 2 .. LinesLeft(c - 1) : At(reader', c - 1, j)
      BY <2>1, <2>3, <2>7
    <3>. QED
      BY <1>1, <1>2, <1>3, <1>7, <2>6, <3>1 DEF ReaderInv, At
  <2>9. WordsInv' /\ LocalInv'
    BY <1>1, <1>2, <2>5, <2>6 DEF WordsInv, LocalInv, ParserInv
  <2>. QED
    BY <1>3, <1>4, <2>8, <2>9 DEF ParserInv
<1>. QED
  BY <1>1, <1>2, <1>6, <1>7 DEF ReaderInv

(* What dataExtractor() keeps of a line, and what it leaves as it was. *)
LEMMA ExtractedOf ==
    ASSUME NEW e, e = Extracted, local \in Locals
    PROVE  /\ line.is = "HEARTBEAT chunk" => e = [local EXCEPT !.heartbeat = TRUE]
           /\ line.is = "[Protocols in frame:" => e = [local EXCEPT !.correct = Protocol \in line.v]
           /\ line.is = "Epoch Time:" => e = [local EXCEPT !.epoch_time = line.v]
           /\ line.is = "Frame Length:" => e = [local EXCEPT !.frame_length = line.v]
           /\ line.is = "Data" =>
                e = [local EXCEPT !.data_length = @ + line.v,
                                  !.data_chunk_count = @ + IF Protocol = "sctp" THEN 1 ELSE 0]
           /\ line.is \in {"other", "bytes", "blank"} => e = local
BY DEF Extracted

(* Inside a frame. *)
LEMMA InsideFrame ==
    ASSUME ParserInv, reading = "extract", ~ AtEnd(reader)
    PROVE  /\ current_frame \in 1 .. Len(frames) /\ Len(frames) \in Nat
           /\ frames[current_frame] \in FrameSet
           /\ \E k \in 2 .. LinesLeft(current_frame) :
                /\ At(reader, current_frame, k) /\ reader.line = k
                /\ k \in 1 .. TextSize(frames[current_frame])
                /\ line = TextLine(current_frame, frames[current_frame], k)
                /\ Known(local, current_frame, frames[current_frame], k)
           /\ LinesLeft(current_frame) \in 1 .. TextSize(frames[current_frame])
           /\ TextSize(frames[current_frame]) \in Nat
           /\ LinesLeft(current_frame) # TextSize(frames[current_frame])
                <=> cut /\ current_frame = Len(frames)
<1> DEFINE c == current_frame
<1>1. TraceOK /\ ReaderInv /\ LocalInv
  BY DEF ParserInv
<1>2. c \in 1 .. Len(frames) /\ Len(frames) \in Nat
  <2>1. Len(frames) \in Nat
    BY <1>1, TraceFrames
  <2>2. c \in 1 .. Len(frames) + 1 /\ c <= Len(frames)
    BY <1>1 DEF ReaderInv
  <2>. QED
    BY <2>1, <2>2
<1>3. /\ frames[c] \in FrameSet
      /\ LinesLeft(c) \in 1 .. TextSize(frames[c]) /\ TextSize(frames[c]) \in Nat
      /\ LinesLeft(c) # TextSize(frames[c]) <=> cut /\ c = Len(frames)
  BY <1>1, <1>2, TextOfFrame
<1>4. PICK k \in 2 .. LinesLeft(c) : At(reader, c, k)
  BY <1>1, <1>2 DEF ReaderInv, At, AtEnd
<1>5. reader.frame = c /\ reader.line = k /\ k \in 1 .. TextSize(frames[c])
  BY <1>3, <1>4 DEF At
<1>6. line = TextLine(c, frames[c], k)
  BY <1>5 DEF line
<1>7. Known(local, c, frames[c], k)
  BY <1>1, <1>5 DEF LocalInv
<1>. QED
  BY <1>2, <1>3, <1>4, <1>5, <1>6, <1>7

LEMMA StepExtract ==
    ASSUME ParserInv, Extract
    PROVE  ParserInv'
<1> DEFINE c == current_frame  f == frames[c]
<1>1. /\ reading = "extract" /\ ~ AtEnd(reader) /\ line.is # "blank"
      /\ local.correct /\ ~ local.heartbeat /\ local' = Extracted
      /\ reader' = IF line.is = "Data" /\ ~ AtEnd(After(reader))
                   THEN After(After(reader)) ELSE After(reader)
      /\ UNCHANGED trace /\ reading' = reading /\ current_frame' = current_frame
      /\ words' = words /\ totals' = totals /\ row' = row
  BY DEF Extract
<1>2. TraceOK /\ ReaderInv /\ WordsInv /\ LocalInv /\ TotalsInv /\ RowInv /\ local \in Locals
  BY DEF ParserInv, LocalInv
<1>3. frames' = frames /\ missing' = missing /\ cut' = cut /\ TraceOK'
      /\ \A n : LinesLeft(n)' = LinesLeft(n)
  BY <1>1, <1>2, SameTrace
<1>4. TotalsInv' /\ RowInv' /\ WordsInv'
  <2>1. /\ Whole' = Whole /\ Lengths' = Lengths /\ Payloads' = Payloads
        /\ ChunkCounts' = ChunkCounts
    BY <1>1, SameTrace
  <2>2. TotalsInv'
    BY <1>1, <1>2, <1>3, <2>1 DEF TotalsInv, Counted, FirstAndLast, Total, Frame!Useful
  <2>. QED
    BY <1>1, <1>2, <2>2 DEF RowInv, WordsInv
<1>5. /\ c \in 1 .. Len(frames) /\ Len(frames) \in Nat /\ f \in FrameSet
      /\ LinesLeft(c) \in 1 .. TextSize(f) /\ TextSize(f) \in Nat
      /\ LinesLeft(c) # TextSize(f) <=> cut /\ c = Len(frames)
  BY <1>1, InsideFrame
<1>6. PICK k \in 2 .. LinesLeft(c) :
        /\ At(reader, c, k) /\ reader.line = k /\ k \in 1 .. TextSize(f)
        /\ line = TextLine(c, f, k) /\ Known(local, c, f, k)
  BY <1>1, InsideFrame
<1>7. /\ Len(f.data) \in Nat /\ HeadSize(f) = IF f.heartbeat THEN 7 ELSE 5
      /\ TextSize(f) = HeadSize(f) + 2 * Len(f.data) + 1
  BY <1>5, SizeOfFrame
<1>8. PICK d \in 0 .. Len(f.data) :
        /\ Gathered(local, f, d)
        /\ k = HeadSize(f) + 1 + 2 * d \/ (d = 0 /\ k <= HeadSize(f))
  BY <1>1, <1>2, <1>6 DEF LocalInv
<1>9. /\ k > 2 => local.epoch_time = c
      /\ k > 3 => local.frame_length = f.length
      /\ k > 4 => Protocol \in f.protocols
      /\ ~ (k > 6 /\ f.heartbeat)
  BY <1>1, <1>6 DEF Known
<1>10. /\ local.epoch_time \in Garbage \cup {c} /\ local.frame_length \in Garbage \cup {f.length}
       /\ f.heartbeat \in BOOLEAN /\ f.length \in Nat
  BY <1>1, <1>2, <1>5 DEF LocalInv, FrameSet
<1> HIDE DEF f
<1>a. k # TextSize(f)
  <2>1. k = TextSize(f) => line = Line("blank", 0)
    BY <1>5, <1>6, LinesOfFrame
  <2>2. Line("blank", 0).is = "blank"
    BY LineSays
  <2>. QED
    BY <1>1, <2>1, <2>2
<1>11. ASSUME NEW j \in Nat, NEW g \in 0 .. Len(f.data),
              \/ At(reader', c, j) /\ j \in 2 .. LinesLeft(c)
              \/ cut /\ c = Len(frames) /\ At(reader', c + 1, 1),
              local' \in Locals, Gathered(local', f, g),
              j = HeadSize(f) + 1 + 2 * g \/ (g = 0 /\ j <= HeadSize(f)),
              local'.epoch_time \in Garbage \cup {c},
              local'.frame_length \in Garbage \cup {f.length},
              Known(local', c, f, j)
       PROVE  ParserInv'
  <2>1. ReaderInv'
    BY <1>1, <1>2, <1>3, <1>5, <1>11 DEF ReaderInv, At
  <2>2. AtEnd(reader)' \/ reader'.line = j
    BY <1>3, <1>5, <1>11 DEF At, AtEnd
  <2>3. frames'[current_frame'] = f
    BY <1>1, <1>3 DEF f
  <2>4. LocalInv'
    BY <1>1, <1>3, <1>11, <2>2, <2>3 DEF LocalInv
  <2>. QED
    BY <1>3, <1>4, <2>1, <2>4 DEF ParserInv
<1> DEFINE hs == HeadSize(f)  z == Len(f.data)  ts == TextSize(f)
<1>b. /\ k \in Nat /\ k >= 2 /\ k <= ts /\ k # ts /\ z \in Nat /\ d \in Nat /\ d <= z
      /\ hs \in {5, 7} /\ ts = hs + 2 * z + 1 /\ ts \in Nat
  <2>1. hs \in {5, 7} /\ ts = hs + 2 * z + 1
    BY <1>7
  <2>2. k \in 2 .. LinesLeft(c) /\ LinesLeft(c) \in 1 .. ts /\ ts \in Nat /\ k # ts
    BY <1>5, <1>6, <1>a
  <2>3. d \in 0 .. z /\ z \in Nat
    BY <1>7, <1>8
  <2> HIDE DEF hs, z, ts
  <2>4. k \in Nat /\ k >= 2 /\ k <= ts
    BY <2>2
  <2>. QED
    BY <2>1, <2>2, <2>3, <2>4
<1>12. CASE k <= HeadSize(f)
  <2>1. d = 0 /\ k \in {2, 3, 4, 5, 6} /\ (k = 6 => f.heartbeat) /\ k < TextSize(f)
    <3>1. k \in Nat /\ k >= 2 /\ k <= hs /\ d \in Nat /\ z \in Nat /\ ts = hs + 2 * z + 1
          /\ hs \in {5, 7} /\ (k = hs + 1 + 2 * d \/ (d = 0 /\ k <= hs))
      BY <1>b, <1>8, <1>12
    <3>2. (hs = 7 <=> f.heartbeat) /\ ~ (k > 6 /\ f.heartbeat)
      BY <1>7, <1>9
    <3> HIDE DEF hs, z
    <3>3. d = 0 /\ k \in {2, 3, 4, 5, 6, 7} /\ k < ts /\ (k \in {6, 7} => hs = 7)
      BY <3>1
    <3>. QED
      BY <3>2, <3>3
  <2>2. /\ k = 2 => line = Line("Epoch Time:", c)
        /\ k = 3 => line = Line("Frame Length:", f.length)
        /\ k = 4 => line = Line("[Protocols in frame:", f.protocols)
        /\ k = 5 => line = Line("other", 0)
        /\ k = 6 => line = Line("HEARTBEAT chunk", 0)
    <3>1. /\ k = 2 => TextLine(c, f, k) = Line("Epoch Time:", c)
          /\ k = 3 => TextLine(c, f, k) = Line("Frame Length:", f.length)
          /\ k = 4 => TextLine(c, f, k) = Line("[Protocols in frame:", f.protocols)
          /\ k = 5 => TextLine(c, f, k) = Line("other", 0)
          /\ k = 6 /\ f.heartbeat => TextLine(c, f, k) = Line("HEARTBEAT chunk", 0)
      BY <1>5, <1>6, HeadOfFrame
    <3>. QED
      BY <1>6, <2>1, <3>1
  <2>3. /\ k = 2 => line.is = "Epoch Time:" /\ line.v = c
        /\ k = 3 => line.is = "Frame Length:" /\ line.v = f.length
        /\ k = 4 => line.is = "[Protocols in frame:" /\ line.v = f.protocols
        /\ k = 5 => line.is = "other"
        /\ k = 6 => line.is = "HEARTBEAT chunk"
    <3>1. /\ Line("Epoch Time:", c).is = "Epoch Time:" /\ Line("Epoch Time:", c).v = c
          /\ Line("Frame Length:", f.length).is = "Frame Length:"
          /\ Line("Frame Length:", f.length).v = f.length
          /\ Line("[Protocols in frame:", f.protocols).is = "[Protocols in frame:"
          /\ Line("[Protocols in frame:", f.protocols).v = f.protocols
          /\ Line("other", 0).is = "other" /\ Line("HEARTBEAT chunk", 0).is = "HEARTBEAT chunk"
      BY LineSays
    <3>. QED
      BY <2>2, <3>1
  <2>4. /\ k = 2 => local' = [local EXCEPT !.epoch_time = c]
        /\ k = 3 => local' = [local EXCEPT !.frame_length = f.length]
        /\ k = 4 => local' = [local EXCEPT !.correct = Protocol \in f.protocols]
        /\ k = 5 => local' = local
        /\ k = 6 => local' = [local EXCEPT !.heartbeat = TRUE]
    BY <1>1, <1>2, <2>3, ExtractedOf
  <2>5. /\ local' \in Locals
        /\ local'.data_length = local.data_length
        /\ local'.data_chunk_count = local.data_chunk_count
        /\ local'.epoch_time = IF k = 2 THEN c ELSE local.epoch_time
        /\ local'.frame_length = IF k = 3 THEN f.length ELSE local.frame_length
        /\ k # 4 => local'.correct = local.correct
        /\ k = 4 => local'.correct = (Protocol \in f.protocols)
        /\ local'.heartbeat = IF k = 6 THEN TRUE ELSE local.heartbeat
    <3>1. c \in Int
      BY <1>5
    <3>2. CASE k = 2
      BY <1>2, <2>4, <3>1, <3>2 DEF Locals
    <3>3. CASE k = 3
      BY <1>2, <1>10, <2>4, <3>3 DEF Locals
    <3> DEFINE b == Protocol \in f.protocols
    <3>7. b \in BOOLEAN /\ (k = 4 => local' = [local EXCEPT !.correct = b])
      BY <2>4
    <3> HIDE DEF b
    <3>8. k = 4 => local' \in Locals /\ local'.correct = b
                   /\ local'.data_length = local.data_length
                   /\ local'.data_chunk_count = local.data_chunk_count
                   /\ local'.epoch_time = local.epoch_time
                   /\ local'.frame_length = local.frame_length
                   /\ local'.heartbeat = local.heartbeat
      BY <1>2, <3>7 DEF Locals
    <3>4. CASE k = 4
      BY <3>4, <3>8 DEF b
    <3>5. CASE k = 5
      BY <1>2, <2>4, <3>5 DEF Locals
    <3>6. CASE k = 6
      BY <1>2, <2>4, <3>6 DEF Locals
    <3>. QED
      BY <2>1, <3>2, <3>3, <3>4, <3>5, <3>6
  <2>6. Gathered(local', f, 0)
    BY <1>8, <2>1, <2>5 DEF Gathered
  <2>7. Known(local', c, f, k + 1)
    <3>1. /\ k + 1 > 2 => local'.epoch_time = c
          /\ k + 1 > 3 => local'.frame_length = f.length
      BY <1>9, <2>1, <2>5
    <3>2. local'.correct = (k + 1 > 4 => Protocol \in f.protocols)
      <4>1. CASE k = 4
        <5>1. k + 1 > 4
          BY <4>1
        <5>. QED
          BY <2>5, <4>1, <5>1
      <4>2. CASE k # 4
        <5>1. (k + 1 > 4) <=> (k > 4)
          BY <2>1, <4>2
        <5>2. local.correct = (k > 4 => Protocol \in f.protocols)
          BY <1>6 DEF Known
        <5>. QED
          BY <2>5, <4>2, <5>1, <5>2
      <4>. QED
        BY <4>1, <4>2
    <3>3. local'.heartbeat = (k + 1 > 6 /\ f.heartbeat)
      <4>1. CASE k = 6
        <5>1. k + 1 > 6
          BY <4>1
        <5>. QED
          BY <2>1, <2>5, <4>1, <5>1
      <4>2. CASE k # 6
        <5>1. ~ (k + 1 > 6) /\ ~ (k > 6)
          BY <2>1, <4>2
        <5>2. local.heartbeat = (k > 6 /\ f.heartbeat)
          BY <1>6 DEF Known
        <5>. QED
          BY <2>5, <4>2, <5>1, <5>2
      <4>. QED
        BY <4>1, <4>2
    <3>4. k + 1 > 5 => local'.correct
      <4>1. k + 1 > 5 => k # 4
        BY <2>1
      <4>. QED
        BY <1>1, <2>5, <4>1
    <3>5. ~ (k + 1 > 7)
      BY <2>1
    <3>. QED
      BY <3>1, <3>2, <3>3, <3>4, <3>5 DEF Known
  <2>8. \/ At(reader', c, k + 1) /\ k + 1 \in 2 .. LinesLeft(c)
        \/ cut /\ c = Len(frames) /\ At(reader', c + 1, 1)
    <3>1. reader' = After(reader)
      BY <1>1, <2>1, <2>3
    <3>2. c \in Nat /\ k \in Nat
      BY <1>5, <2>1
    <3>3. /\ k < LinesLeft(c) => At(reader', c, k + 1)
          /\ ~ (k < LinesLeft(c)) => At(reader', c + 1, 1)
      BY <1>6, <3>1, <3>2, NextLine
    <3>. QED
      BY <1>5, <1>6, <2>1, <3>3
  <2>9. /\ local'.epoch_time \in Garbage \cup {c} /\ local'.frame_length \in Garbage \cup {f.length}
        /\ k + 1 \in Nat /\ 0 \in 0 .. Len(f.data)
        /\ k + 1 = HeadSize(f) + 1 + 2 * 0 \/ k + 1 <= HeadSize(f)
    BY <1>7, <1>10, <1>12, <2>1, <2>5
  <2>. QED
    BY <1>11, <2>5, <2>6, <2>7, <2>8, <2>9
<1>13. CASE ~ (k <= HeadSize(f))
  <2>1. /\ k = HeadSize(f) + 1 + 2 * d /\ d + 1 \in 0 .. Len(f.data) /\ d \in 0 .. Len(f.data) - 1
        /\ k > 5 /\ ~ f.heartbeat /\ k + 2 <= TextSize(f)
    <3>1. k > hs /\ (k = hs + 1 + 2 * d \/ (d = 0 /\ k <= hs))
      BY <1>b, <1>8, <1>13
    <3>2. (hs = 7 <=> f.heartbeat) /\ ~ (k > 6 /\ f.heartbeat)
      BY <1>7, <1>9
    <3> HIDE DEF hs, z, ts
    <3>3. k = hs + 1 + 2 * d /\ d + 1 \in 0 .. z /\ d \in 0 .. z - 1 /\ k > 5
          /\ (hs = 7 => k > 6) /\ k + 2 <= ts
      BY <1>b, <3>1
    <3>. QED
      BY <3>2, <3>3 DEF hs, z, ts
  <2>2. line = Line("Data", f.data[d + 1])
    BY <1>5, <1>6, <2>1, LinesOfFrame
  <2>3. line.is = "Data" /\ line.v = f.data[d + 1]
    BY <2>2, LineSays
  <2>4. local' = [local EXCEPT !.data_length = @ + f.data[d + 1],
                               !.data_chunk_count = @ + IF Protocol = "sctp" THEN 1 ELSE 0]
    BY <1>1, <1>2, <2>3, ExtractedOf
  <2>5. f.data[d + 1] \in Nat /\ Gone(f, d + 1) = Gone(f, d) + f.data[d + 1]
    <3>1. d \in 0 .. Len(f.data) /\ d < Len(f.data)
      BY <1>b, <2>1
    <3>. QED
      BY <1>5, <3>1, FirstChunks
  <2>6. /\ local' \in Locals
        /\ local'.data_length = local.data_length + f.data[d + 1]
        /\ local'.data_chunk_count = local.data_chunk_count + IF Protocol = "sctp" THEN 1 ELSE 0
        /\ local'.epoch_time = local.epoch_time /\ local'.frame_length = local.frame_length
        /\ local'.correct = local.correct /\ local'.heartbeat = local.heartbeat
    <3> DEFINE x == f.data[d + 1]  y == IF Protocol = "sctp" THEN 1 ELSE 0
    <3> DEFINE p == local.data_length + x  q == local.data_chunk_count + y
    <3>0. local' = [local EXCEPT !.data_length = p, !.data_chunk_count = q]
      BY <2>4
    <3>1. x \in Nat /\ y \in Nat /\ local.data_length \in Nat /\ local.data_chunk_count \in Nat
      BY <1>2, <2>5 DEF Locals
    <3>a. p \in Nat /\ q \in Nat
      BY <3>1
    <3> HIDE DEF p, q
    <3>2. /\ local' \in Locals
          /\ local'.data_length = p /\ local'.data_chunk_count = q
          /\ local'.epoch_time = local.epoch_time /\ local'.frame_length = local.frame_length
          /\ local'.correct = local.correct /\ local'.heartbeat = local.heartbeat
      BY <1>2, <3>0, <3>a DEF Locals
    <3>. QED
      BY <3>2 DEF p, q
  <2>7. Gathered(local', f, d + 1)
    BY <1>8, <2>1, <2>5, <2>6 DEF Gathered, Gone
  <2>8. \A j \in {k + 1, k + 2} : Known(local', c, f, j)
    <3>1. \A j \in {k + 1, k + 2} : j > 2 /\ j > 3 /\ j > 4 /\ j > 5 /\ k > 2 /\ k > 3 /\ k > 4
      BY <1>6, <2>1
    <3>2. local.correct = TRUE /\ local.heartbeat = FALSE
      BY <1>1, <1>2 DEF Locals
    <3>. QED
      BY <1>9, <2>1, <2>6, <3>1, <3>2 DEF Known
  <2>9. /\ local'.epoch_time \in Garbage \cup {c} /\ local'.frame_length \in Garbage \cup {f.length}
        /\ k + 2 = HeadSize(f) + 1 + 2 * (d + 1)
    BY <1>6, <1>7, <1>10, <2>1, <2>6
  <2>10. c \in Nat /\ k \in Nat /\ k + 1 \in Nat /\ k + 2 \in Nat /\ (k + 1) + 1 = k + 2
    BY <1>5, <1>6
  <2>11. CASE k < LinesLeft(c)
    <3>1. At(After(reader), c, k + 1)
      BY <1>6, <2>10, <2>11, NextLine
    <3>2. reader' = After(After(reader))
      BY <1>1, <1>5, <2>3, <3>1 DEF At, AtEnd
    <3> DEFINE r == After(reader)
    <3> HIDE DEF r
    <3>3. At(r, c, k + 1) /\ reader' = After(r)
      BY <3>1, <3>2 DEF r
    <3>4. /\ k + 1 < LinesLeft(c) => At(reader', c, k + 2)
          /\ ~ (k + 1 < LinesLeft(c)) => At(reader', c + 1, 1)
      BY <2>10, <3>3, NextLine
    <3>5. \/ At(reader', c, k + 2) /\ k + 2 \in 2 .. LinesLeft(c)
          \/ cut /\ c = Len(frames) /\ At(reader', c + 1, 1)
      BY <1>5, <1>6, <2>1, <2>11, <3>4
    <3>. QED
      BY <1>11, <2>1, <2>6, <2>7, <2>8, <2>9, <2>10, <3>5
  <2>12. CASE ~ (k < LinesLeft(c))
    <3>1. At(After(reader), c + 1, 1)
      BY <1>6, <2>10, <2>12, NextLine
    <3>2. cut /\ c = Len(frames)
      BY <1>5, <1>6, <2>1, <2>12
    <3>3. At(reader', c + 1, 1)
      BY <1>1, <1>5, <3>1, <3>2 DEF At, AtEnd
    <3>. QED
      BY <1>11, <2>1, <2>6, <2>7, <2>8, <2>9, <2>10, <3>2, <3>3
  <2>. QED
    BY <2>11, <2>12
<1>. QED
  BY <1>12, <1>13

(* The frames that should be counted, and those of them that were judged. *)
LEMMA WholeFrames ==
    ASSUME TraceOK
    PROVE  /\ Whole \subseteq 1 .. Len(frames) /\ IsFiniteSet(Whole)
           /\ Counted \subseteq Whole /\ IsFiniteSet(Counted)
           /\ Cardinality(Whole) \in Nat /\ Cardinality(Counted) \in Nat
           /\ \A n \in Whole : Lengths[n] \in Nat /\ Payloads[n] \in Nat /\ ChunkCounts[n] \in Nat
           /\ \A n \in 1 .. Len(frames) :
                /\ Lengths[n] = frames[n].length
                /\ Payloads[n] = Frame!Useful(frames[n])
                /\ ChunkCounts[n] = Frame!Chunks(frames[n])
           /\ SumFunctionOnSet(Payloads, Whole) \in Nat
<1>1. Len(frames) \in Nat /\ DOMAIN frames = 1 .. Len(frames)
      /\ \A n \in 1 .. Len(frames) : frames[n] \in FrameSet
  BY TraceFrames
<1>2. Whole \subseteq 1 .. Len(frames) /\ Counted \subseteq Whole
  BY <1>1 DEF Whole, Counted
<1>3. IsFiniteSet(1 .. Len(frames))
  BY <1>1, FS_Interval
<1>4. IsFiniteSet(Whole)
  BY <1>2, <1>3, FS_Subset
<1>5. IsFiniteSet(Counted)
  BY <1>2, <1>4, FS_Subset
<1>6. \A n \in 1 .. Len(frames) :
         /\ Lengths[n] = frames[n].length
         /\ Payloads[n] = Frame!Useful(frames[n])
         /\ ChunkCounts[n] = Frame!Chunks(frames[n])
  BY <1>1 DEF Lengths, Payloads, ChunkCounts
<1>7. ASSUME NEW n \in 1 .. Len(frames)
      PROVE  Lengths[n] \in Nat /\ Payloads[n] \in Nat /\ ChunkCounts[n] \in Nat
  <2>1. frames[n] \in FrameSet
    BY <1>1
  <2>2. frames[n].length \in Nat /\ Frame!Useful(frames[n]) \in Nat
    BY <2>1, AllChunks DEF FrameSet
  <2>3. Frame!Chunks(frames[n]) \in Nat
    <3>1. Len(frames[n].data) \in Nat
      BY <2>1, SizeOfFrame
    <3>. QED
      BY <3>1 DEF Frame!Chunks
  <2>. QED
    BY <1>6, <2>2, <2>3
<1>8. SumFunctionOnSet(Payloads, Whole) \in Nat
  BY <1>2, <1>4, <1>7, SumNat
<1>. QED
  BY <1>2, <1>4, <1>5, <1>6, <1>7, <1>8, FS_CardinalityType

(* The next frame is one more of them, or none. *)
LEMMA CountedNext ==
    ASSUME TraceOK, current_frame \in 1 .. Len(frames),
           UNCHANGED trace, current_frame' = current_frame + 1
    PROVE  /\ current_frame \in Whole => Counted' = Counted \cup {current_frame}
           /\ current_frame \notin Whole => Counted' = Counted
           /\ current_frame \notin Counted
           /\ current_frame = Len(frames) /\ current_frame \notin Whole => Counted = Whole
<1>1. Whole \subseteq 1 .. Len(frames) /\ Len(frames) \in Nat
  BY WholeFrames, TraceFrames
<1>2. Whole' = Whole
  BY SameTrace
<1>3. Counted' = {n \in Whole : n < current_frame + 1}
  BY <1>2 DEF Counted
<1>4. \A n \in Whole : n < current_frame + 1 <=> n < current_frame \/ n = current_frame
  BY <1>1
<1>5. current_frame = Len(frames) /\ current_frame \notin Whole =>
         \A n \in Whole : n < current_frame
  BY <1>1
<1>6. current_frame \in Whole => Counted' = Counted \cup {current_frame}
  BY <1>3, <1>4 DEF Counted
<1>7. current_frame \notin Whole => Counted' = Counted
  BY <1>3, <1>4 DEF Counted
<1>8. current_frame \notin Counted
  BY DEF Counted
<1>9. current_frame = Len(frames) /\ current_frame \notin Whole => Counted = Whole
  BY <1>5 DEF Counted
<1>. QED
  BY <1>6, <1>7, <1>8, <1>9

(* A frame is given up when it is not one that should be counted. *)
LEMMA GivenUp ==
    ASSUME ParserInv, GiveUp
    PROVE  /\ current_frame \in 1 .. Len(frames)
           /\ ~ Frame!Wanted(frames[current_frame])
<1> DEFINE c == current_frame  f == frames[c]
<1>1. reading = "extract" /\ ~ AtEnd(reader) /\ (~ local.correct \/ local.heartbeat)
  BY DEF GiveUp
<1>2. c \in 1 .. Len(frames) /\ \E k : Known(local, c, f, k)
  BY <1>1, InsideFrame
<1>3. ~ (Protocol \in f.protocols) \/ f.heartbeat
  BY <1>1, <1>2 DEF Known
<1>. QED
  BY <1>2, <1>3 DEF Frame!Wanted

LEMMA StepGiveUp ==
    ASSUME ParserInv, GiveUp
    PROVE  ParserInv'
<1> DEFINE c == current_frame  f == frames[c]
<1>1. /\ reading = "extract" /\ ~ AtEnd(reader) /\ reader' = After(reader)
      /\ reading' = "scan" /\ current_frame' = c + 1
      /\ UNCHANGED trace /\ words' = words /\ local' = local /\ totals' = totals /\ row' = row
  BY DEF GiveUp
<1>2. TraceOK /\ ReaderInv /\ WordsInv /\ LocalInv /\ TotalsInv /\ RowInv
  BY DEF ParserInv
<1>3. frames' = frames /\ missing' = missing /\ cut' = cut /\ TraceOK'
      /\ \A n : LinesLeft(n)' = LinesLeft(n)
  BY <1>1, <1>2, SameTrace
<1>4. /\ c \in 1 .. Len(frames) /\ Len(frames) \in Nat /\ f \in FrameSet
      /\ LinesLeft(c) \in 1 .. TextSize(f) /\ TextSize(f) \in Nat
  BY <1>1, InsideFrame
<1>5. PICK k \in 2 .. LinesLeft(c) : At(reader, c, k)
  BY <1>1, InsideFrame
<1>6. c \notin Whole
  BY GivenUp DEF Whole
<1>7. ReaderInv'
  <2>1. \/ k + 1 \in 2 .. LinesLeft(c) /\ At(reader', c, k + 1)
        \/ At(reader', c + 1, 1)
    <3>1. c \in Nat /\ k \in Nat
      BY <1>4, <1>5
    <3>2. /\ k < LinesLeft(c) => At(reader', c, k + 1)
          /\ ~ (k < LinesLeft(c)) => At(reader', c + 1, 1)
      BY <1>1, <1>5, <3>1, NextLine
    <3>. QED
      BY <1>4, <1>5, <3>2
  <2>2. c + 1 > 1 /\ (c + 1) - 1 = c /\ c + 1 \in 1 .. Len(frames) + 1
    BY <1>4
  <2>3. \/ At(reader', c + 1, 1)
        \/ \E j \in 2 .. LinesLeft((c + 1) - 1) : At(reader', (c + 1) - 1, j)
    BY <2>1, <2>2
  <2>4. \/ At(reader', c + 1, 1)
        \/ \E j \in 2 .. LinesLeft(current_frame - 1)' : At(reader', (c + 1) - 1, j)
    BY <1>1, <1>3, <2>2, <2>3 DEF LinesLeft
  <2>. QED
    BY <1>1, <1>3, <2>2, <2>4 DEF ReaderInv, At
<1>8. WordsInv'
  BY <1>1, <1>2, <1>4 DEF WordsInv
<1>9. LocalInv'
  BY <1>1, <1>2 DEF LocalInv
<1>10. TotalsInv'
  <2>1. /\ Whole' = Whole /\ Lengths' = Lengths /\ Payloads' = Payloads
        /\ ChunkCounts' = ChunkCounts
    BY <1>1, SameTrace
  <2>2. Counted' = Counted /\ (c = Len(frames) => Counted = Whole)
    BY <1>1, <1>2, <1>4, <1>6, CountedNext
  <2>3. /\ totals.packets = Cardinality(Counted)
        /\ totals.data = SumFunctionOnSet(Lengths, Counted)
        /\ totals.useful = SumFunctionOnSet(Payloads, Counted)
        /\ totals.chunks = SumFunctionOnSet(ChunkCounts, Counted)
        /\ FirstAndLast
    <3>1. ~ (c > Len(frames))
      BY <1>4
    <3>. QED
      BY <1>2, <3>1 DEF TotalsInv
  <2>4. CASE c = Len(frames)
    <3>1. totals.packets = Cardinality(Whole) /\ Cardinality(Whole) \in Nat
          /\ totals.useful = Total(Payloads) /\ Total(Payloads) \in Nat
          /\ Frame!Useful(frames[Len(frames)]) \in Nat
      BY <1>2, <1>4, <2>2, <2>3, <2>4, WholeFrames, AllChunks DEF Total
    <3> DEFINE p == totals.packets  w == Cardinality(Whole)  u == totals.useful
               v == Total(Payloads)  m == Frame!Useful(frames[Len(frames)])
    <3>2. p = w /\ w \in Nat /\ u = v /\ v \in Nat /\ m \in Nat
      BY <3>1
    <3> HIDE DEF p, w, u, v, m
    <3>3. p - w \in {0, 1} /\ u - v \in 0 .. m
      BY <3>2
    <3>4. totals.packets - Cardinality(Whole) \in {0, 1}
          /\ totals.useful - Total(Payloads) \in 0 .. Frame!Useful(frames[Len(frames)])
      BY <3>3 DEF p, w, u, v, m
    <3>. QED
      BY <1>1, <1>3, <2>1, <2>2, <2>3, <3>4 DEF TotalsInv, Total, FirstAndLast, Frame!Useful
  <2>5. CASE c # Len(frames)
    <3>1. ~ (c + 1 > Len(frames))
      BY <1>4, <2>5
    <3>. QED
      BY <1>1, <1>3, <2>1, <2>2, <2>3, <3>1 DEF TotalsInv, FirstAndLast
  <2>. QED
    BY <2>4, <2>5
<1>11. RowInv'
  BY <1>1, <1>2 DEF RowInv
<1>. QED
  BY <1>3, <1>7, <1>8, <1>9, <1>10, <1>11 DEF ParserInv

(* At its blank line a frame is known as a whole, and is one that should   *)
(* be counted.                                                             *)
LEMMA EndedByBlank ==
    ASSUME ParserInv, EndFrame, ~ AtEnd(reader)
    PROVE  /\ current_frame \in 1 .. Len(frames) /\ current_frame \in Whole
           /\ At(reader', current_frame + 1, 1)
           /\ Frame!Wanted(frames[current_frame])
           /\ totals' = Frame!Plus(totals, current_frame, frames[current_frame].length,
                                   Frame!Useful(frames[current_frame]),
                                   Frame!Chunks(frames[current_frame]))
<1> DEFINE c == current_frame  f == frames[c]
<1>1. /\ reading = "extract" /\ line.is = "blank" /\ reader' = After(reader)
      /\ totals' = Frame!Plus(totals, local.epoch_time, local.frame_length,
                              local.data_length, local.data_chunk_count)
  BY DEF EndFrame, FrameEnds
<1>2. /\ c \in 1 .. Len(frames) /\ Len(frames) \in Nat /\ f \in FrameSet
      /\ LinesLeft(c) \in 1 .. TextSize(f) /\ TextSize(f) \in Nat
      /\ LinesLeft(c) # TextSize(f) <=> cut /\ c = Len(frames)
  BY <1>1, InsideFrame
<1>3. PICK k \in 2 .. LinesLeft(c) :
        /\ At(reader, c, k) /\ reader.line = k /\ k \in 1 .. TextSize(f)
        /\ line = TextLine(c, f, k) /\ Known(local, c, f, k)
  BY <1>1, InsideFrame
<1>4. PICK d \in 0 .. Len(f.data) :
        /\ Gathered(local, f, d)
        /\ k = HeadSize(f) + 1 + 2 * d \/ (d = 0 /\ k <= HeadSize(f))
  BY <1>1, <1>3 DEF ParserInv, LocalInv
<1>5. /\ Len(f.data) \in Nat /\ HeadSize(f) = IF f.heartbeat THEN 7 ELSE 5
      /\ TextSize(f) = HeadSize(f) + 2 * Len(f.data) + 1 /\ TextSize(f) > 5
  BY <1>2, SizeOfFrame
<1>6. f.heartbeat \in BOOLEAN
  BY <1>2 DEF FrameSet
<1>7. k = TextSize(f) /\ k = LinesLeft(c)
  <2> HIDE DEF f
  <2>1. k = TextSize(f)
    BY <1>1, <1>2, <1>3, LinesOfFrame
  <2>. QED
    BY <1>2, <1>3, <2>1
<1> DEFINE hs == HeadSize(f)  z == Len(f.data)  ts == TextSize(f)
<1>8. d = Len(f.data) /\ k > 5 /\ (f.heartbeat => k > 7)
  <2>1. /\ hs \in {5, 7} /\ ts = hs + 2 * z + 1 /\ z \in Nat /\ d \in 0 .. z /\ k = ts
        /\ (k = hs + 1 + 2 * d \/ (d = 0 /\ k <= hs)) /\ (f.heartbeat => hs = 7)
    BY <1>4, <1>5, <1>7
  <2> HIDE DEF hs, z, ts
  <2>2. d = z /\ k > 5 /\ (f.heartbeat => k > 7)
    BY <2>1
  <2>. QED
    BY <2>2 DEF z
<1>9. Protocol \in f.protocols /\ ~ f.heartbeat /\ local.epoch_time = c
      /\ local.frame_length = f.length
  <2>1. k > 2 /\ k > 3 /\ k > 4 /\ k > 5 /\ (f.heartbeat => k > 6 /\ k > 7)
    BY <1>7, <1>8, <1>2
  <2>. QED
    BY <1>3, <2>1 DEF Known
<1>10. Frame!Wanted(f)
  BY <1>9 DEF Frame!Wanted
<1>11. c \in Whole
  <2>1. DOMAIN frames = 1 .. Len(frames)
    BY TraceFrames DEF ParserInv
  <2>2. ~ (cut /\ c = Len(frames))
    BY <1>2, <1>7
  <2>. QED
    BY <1>2, <1>10, <2>1, <2>2 DEF Whole
<1>12. At(reader', c + 1, 1)
  <2>1. c \in Nat /\ k \in Nat /\ ~ (k < LinesLeft(c))
    BY <1>2, <1>7
  <2>. QED
    BY <1>1, <1>3, <2>1, NextLine
<1>13. local.data_length = Frame!Useful(f) /\ local.data_chunk_count = Frame!Chunks(f)
  BY <1>2, <1>4, <1>8, AllChunks DEF Gathered, Gone, Frame!Chunks
<1>. QED
  BY <1>1, <1>2, <1>9, <1>10, <1>11, <1>12, <1>13

(* A frame that the text ends in is the last one, and is counted with what *)
(* was seen of it.                                                         *)
LEMMA EndedByCut ==
    ASSUME ParserInv, EndFrame, AtEnd(reader)
    PROVE  /\ current_frame \in 1 .. Len(frames) /\ cut /\ current_frame = Len(frames)
           /\ At(reader, current_frame + 1, 1) /\ reader' = reader
           /\ \E time \in Garbage \cup {current_frame},
                 length \in Garbage \cup {frames[current_frame].length},
                 useful \in 0 .. Frame!Useful(frames[current_frame]),
                 chunks \in 0 .. Frame!Chunks(frames[current_frame]) :
                    totals' = Frame!Plus(totals, time, length, useful, chunks)
<1> DEFINE c == current_frame  f == frames[c]
<1>1. /\ reading = "extract" /\ reader' = reader
      /\ totals' = Frame!Plus(totals, local.epoch_time, local.frame_length,
                              local.data_length, local.data_chunk_count)
  BY DEF EndFrame
<1>2. TraceOK /\ ReaderInv /\ LocalInv
  BY DEF ParserInv
<1>3. Len(frames) \in Nat
  BY <1>2, TraceFrames
<1>4. c \in 1 .. Len(frames)
  <2>1. c \in 1 .. Len(frames) + 1 /\ c <= Len(frames)
    BY <1>1, <1>2 DEF ReaderInv
  <2>. QED
    BY <1>3, <2>1
<1>5. cut /\ c = Len(frames) /\ At(reader, c + 1, 1)
  BY <1>1, <1>2, <1>4 DEF ReaderInv, At, AtEnd
<1>6. PICK d \in 0 .. Len(f.data) : Gathered(local, f, d)
  BY <1>1, <1>2 DEF LocalInv
<1>7. local.epoch_time \in Garbage \cup {c} /\ local.frame_length \in Garbage \cup {f.length}
  BY <1>1, <1>2 DEF LocalInv
<1>8. f \in FrameSet
  BY <1>2, <1>4, TextOfFrame
<1>9. local.data_length \in 0 .. Frame!Useful(f)
  BY <1>6, <1>8, AllChunks DEF Gathered, Gone
<1>10. local.data_chunk_count \in 0 .. Frame!Chunks(f)
  <2>1. Len(f.data) \in Nat
    BY <1>8, SizeOfFrame
  <2>. QED
    BY <1>6, <2>1 DEF Gathered, Frame!Chunks
<1>. QED
  BY <1>1, <1>4, <1>5, <1>7, <1>9, <1>10

LEMMA StepEndFrame ==
    ASSUME ParserInv, EndFrame
    PROVE  ParserInv'
<1> DEFINE c == current_frame  f == frames[c]
<1>1. /\ reading = "extract" /\ reading' = "scan" /\ current_frame' = c + 1
      /\ UNCHANGED trace /\ words' = words /\ local' = local /\ row' = row
  BY DEF EndFrame
<1>2. TraceOK /\ ReaderInv /\ WordsInv /\ LocalInv /\ TotalsInv /\ RowInv
  BY DEF ParserInv
<1>3. frames' = frames /\ missing' = missing /\ cut' = cut /\ TraceOK'
      /\ Whole' = Whole /\ Lengths' = Lengths /\ Payloads' = Payloads /\ ChunkCounts' = ChunkCounts
  BY <1>1, <1>2, SameTrace
<1>4. /\ c \in 1 .. Len(frames) /\ Len(frames) \in Nat /\ At(reader', c + 1, 1)
  BY <1>2, EndedByBlank, EndedByCut, TraceFrames
<1>5. f \in FrameSet
  BY <1>2, <1>4, TextOfFrame
<1>6. ReaderInv'
  <2>1. c + 1 \in 1 .. Len(frames) + 1
    BY <1>4
  <2>. QED
    BY <1>1, <1>3, <1>4, <2>1 DEF ReaderInv, At
<1>7. WordsInv' /\ LocalInv'
  BY <1>1, <1>2, <1>4 DEF WordsInv, LocalInv
<1>8. RowInv'
  BY <1>1, <1>2 DEF RowInv
<1>9. /\ totals.packets = Cardinality(Counted)
      /\ totals.data = SumFunctionOnSet(Lengths, Counted)
      /\ totals.useful = SumFunctionOnSet(Payloads, Counted)
      /\ totals.chunks = SumFunctionOnSet(ChunkCounts, Counted)
      /\ FirstAndLast
  <2>1. ~ (c > Len(frames))
    BY <1>4
  <2>. QED
    BY <1>2, <2>1 DEF TotalsInv
<1>10. /\ Whole \subseteq 1 .. Len(frames) /\ IsFiniteSet(Whole)
       /\ Counted \subseteq Whole /\ IsFiniteSet(Counted)
       /\ Cardinality(Whole) \in Nat /\ Cardinality(Counted) \in Nat
       /\ \A n \in Whole : Lengths[n] \in Nat /\ Payloads[n] \in Nat /\ ChunkCounts[n] \in Nat
       /\ Lengths[c] = f.length /\ Payloads[c] = Frame!Useful(f) /\ ChunkCounts[c] = Frame!Chunks(f)
       /\ SumFunctionOnSet(Payloads, Whole) \in Nat
  BY <1>2, <1>4, WholeFrames
<1>11. CASE ~ AtEnd(reader)
  <2>1. /\ c \in Whole
        /\ totals' = Frame!Plus(totals, c, Lengths[c], Payloads[c], ChunkCounts[c])
    BY <1>10, <1>11, EndedByBlank
  <2>2. Counted' = Counted \cup {c} /\ c \notin Counted
    BY <1>1, <1>2, <1>4, <2>1, CountedNext
  <2>3. /\ totals'.packets = totals.packets + 1 /\ totals'.data = totals.data + Lengths[c]
        /\ totals'.useful = totals.useful + Payloads[c]
        /\ totals'.chunks = totals.chunks + ChunkCounts[c]
        /\ totals'.first = (IF totals.first = -1 THEN c ELSE totals.first) /\ totals'.last = c
    BY <2>1 DEF Frame!Plus
  <2> HIDE DEF c
  <2>4. Cardinality(Counted \cup {c}) = Cardinality(Counted) + 1
    BY <1>10, <2>2, FS_AddElement
  <2>5. ASSUME NEW g, g \in {Lengths, Payloads, ChunkCounts}
        PROVE  SumFunctionOnSet(g, Counted \cup {c}) = SumFunctionOnSet(g, Counted) + g[c]
    <3>1. g[c] \in Nat /\ \A n \in Counted : g[n] \in Nat
      BY <1>10, <2>1, <2>5
    <3> DEFINE T == Counted
    <3>a. IsFiniteSet(T) /\ c \notin T /\ g[c] \in Int /\ \A n \in T : g[n] \in Int
      BY <1>10, <2>2, <3>1
    <3> HIDE DEF T
    <3>2. SumFunctionOnSet(g, T \cup {c}) = g[c] + SumFunctionOnSet(g, T)
      BY <3>a, SumInsert
    <3>3. SumFunctionOnSet(g, Counted) \in Nat
      BY <1>10, <3>1, SumNat
    <3> DEFINE p == g[c]  q == SumFunctionOnSet(g, Counted)
    <3> HIDE DEF p, q
    <3>4. p \in Nat /\ q \in Nat /\ p + q = q + p
      BY <3>1, <3>3 DEF p, q
    <3>. QED
      BY <3>2, <3>4 DEF p, q, T
  <2>6. FirstAndLast'
    <3>1. \A n \in Counted : n \in Nat /\ n < c /\ n # -1
      BY <1>10, <1>4 DEF Counted, c
    <3>2. IF Counted = {} THEN totals.first = -1
          ELSE totals.first \in Counted /\ \A n \in Counted : totals.first <= n
      BY <1>9 DEF FirstAndLast
    <3>3. c \in Nat
      BY <1>4
    <3>4. /\ totals'.first \in Counted \cup {c} /\ \A n \in Counted \cup {c} : totals'.first <= n
          /\ \A n \in Counted \cup {c} : n <= c
      BY <2>3, <3>1, <3>2, <3>3
    <3>. QED
      BY <2>2, <2>3, <3>4 DEF FirstAndLast
  <2>7. ~ (cut /\ current_frame > Len(frames))'
    <3>1. ~ (cut /\ c = Len(frames))
      BY <2>1 DEF Whole
    <3>. QED
      BY <1>1, <1>3, <1>4, <3>1 DEF c
  <2>8. /\ totals'.packets = Cardinality(Counted')
        /\ totals'.data = SumFunctionOnSet(Lengths, Counted')
        /\ totals'.useful = SumFunctionOnSet(Payloads, Counted')
        /\ totals'.chunks = SumFunctionOnSet(ChunkCounts, Counted')
    BY <1>9, <2>2, <2>3, <2>4, <2>5
  <2>9. TotalsInv'
    BY <1>3, <2>6, <2>7, <2>8 DEF TotalsInv
  <2>. QED
    BY <1>3, <1>6, <1>7, <1>8, <2>9 DEF ParserInv
<1>12. CASE AtEnd(reader)
  <2>1. cut /\ c = Len(frames)
    BY <1>12, EndedByCut
  <2>2. PICK time \in Garbage \cup {c}, length \in Garbage \cup {f.length},
             u \in 0 .. Frame!Useful(f), chunks \in 0 .. Frame!Chunks(f) :
                totals' = Frame!Plus(totals, time, length, u, chunks)
    BY <1>12, EndedByCut
  <2>3. totals'.packets = totals.packets + 1 /\ totals'.useful = totals.useful + u
    BY <2>2 DEF Frame!Plus
  <2>4. Counted = Whole
    <3>1. c \notin Whole
      BY <2>1 DEF Whole
    <3>. QED
      BY <1>1, <1>2, <1>4, <2>1, <3>1, CountedNext
  <2>5. totals.packets = Cardinality(Whole) /\ totals.useful = Total(Payloads)
        /\ Total(Payloads) \in Nat /\ Frame!Useful(f) \in Nat
    BY <1>5, <1>9, <1>10, <2>4, AllChunks DEF Total
  <2> DEFINE w == Cardinality(Whole)  v == Total(Payloads)  m == Frame!Useful(f)
  <2>6. w \in Nat /\ v \in Nat /\ m \in Nat /\ totals'.packets = w + 1 /\ totals'.useful = v + u
        /\ u \in 0 .. m
    BY <1>10, <2>2, <2>3, <2>5
  <2> HIDE DEF w, v, m
  <2>7. (w + 1) - w \in {0, 1} /\ (v + u) - v \in 0 .. m
    BY <2>6
  <2>8. totals'.packets - Cardinality(Whole) \in {0, 1}
        /\ totals'.useful - Total(Payloads) \in 0 .. Frame!Useful(frames[Len(frames)])
    BY <2>1, <2>6, <2>7 DEF w, v, m
  <2>9. cut' /\ current_frame' > Len(frames')
    BY <1>1, <1>3, <1>4, <2>1
  <2>10. TotalsInv'
    BY <1>3, <2>8, <2>9 DEF TotalsInv, Total, Frame!Useful
  <2>. QED
    BY <1>3, <1>6, <1>7, <1>8, <2>10 DEF ParserInv
<1>. QED
  BY <1>11, <1>12

LEMMA StepInsert ==
    ASSUME ParserInv, InsertTotalData
    PROVE  ParserInv'
<1>1. /\ reading = "scan" /\ AtEnd(reader) /\ reading' = "done" /\ UNCHANGED trace
      /\ reader' = reader /\ current_frame' = current_frame /\ words' = words
      /\ local' = local /\ totals' = totals /\ (row' = row \/ row' = RowOf(totals))
  BY DEF InsertTotalData
<1>2. TraceOK /\ ReaderInv /\ WordsInv /\ LocalInv /\ TotalsInv /\ RowInv
  BY DEF ParserInv
<1>3. frames' = frames /\ missing' = missing /\ cut' = cut /\ TraceOK'
      /\ Whole' = Whole /\ Lengths' = Lengths /\ Payloads' = Payloads /\ ChunkCounts' = ChunkCounts
  BY <1>1, <1>2, SameTrace
<1>4. Len(frames) \in Nat
  BY <1>2, TraceFrames
<1>5. current_frame = Len(frames) + 1
  BY <1>1, <1>2, <1>4 DEF ReaderInv, At, AtEnd
<1>6. ReaderInv'
  BY <1>1, <1>2, <1>3, <1>5 DEF ReaderInv
<1>7. WordsInv' /\ LocalInv'
  BY <1>1, <1>2 DEF WordsInv, LocalInv
<1>8. TotalsInv'
  BY <1>1, <1>2, <1>3 DEF TotalsInv, Counted, FirstAndLast, Total, Frame!Useful
<1>9. RowInv'
  <2>1. row = NoRow /\ NoRow' = NoRow /\ RowOf(totals)' = RowOf(totals')
    BY <1>1, <1>2 DEF RowInv, NoRow, RowOf
  <2>. QED
    BY <1>1, <2>1 DEF RowInv, RowOf, NoRow
<1>. QED
  BY <1>3, <1>6, <1>7, <1>8, <1>9 DEF ParserInv

LEMMA StepNothing ==
    ASSUME ParserInv, UNCHANGED parserVars
    PROVE  ParserInv'
<1>1. /\ UNCHANGED trace /\ reading' = reading /\ reader' = reader
      /\ current_frame' = current_frame /\ words' = words
      /\ local' = local /\ totals' = totals /\ row' = row
  BY DEF parserVars, trace
<1>2. TraceOK /\ ReaderInv /\ WordsInv /\ LocalInv /\ TotalsInv /\ RowInv
  BY DEF ParserInv
<1>3. frames' = frames /\ missing' = missing /\ cut' = cut /\ TraceOK'
      /\ (\A n : LinesLeft(n)' = LinesLeft(n))
      /\ Whole' = Whole /\ Lengths' = Lengths /\ Payloads' = Payloads /\ ChunkCounts' = ChunkCounts
  BY <1>1, <1>2, SameTrace
<1>4. ReaderInv'
  BY <1>1, <1>2, <1>3 DEF ReaderInv, LinesLeft
<1>5. WordsInv' /\ LocalInv'
  BY <1>1, <1>2, <1>3 DEF WordsInv, LocalInv, AtEnd
<1>6. TotalsInv'
  BY <1>1, <1>2, <1>3 DEF TotalsInv, Counted, FirstAndLast, Total, Frame!Useful
<1>7. RowInv'
  BY <1>1, <1>2 DEF RowInv
<1>. QED
  BY <1>3, <1>4, <1>5, <1>6, <1>7 DEF ParserInv

LEMMA InitParserInv == ParserInit => ParserInv
<1> SUFFICES ASSUME ParserInit PROVE ParserInv
  OBVIOUS
<1>1. /\ reader = [frame |-> 1, line |-> 1] /\ reading = "scan" /\ current_frame = 1
      /\ words = Line("other", 0) /\ local = Fresh(0, 0) /\ totals = Frame!NoTotals /\ row = NoRow
  BY DEF ParserInit
<1>2. PICK n \in 0 .. MaxFrames : frames \in [1 .. n -> FrameKinds]
  BY DEF ParserInit
<1>3. n \in Nat /\ Len(frames) = n
  BY <1>2, MaxFramesAssumption
<1>4. TraceOK
  <2>1. CASE missing = 0
    BY <1>2, <1>3, <2>1 DEF TraceOK, cut
  <2>2. CASE frames # << >> /\ missing \in 1 .. (TextSize(frames[Len(frames)]) - 1)
    <3>1. n # 0
      BY <1>2, <2>2
    <3>2. frames[Len(frames)] \in FrameSet
      BY <1>2, <1>3, <3>1, FrameKindsAssumption DEF FrameSet
    <3>3. TextSize(frames[Len(frames)]) \in Nat
      BY <3>2, SizeOfFrame
    <3>4. missing \in Nat /\ missing < TextSize(frames[Len(frames)])
      BY <2>2, <3>3
    <3>. QED
      BY <1>2, <1>3, <2>2, <3>4 DEF TraceOK
  <2>. QED
    BY <2>1, <2>2 DEF ParserInit
<1>5. ReaderInv
  BY <1>1, <1>3 DEF ReaderInv, At
<1>6. WordsInv
  <2>1. \A m : Line("other", 0) # Line("Frame", m)
    <3>1. Line("other", 0).is = "other" /\ \A m : Line("Frame", m).is = "Frame"
      BY LineSays
    <3>. QED
      BY <3>1
  <2>. QED
    BY <1>1, <2>1 DEF WordsInv
<1>7. LocalInv
  BY <1>1 DEF LocalInv, Fresh, Locals
<1>8. TotalsInv
  <2>1. Whole \subseteq 1 .. Len(frames) /\ Len(frames) \in Nat
    BY <1>4, WholeFrames, TraceFrames
  <2>2. Counted = {}
    <3>1. \A i \in Whole : ~ (i < current_frame)
      BY <1>1, <2>1
    <3>. QED
      BY <3>1 DEF Counted
  <2>3. ~ (cut /\ current_frame > Len(frames))
    <3>1. cut => Len(frames) > 0
      BY <1>4, TraceFrames
    <3>. QED
      BY <1>1, <2>1, <3>1
  <2>4. /\ totals.packets = 0 /\ totals.data = 0 /\ totals.useful = 0 /\ totals.chunks = 0
        /\ totals.first = -1 /\ totals.last = -1
    BY <1>1 DEF Frame!NoTotals
  <2>5. Cardinality({}) = 0 /\ \A g : SumFunctionOnSet(g, {}) = 0
    BY FS_EmptySet, SumEmpty
  <2>. QED
    BY <2>2, <2>3, <2>4, <2>5 DEF TotalsInv, FirstAndLast
<1>9. RowInv
  BY <1>1 DEF RowInv
<1>. QED
  BY <1>4, <1>5, <1>6, <1>7, <1>8, <1>9 DEF ParserInv

LEMMA StepParserInv == ParserInv /\ [ParserNext]_parserVars => ParserInv'
BY StepScan, StepExtract, StepGiveUp, StepEndFrame, StepInsert, StepNothing
   DEF ParserNext, ParserStops

(* The functions of the parser never lose their place: the words that are  *)
(* looked at again on a blank line are never those of the frame to come,   *)
(* what is known of a frame is what the lines up to there have said, and   *)
(* the totals are those of the frames that were judged.                    *)
THEOREM ParserInvariant == ParserSpec => []ParserInv
BY InitParserInv, StepParserInv, PTL DEF ParserSpec

(* Of a complete trace the row holds the sums over the frames that should  *)
(* be counted, the time between the first and the last of them, and what   *)
(* is missing of the data that the clients were told to send.              *)
THEOREM RowTellsTheTrace == ParserSpec => []RowIsTrue
<1>1. ParserInv => RowIsTrue
  <2> SUFFICES ASSUME ParserInv, row # NoRow, ~ cut PROVE RowIsTrue!2
    BY DEF RowIsTrue
  <2>1. row = RowOf(totals) /\ current_frame = Len(frames) + 1
    BY DEF ParserInv, RowInv, ReaderInv
  <2>2. Whole \subseteq 1 .. Len(frames) /\ Len(frames) \in Nat
    BY WholeFrames, TraceFrames DEF ParserInv
  <2>3. Counted = Whole
    <3>1. \A n \in Whole : n < current_frame
      BY <2>1, <2>2
    <3>. QED
      BY <3>1 DEF Counted
  <2>4. /\ totals.packets = Cardinality(Whole)
        /\ totals.data = Total(Lengths)
        /\ totals.useful = Total(Payloads)
        /\ totals.chunks = Total(ChunkCounts)
        /\ FirstAndLast
    BY <2>3 DEF ParserInv, TotalsInv, Total
  <2>5. totals.last - totals.first = IF Whole = {} THEN 0 ELSE Max(Whole) - Min(Whole)
    <3>1. CASE Whole = {}
      BY <2>3, <2>4, <3>1 DEF FirstAndLast
    <3>2. CASE Whole # {}
      <4>1. /\ totals.first \in Whole /\ \A n \in Whole : totals.first <= n
            /\ totals.last \in Whole /\ \A n \in Whole : n <= totals.last
        BY <2>3, <2>4, <3>2 DEF FirstAndLast
      <4>2. \A x, y \in Whole : x <= y /\ y <= x => x = y
        BY <2>2
      <4>3. \A x, y \in Whole : x >= y <=> y <= x
        BY <2>2
      <4>4. Max(Whole) = totals.last
        BY <4>1, <4>2, <4>3 DEF Max
      <4>5. Min(Whole) = totals.first
        BY <4>1, <4>2, <4>3 DEF Min
      <4>. QED
        BY <3>2, <4>4, <4>5
    <3>. QED
      BY <3>1, <3>2
  <2>6. /\ row[1].frames = totals.packets /\ row[1].data = totals.data
        /\ row[1].useful = totals.useful /\ row[1].missing = expectedData - totals.useful
        /\ row[1].time = totals.last - totals.first
        /\ row[1].chunks = IF Protocol = "sctp" THEN totals.chunks ELSE -1
    BY <2>1 DEF RowOf
  <2>. QED
    BY <2>4, <2>5, <2>6
<1>. QED
  BY <1>1, ParserInvariant, PTL

(* Of a trace that is cut off the row lacks no frame but the one that the  *)
(* text ends in, and has no more of that one than is in it.                *)
THEOREM CutIsOneFrame == ParserSpec => []CutCostsOneFrame
<1>1. ParserInv => CutCostsOneFrame
  <2> SUFFICES ASSUME ParserInv, row # NoRow, cut PROVE CutCostsOneFrame!2
    BY DEF CutCostsOneFrame
  <2>1. row = RowOf(totals) /\ current_frame = Len(frames) + 1
    BY DEF ParserInv, RowInv, ReaderInv
  <2>2. current_frame > Len(frames)
    <3>1. Len(frames) \in Nat
      BY TraceFrames DEF ParserInv
    <3>. QED
      BY <2>1, <3>1
  <2>3. row[1].frames = totals.packets /\ row[1].useful = totals.useful
    BY <2>1 DEF RowOf
  <2>. QED
    BY <2>2, <2>3 DEF ParserInv, TotalsInv
<1>. QED
  BY <1>1, ParserInvariant, PTL

(* The parser judges every frame once and in the order of the trace, and   *)
(* counts or skips it as a whole: a frame that is given up is a frame to   *)
(* be skipped, a frame that ends is counted with all that it has, and the  *)
(* other steps judge nothing.                                              *)
THEOREM FramesAreCounted == ParserSpec => CountsFrames
<1>1. ParserInit => Frame!Init
  BY DEF ParserInit, Frame!Init
<1>2. ParserInv /\ [ParserNext]_parserVars => [Frame!Next]_(Frame!frameVars)
  <2> SUFFICES ASSUME ParserInv, [ParserNext]_parserVars PROVE [Frame!Next]_(Frame!frameVars)
    OBVIOUS
  <2> DEFINE c == current_frame  f == frames[c]
  <2>1. c \in 1 .. Len(frames) + 1 /\ Len(frames) \in Nat /\ (c - 1) + 1 = c
    <3>1. c \in 1 .. Len(frames) + 1 /\ Len(frames) \in Nat
      BY TraceFrames DEF ParserInv, ReaderInv
    <3>. QED
      BY <3>1
  <2>2. CASE Scan \/ Extract \/ InsertTotalData \/ UNCHANGED parserVars
    <3>1. frames' = frames /\ missing' = missing /\ current_frame' = c /\ totals' = totals
      BY <2>2 DEF Scan, Extract, InsertTotalData, parserVars, trace
    <3>. QED
      BY <3>1 DEF Frame!frameVars, cut
  <2>3. CASE GiveUp
    <3>1. frames' = frames /\ missing' = missing /\ current_frame' = c + 1 /\ totals' = totals
      BY <2>3 DEF GiveUp, trace
    <3>2. c \in 1 .. Len(frames) /\ ~ Frame!Wanted(f)
      BY <2>3, GivenUp
    <3>3. c - 1 < Len(frames) /\ (c + 1) - 1 = (c - 1) + 1
      BY <2>1, <3>2
    <3>4. Frame!Skip
      BY <2>1, <3>1, <3>2 DEF Frame!Skip
    <3>. QED
      BY <3>1, <3>3, <3>4 DEF Frame!Next, cut
  <2>4. CASE EndFrame
    <3>1. frames' = frames /\ missing' = missing /\ current_frame' = c + 1
      BY <2>4 DEF EndFrame, trace
    <3>2. c \in 1 .. Len(frames)
      BY <2>4, EndedByBlank, EndedByCut
    <3>3. c - 1 < Len(frames) /\ (c + 1) - 1 = (c - 1) + 1
      BY <2>1, <3>2
    <3>4. Frame!Count
      <4>1. CASE ~ AtEnd(reader)
        BY <2>1, <2>4, <4>1, EndedByBlank DEF Frame!Count
      <4>2. CASE AtEnd(reader)
        BY <2>1, <2>4, <4>2, EndedByCut DEF Frame!Count, Frame!Damaged
      <4>. QED
        BY <4>1, <4>2
    <3>. QED
      BY <3>1, <3>3, <3>4 DEF Frame!Next, cut
  <2>. QED
    BY <2>2, <2>3, <2>4 DEF ParserNext, ParserStops
<1>. QED
  BY <1>1, <1>2, ParserInvariant, PTL DEF ParserSpec, CountsFrames, Frame!Spec

-----------------------------------------------------------------------------
(* The plots. *)

(* The files that were looked at are in the plot; of a 3D plot the last    *)
(* one.                                                                    *)
FilesShown ==
    /\ next \in 1 .. Len(given) + 1
    /\ action \in Seq(Files)
    /\ IF dimensions = 3
       THEN next > 1 => Len(action) = 1 /\ action[1] = given[next - 1]
       ELSE Len(action) = next - 1 /\ \A k \in 1 .. (next - 1) : action[k] = given[k]

(* The axes have the labels of their columns. *)
AxesNamed ==
    \A a \in 1 .. dimensions : columns[a] \in DOMAIN Parameters
                               /\ labels[a] = Parameters[columns[a]]

PlotInv ==
    /\ given \in Seq(Files) /\ Len(given) \in Nat
    /\ stage = "select" => action = << >> /\ next = 1
    /\ stage = "files" => dimensions # 0 /\ FilesShown /\ AxesNamed
    /\ stage = "drawn" => action = given /\ AxesNamed

LEMMA InitPlotInv == PlotInit => PlotInv
<1>. SUFFICES ASSUME PlotInit PROVE PlotInv
  OBVIOUS
<1>1. given \in Seq(Files)
  <2>1. PICK n \in 0 .. MaxFiles : given \in [1 .. n -> Files]
    BY DEF PlotInit, Lists
  <2>. QED
    BY <2>1
<1>2. Len(given) \in Nat
  BY <1>1, LenProperties
<1>. QED
  BY <1>1, <1>2 DEF PlotInit, PlotInv

LEMMA StepPlotInv == PlotInv /\ [PlotNext]_plotVars => PlotInv'
<1>. SUFFICES ASSUME PlotInv, [PlotNext]_plotVars PROVE PlotInv'
  OBVIOUS
<1>0. given \in Seq(Files) /\ Len(given) \in Nat
  BY DEF PlotInv
<1>1. CASE SelectColumns
  <2>1. /\ stage = "select" /\ given' = given /\ dimensions' = dimensions
        /\ action' = action /\ next' = next
        /\ \/ stage' = "exited"
           \/ /\ dimensions # 0 /\ stage' = "files"
              /\ columns' \in [1 .. dimensions -> DOMAIN Parameters]
              /\ labels' = [a \in 1 .. dimensions |-> Parameters[columns'[a]]]
    BY <1>1 DEF SelectColumns, arguments
  <2>2. CASE stage' = "exited"
    BY <1>0, <2>1, <2>2 DEF PlotInv
  <2>3. CASE stage' = "files"
    <3>1. AxesNamed'
      BY <2>1, <2>3 DEF AxesNamed
    <3>2. action = << >> /\ next = 1 /\ << >> \in Seq(Files) /\ Len(<< >>) = 0
      BY <2>1, EmptySeq DEF PlotInv
    <3>3. FilesShown'
      BY <1>0, <2>1, <3>2 DEF FilesShown
    <3>. QED
      BY <1>0, <2>1, <2>3, <3>1, <3>3 DEF PlotInv
  <2>. QED
    BY <2>1, <2>2, <2>3
<1>2. CASE SetAction
  <2>1. /\ stage = "files" /\ next <= Len(given) /\ given' = given /\ dimensions' = dimensions
        /\ columns' = columns /\ labels' = labels
        /\ \/ stage' = "exited"
           \/ /\ stage' = stage /\ next' = next + 1
              /\ action' = IF dimensions = 3 THEN <<given[next]>> ELSE Append(action, given[next])
    BY <1>2 DEF SetAction, arguments
  <2>2. dimensions # 0 /\ FilesShown /\ AxesNamed
    BY <2>1 DEF PlotInv
  <2>3. CASE stage' = "exited"
    BY <1>0, <2>1, <2>3 DEF PlotInv
  <2>4. CASE stage' = "files"
    <3>1. /\ next \in 1 .. Len(given) /\ next' = next + 1 /\ next' \in 1 .. Len(given) + 1
          /\ next' - 1 = next
      BY <1>0, <2>1, <2>2, <2>4 DEF FilesShown
    <3>2. given[next] \in Files
      BY <1>0, <3>1, ElementOfSeq
    <3>3. FilesShown'
      <4>1. CASE dimensions = 3
        <5>1. action' = <<given[next]>>
          BY <2>1, <2>4, <4>1
        <5>2. action' \in Seq(Files) /\ Len(action') = 1 /\ action'[1] = given[next]
          BY <3>2, <5>1
        <5>. QED
          BY <2>1, <3>1, <4>1, <5>2 DEF FilesShown
      <4>2. CASE dimensions # 3
        <5>1. action \in Seq(Files) /\ Len(action) = next - 1
              /\ \A k \in 1 .. (next - 1) : action[k] = given[k]
          BY <2>2, <4>2 DEF FilesShown
        <5>2. action' = Append(action, given[next])
          BY <2>1, <2>4, <4>2
        <5>3. /\ action' \in Seq(Files) /\ Len(action') = (next - 1) + 1
              /\ \A k \in 1 .. (next - 1) : action'[k] = action[k]
              /\ action'[(next - 1) + 1] = given[next]
          BY <3>2, <5>1, <5>2, AppendProperties
        <5>4. Len(action') = next /\ \A k \in 1 .. next : action'[k] = given[k]
          <6>1. (next - 1) + 1 = next /\ \A k \in 1 .. next : k = next \/ k \in 1 .. (next - 1)
            BY <3>1
          <6>. QED
            BY <5>1, <5>3, <6>1
        <5>. QED
          BY <2>1, <3>1, <4>2, <5>3, <5>4 DEF FilesShown
      <4>. QED
        BY <4>1, <4>2
    <3>4. AxesNamed'
      BY <2>1, <2>2 DEF AxesNamed
    <3>. QED
      BY <1>0, <2>1, <2>2, <2>4, <3>3, <3>4 DEF PlotInv
  <2>. QED
    BY <2>1, <2>3, <2>4
<1>3. CASE Draw
  <2>1. /\ stage = "files" /\ next > Len(given) /\ given' = given /\ dimensions' = dimensions
        /\ action' = action /\ next' = next /\ columns' = columns /\ labels' = labels
        /\ stage' = IF dimensions = 3 /\ Len(given) # 1 THEN "exited" ELSE "drawn"
    BY <1>3 DEF Draw, arguments
  <2>2. FilesShown /\ AxesNamed
    BY <2>1 DEF PlotInv
  <2>3. next = Len(given) + 1 /\ action \in Seq(Files)
    BY <1>0, <2>1, <2>2 DEF FilesShown
  <2>4. CASE dimensions = 3 /\ Len(given) # 1
    BY <1>0, <2>1, <2>4 DEF PlotInv
  <2>5. CASE ~ (dimensions = 3 /\ Len(given) # 1)
    <3>1. Len(action) = Len(given) /\ \A k \in 1 .. Len(action) : action[k] = given[k]
      <4>1. CASE dimensions = 3
        <5>1. Len(given) = 1 /\ next = 2
          <6>1. Len(given) = 1
            BY <2>5, <4>1
          <6>2. next = 1 + 1
            BY <2>3, <6>1
          <6>. QED
            BY <6>1, <6>2
        <5>2. Len(action) = 1 /\ action[1] = given[1]
          BY <2>2, <4>1, <5>1 DEF FilesShown
        <5>. QED
          BY <5>1, <5>2
      <4>2. CASE dimensions # 3
        <5>1. next - 1 = Len(given)
          BY <1>0, <2>3
        <5>. QED
          BY <2>2, <4>2, <5>1 DEF FilesShown
      <4>. QED
        BY <4>1, <4>2
    <3>2. action = given
      BY <1>0, <2>3, <3>1, SeqEqual
    <3>3. AxesNamed'
      BY <2>1, <2>2 DEF AxesNamed
    <3>. QED
      BY <1>0, <2>1, <2>5, <3>2, <3>3 DEF PlotInv
  <2>. QED
    BY <2>4, <2>5
<1>4. CASE UNCHANGED plotVars
  BY <1>4 DEF plotVars, PlotInv, FilesShown, AxesNamed
<1>. QED
  BY <1>1, <1>2, <1>3, <1>4 DEF PlotNext, PlotStops

(* A graph shows the files that were asked for, all of them in a 2D plot   *)
(* and the only one in a 3D plot, and its axes are called what the parser  *)
(* has written into their columns.                                         *)
THEOREM PlotsAreAsked == PlotSpec => []ShowsWhatItSays
<1>1. PlotInv => ShowsWhatItSays
  BY DEF PlotInv, AxesNamed, ShowsWhatItSays, Written, Parameters
<1>. QED
  BY <1>1, InitPlotInv, StepPlotInv, PTL DEF PlotSpec
=============================================================================
