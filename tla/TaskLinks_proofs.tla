--------------------------- MODULE TaskLinks_proofs ---------------------------
(***************************************************************************)
(* Proofs about the tree of task links, for every chain of tasks and every *)
(* choice of those that can be switched off: a combination of tasks that   *)
(* are off has a leaf of its own, and the walk through the tree connects   *)
(* the tasks as Connections says, which is what Microservices uses.        *)
(*                                                                         *)
(* The argument is about what the tree is.  make_task_links makes it in    *)
(* steps, and each step adds one level: Grown(s, k) is the tree of the     *)
(* paths of fewer than k branches.  All its leaves are then equally deep,  *)
(* and the walk leads to the one that is named by the tasks that are on.   *)
(***************************************************************************)
EXTENDS TaskLinks, SequenceTheorems, WellFoundedInduction, TLAPS

-----------------------------------------------------------------------------
(* The tree.                                                               *)

Branch == {"on", "off"}

\* The task of a level, or none below the last one.
Node(s, i) == IF i <= Length(s) THEN Chain[s][i] ELSE NoTask

Paths(s, k) == {p \in Seq(Branch) :
                  Len(p) < k /\ \A i \in 1 .. Len(p) : p[i] \in Branches(Node(s, i))}

\* The tree of k levels.
Grown(s, k) == [p \in Paths(s, k) |-> Node(s, Len(p) + 1)]

\* The number of branches of a leaf.
Depth(s) == IF Chain[s][Length(s)] \in Offloadable THEN Length(s) ELSE Length(s) - 1

Tree(s) == IF Length(s) <= 1 THEN NoLinks ELSE Grown(s, Depth(s) + 1)

LEMMA ChainIs ==
  ASSUME NEW s \in Services
  PROVE  /\ Length(s) \in Nat
         /\ \A i \in 1 .. Length(s) : Chain[s][i] \in TasksOf(s) /\ Chain[s][i] # NoTask
         /\ \A i, j \in 1 .. Length(s) : Chain[s][i] = Chain[s][j] => i = j
<1>1. Chain[s] \in Seq(Tasks)
  BY ChainAssumption
<1>2. \A i \in 1 .. Length(s) : Chain[s][i] \in TasksOf(s) /\ Chain[s][i] \in Tasks
  BY <1>1 DEF TasksOf, Length
<1> QED
  BY <1>1, <1>2, ChainAssumption DEF Length

\* Every link can be left on, and with a word of two only.
LEMMA BranchesAre == \A t : "on" \in Branches(t) /\ Branches(t) \subseteq Branch
BY DEF Branches, Branch

\* A path with one more branch.
LEMMA Longer ==
  ASSUME NEW p \in Seq(Branch), NEW b \in Branch
  PROVE  /\ Append(p, b) \in Seq(Branch)
         /\ Len(Append(p, b)) = Len(p) + 1
         /\ Append(p, b)[Len(p) + 1] = b
         /\ \A i \in 1 .. Len(p) : Append(p, b)[i] = p[i]
OBVIOUS

\* A path that is not empty is one with one branch less, and a branch.
LEMMA Shorter ==
  ASSUME NEW p \in Seq(Branch), Len(p) > 0
  PROVE  \E q \in Seq(Branch), b \in Branch : p = Append(q, b)
<1> DEFINE n == Len(p) - 1
           q == SubSeq(p, 1, n)
           b == p[Len(p)]
<1>1. Len(p) \in Nat /\ n \in Nat /\ n \in Int /\ 1 \in Int
  OBVIOUS
<1>2. \A i \in 1 .. n : p[i] \in Branch
  BY <1>1
<1>3. q \in Seq(Branch) /\ Len(q) = n /\ \A i \in 1 .. n : q[i] = p[i]
  <2>1. /\ q \in Seq(Branch)
        /\ Len(q) = IF 1 <= n THEN n - 1 + 1 ELSE 0
        /\ \A i \in 1 .. n - 1 + 1 : q[i] = p[1 + i - 1]
    <3> HIDE DEF n
    <3> QED
      BY <1>1, <1>2, SubSeqProperties
  <2> HIDE DEF q, n
  <2>2. n - 1 + 1 = n /\ (~(1 <= n) => n = 0)
    BY <1>1
  <2> QED
    BY <2>1, <2>2
<1>4. b \in Branch
  BY <1>1
<1> HIDE DEF q, b
<1>5. /\ Append(q, b) \in Seq(Branch) /\ Len(Append(q, b)) = n + 1
      /\ Append(q, b)[n + 1] = b /\ \A i \in 1 .. n : Append(q, b)[i] = q[i]
  BY <1>3, <1>4, Longer
<1>6. \A i \in 1 .. Len(p) : p[i] = Append(q, b)[i]
  BY <1>1, <1>3, <1>5 DEF b
<1>7. p = Append(q, b)
  BY <1>1, <1>5, <1>6, SeqEqual
<1> QED
  BY <1>3, <1>4, <1>7

\* The paths of one branch more.
LEMMA PathsGrow ==
  ASSUME NEW s, NEW k \in Nat, NEW p \in Seq(Branch), NEW b \in Branch
  PROVE  Append(p, b) \in Paths(s, k)
           <=> /\ p \in Paths(s, k)
               /\ Len(p) + 1 < k
               /\ b \in Branches(Node(s, Len(p) + 1))
<1> DEFINE q == Append(p, b)
<1>1. /\ Len(p) \in Nat /\ q \in Seq(Branch) /\ Len(q) = Len(p) + 1 /\ q[Len(p) + 1] = b
      /\ \A i \in 1 .. Len(p) : q[i] = p[i]
  BY Longer
<1> HIDE DEF q
<1>2. (\A i \in 1 .. Len(q) : q[i] \in Branches(Node(s, i)))
        <=> /\ \A i \in 1 .. Len(p) : p[i] \in Branches(Node(s, i))
            /\ b \in Branches(Node(s, Len(p) + 1))
  BY <1>1
<1>3. Len(q) < k <=> Len(p) + 1 < k
  BY <1>1
<1>4. Len(p) + 1 < k => Len(p) < k
  BY <1>1
<1>5. q \in Paths(s, k) <=> /\ Len(q) < k
                            /\ \A i \in 1 .. Len(q) : q[i] \in Branches(Node(s, i))
  BY <1>1 DEF Paths
<1>6. p \in Paths(s, k) <=> /\ Len(p) < k
                            /\ \A i \in 1 .. Len(p) : p[i] \in Branches(Node(s, i))
  BY DEF Paths
<1> QED
  BY <1>2, <1>3, <1>4, <1>5, <1>6 DEF q

\* Fewer branches are allowed of fewer than k, and those of exactly k - 1 are
\* the leaves to be.
LEMMA PathsAre ==
  ASSUME NEW s, NEW k \in Nat
  PROVE  /\ \A p \in Paths(s, k) : p \in Seq(Branch) /\ Len(p) \in Nat /\ Len(p) < k
         /\ \A p \in Seq(Branch) : p \in Paths(s, k + 1) <=>
                p \in Paths(s, k) \/ (Len(p) = k /\ p \in Paths(s, k + 1))
         /\ Paths(s, k) \subseteq Paths(s, k + 1)
BY DEF Paths

\* There is one path without branches.
LEMMA FirstPath ==
  ASSUME NEW s
  PROVE  Paths(s, 1) = {<<>>}
<1>1. <<>> \in Paths(s, 1)
  BY DEF Paths
<1>2. ASSUME NEW p \in Paths(s, 1) PROVE p = <<>>
  <2>1. p \in Seq(Branch) /\ Len(p) = 0
    BY DEF Paths
  <2> QED
    BY <2>1, EmptySeq
<1> QED
  BY <1>1, <1>2

\* _add_task_link makes one more level of the tree.
LEMMA GrowsByOneLevel ==
  ASSUME NEW s \in Services, Length(s) > 1, NEW k \in 1 .. Length(s)
  PROVE  AddTaskLink(IF k = 1 THEN NoLinks ELSE Grown(s, k), Chain[s][k], Node(s, k + 1))
           = Grown(s, k + 1)
<1> DEFINE tree  == IF k = 1 THEN NoLinks ELSE Grown(s, k)
           start == Chain[s][k]
           dest  == Node(s, k + 1)
           grown == IF tree = NoLinks THEN [p \in {<<>>} |-> start] ELSE tree
           new   == {Append(p, b) : p \in LinksOf(grown, start), b \in Branches(start)}
<1>1. Length(s) \in Nat /\ k \in Nat /\ Node(s, k) = start /\ k >= 1
  BY ChainIs DEF Node
<1>2. grown = Grown(s, k)
  <2>1. DOMAIN NoLinks = {}
    BY DEF NoLinks
  <2>2. CASE k = 1
    <3>1. grown = [p \in {<<>>} |-> start]
      BY <2>2
    <3>2. \A p \in {<<>>} : Node(s, Len(p) + 1) = start
      BY <1>1, <2>2
    <3>3. Grown(s, 1) = [p \in {<<>>} |-> Node(s, Len(p) + 1)]
      BY FirstPath DEF Grown
    <3> HIDE DEF grown, start
    <3> QED
      BY <2>2, <3>1, <3>2, <3>3
  <2>3. CASE k # 1
    <3>1. <<>> \in Paths(s, k)
      BY <1>1 DEF Paths
    <3>2. DOMAIN Grown(s, k) = Paths(s, k)
      BY DEF Grown
    <3>3. Grown(s, k) # NoLinks
      BY <2>1, <3>1, <3>2
    <3> QED
      BY <2>3, <3>3
  <2> QED
    BY <2>2, <2>3
<1>3. \A p : p \in LinksOf(grown, start) <=> p \in Paths(s, k) /\ Len(p) + 1 = k
  <2>1. \A p \in Paths(s, k) : Len(p) + 1 \in 1 .. k /\ Grown(s, k)[p] = Node(s, Len(p) + 1)
    BY <1>1, PathsAre DEF Grown
  <2>2. \A i \in 1 .. k : Node(s, i) = start <=> i = k
    BY <1>1, ChainIs DEF Node
  <2>3. LinksOf(grown, start) = {p \in Paths(s, k) : Grown(s, k)[p] = start}
    BY <1>2 DEF LinksOf, Grown
  <2> HIDE DEF grown, start
  <2> QED
    BY <2>1, <2>2, <2>3
<1>4. \A p : p \in new <=> p \in Paths(s, k + 1) /\ Len(p) = k
  <2>1. ASSUME NEW p \in new PROVE p \in Paths(s, k + 1) /\ Len(p) = k
    <3>1. PICK q \in LinksOf(grown, start), b \in Branches(start) : p = Append(q, b)
      OBVIOUS
    <3>2. q \in Paths(s, k) /\ q \in Seq(Branch) /\ Len(q) + 1 = k /\ b \in Branch
      BY <1>1, <1>3, PathsAre, BranchesAre
    <3>3. q \in Paths(s, k + 1) /\ k + 1 \in Nat /\ k < k + 1
      BY <1>1, <3>2, PathsAre
    <3> HIDE DEF grown, start
    <3>4. Append(q, b) \in Paths(s, k + 1)
      BY <1>1, <3>1, <3>2, <3>3, PathsGrow
    <3> QED
      BY <3>1, <3>2, <3>4, Longer
  <2>2. ASSUME NEW p \in Paths(s, k + 1), Len(p) = k PROVE p \in new
    <3>1. p \in Seq(Branch) /\ Len(p) > 0 /\ k + 1 \in Nat
      BY <1>1, <2>2, PathsAre
    <3>2. PICK q \in Seq(Branch), b \in Branch : p = Append(q, b)
      BY <3>1, Shorter
    <3>3. Len(q) \in Nat /\ Len(q) + 1 = k
      BY <2>2, <3>2, Longer
    <3> HIDE DEF grown, start
    <3>4. q \in Paths(s, k + 1) /\ b \in Branches(start)
      BY <1>1, <3>1, <3>2, <3>3, PathsGrow
    <3>5. q \in Paths(s, k)
      BY <1>1, <3>3, <3>4, PathsAre
    <3> QED
      BY <1>3, <3>2, <3>3, <3>4, <3>5
  <2> QED
    BY <2>1, <2>2
<1>5. AddTaskLink(tree, start, dest) =
        [p \in DOMAIN grown \cup new |-> IF p \in new THEN dest ELSE grown[p]]
  BY DEF AddTaskLink
<1>6. DOMAIN grown = Paths(s, k) /\ \A p \in Paths(s, k) : grown[p] = Node(s, Len(p) + 1)
  BY <1>2 DEF Grown
<1> HIDE DEF tree, start, dest, grown, new
<1>7. Paths(s, k) \cup new = Paths(s, k + 1)
  <2>1. \A p \in Paths(s, k + 1) : p \in Seq(Branch)
    BY DEF Paths
  <2> QED
    BY <1>1, <1>4, <2>1, PathsAre
<1>8. \A p \in Paths(s, k + 1) : (IF p \in new THEN dest ELSE grown[p]) = Node(s, Len(p) + 1)
  BY <1>4, <1>6, <1>7 DEF dest
<1>9. AddTaskLink(tree, start, dest) = [p \in Paths(s, k + 1) |-> Node(s, Len(p) + 1)]
  BY <1>5, <1>6, <1>7, <1>8
<1> QED
  BY <1>9 DEF Grown, tree, start, dest
\* The smallest of some numbers.
LEMMA Least ==
  ASSUME NEW S \in SUBSET Nat, S # {}
  PROVE  \E i \in S : \A j \in S : i <= j
<1> DEFINE R == OpToRel(<, Nat)
<1>1. IsWellFoundedOn(R, Nat)
  BY NatLessThanWellFounded
<1>2. \A i, j \in Nat : i < j => <<i, j>> \in R
  BY Zenon DEF OpToRel
<1> HIDE DEF R
<1>3. PICK i \in S : \A j \in S : ~(<<j, i>> \in R)
  BY <1>1, WFMin, Zenon
<1>4. \A j \in S : ~(j < i)
  BY <1>2, <1>3
<1> QED
  BY <1>4

\* make_task_links makes the tree.
LEMMA LinkTreeIs ==
  ASSUME NEW s \in Services
  PROVE  LinkTree(s, NoLinks) = Tree(s)
<1> DEFINE n == Length(s)
           last == Chain[s][n]
           one(f, i) == IF i = 1 THEN NoLinks ELSE AddTaskLink(f[i - 1], Chain[s][i - 1], Chain[s][i])
           upTo == CHOOSE f : f = [i \in 1 .. n |-> one(f, i)]
           grown == [i \in 1 .. n |-> IF i = 1 THEN NoLinks ELSE Grown(s, i)]
<1>1. n \in Nat
  BY ChainIs
<1>2. CASE n <= 1
  BY <1>2, Zenon DEF LinkTree, Tree
<1>3. CASE n > 1
  <2>1. ASSUME NEW i \in 1 .. n, i # 1
        PROVE  /\ i - 1 \in 1 .. n
               /\ AddTaskLink(grown[i - 1], Chain[s][i - 1], Chain[s][i]) = grown[i]
    <3>1. i - 1 \in 1 .. n /\ (i - 1) + 1 = i /\ Node(s, i) = Chain[s][i]
      BY <1>1, <2>1 DEF Node
    <3>2. AddTaskLink(IF i - 1 = 1 THEN NoLinks ELSE Grown(s, i - 1), Chain[s][i - 1], Node(s, (i - 1) + 1))
            = Grown(s, (i - 1) + 1)
      BY <1>3, <3>1, GrowsByOneLevel
    <3> QED
      BY <2>1, <3>1, <3>2
  <2>2. grown = [i \in 1 .. n |-> one(grown, i)]
    <3>1. \A i \in 1 .. n : grown[i] = one(grown, i)
      BY <2>1
    <3>2. DOMAIN grown = 1 .. n /\ grown = [i \in 1 .. n |-> grown[i]]
      OBVIOUS
    <3> HIDE DEF grown, one
    <3> QED
      BY <3>1, <3>2
  <2>3. upTo = [i \in 1 .. n |-> one(upTo, i)]
    <3> HIDE DEF grown, one
    <3> QED
      BY <2>2, Zenon
  <2>4. \A i \in 1 .. n : upTo[i] = one(upTo, i)
    <3> HIDE DEF upTo, one
    <3> QED
      BY <2>3
  <2> HIDE DEF upTo, grown
  <2>5. \A i \in 1 .. n : upTo[i] = grown[i]
    <3> DEFINE wrong == {i \in 1 .. n : upTo[i] # grown[i]}
    <3> SUFFICES ASSUME wrong # {} PROVE FALSE
      OBVIOUS
    <3>1. wrong \in SUBSET Nat
      BY <1>1
    <3>2. PICK i \in wrong : \A j \in wrong : i <= j
      BY <3>1, Least
    <3>3. CASE i = 1
      BY <1>3, <2>4, <3>3 DEF grown
    <3>4. CASE i # 1
      <4>1. i - 1 \in 1 .. n /\ i - 1 \notin wrong
        BY <1>1, <3>2, <3>4
      <4>2. upTo[i - 1] = grown[i - 1]
        BY <4>1
      <4> QED
        BY <2>1, <2>4, <3>4, <4>2
    <3> QED
      BY <3>3, <3>4
  <2>6. upTo[n] = Grown(s, n)
    BY <1>1, <1>3, <2>5 DEF grown
  <2>7. LinkTree(s, NoLinks) = IF last \in Offloadable
                               THEN AddTaskLink(upTo[n], last, NoTask) ELSE upTo[n]
    <3>1. ~(n <= 1)
      BY <1>1, <1>3
    <3> QED
      BY <3>1, Zenon DEF LinkTree, upTo
  <2>8. AddTaskLink(Grown(s, n), last, NoTask) = Grown(s, n + 1)
    <3>1. n \in 1 .. n /\ n # 1 /\ Node(s, n + 1) = NoTask
      BY <1>1, <1>3 DEF Node
    <3> QED
      BY <1>3, <3>1, GrowsByOneLevel
  <2> QED
    BY <1>1, <1>3, <2>6, <2>7, <2>8 DEF Tree, Depth
<1> QED
  BY <1>1, <1>2, <1>3
-----------------------------------------------------------------------------
(* The walk.                                                               *)

\* The path of the tasks that are on.
Way(s, on) == [i \in 1 .. Depth(s) |-> IF Chain[s][i] \in on THEN "on" ELSE "off"]

\* A task that is not on, and has branches, has one for off.
Passable(s, on) == \A i \in 1 .. Depth(s) : Chain[s][i] \in on \/ Chain[s][i] \in Offloadable

LEMMA DepthIs ==
  ASSUME NEW s \in Services, Length(s) > 1
  PROVE  /\ Depth(s) \in Nat /\ Depth(s) >= 1 /\ Depth(s) <= Length(s)
         /\ Depth(s) >= Length(s) - 1
         /\ \A i \in 1 .. Depth(s) : Node(s, i) = Chain[s][i] /\ i \in 1 .. Length(s)
BY ChainIs DEF Depth, Node

LEMMA WayIs ==
  ASSUME NEW s \in Services, Length(s) > 1, NEW on
  PROVE  /\ Way(s, on) \in Seq(Branch) /\ Len(Way(s, on)) = Depth(s)
         /\ \A i \in 1 .. Depth(s) : Way(s, on)[i] = IF Chain[s][i] \in on THEN "on" ELSE "off"
         /\ Passable(s, on) => Way(s, on) \in Paths(s, Depth(s) + 1)
<1>1. Depth(s) \in Nat
  BY DepthIs
<1>2. Way(s, on) \in Seq(Branch) /\ Len(Way(s, on)) = Depth(s)
  BY <1>1 DEF Way, Branch
<1>3. \A i \in 1 .. Depth(s) : Way(s, on)[i] = IF Chain[s][i] \in on THEN "on" ELSE "off"
  BY DEF Way
<1>4. ASSUME Passable(s, on) PROVE Way(s, on) \in Paths(s, Depth(s) + 1)
  <2>1. \A i \in 1 .. Depth(s) : Way(s, on)[i] \in Branches(Node(s, i))
    BY <1>3, <1>4, DepthIs DEF Passable, Branches
  <2> QED
    BY <1>1, <1>2, <2>1 DEF Paths
<1> QED
  BY <1>2, <1>3, <1>4

\* The leaves of the tree are the paths through all its levels.
LEMMA LeavesAre ==
  ASSUME NEW s \in Services, Length(s) > 1, NEW p \in Paths(s, Depth(s) + 1)
  PROVE  IsLeaf(Tree(s), p) <=> Len(p) = Depth(s)
<1> DEFINE k == Depth(s) + 1
<1>1. Depth(s) \in Nat /\ k \in Nat /\ p \in Seq(Branch) /\ Len(p) \in Nat /\ Len(p) < k
  BY DepthIs, PathsAre
<1>2. DOMAIN Tree(s) = Paths(s, k)
  BY ChainIs DEF Tree, Grown
<1>3. \A b \in Branch : Append(p, b) \in DOMAIN Tree(s) <=>
                           Len(p) + 1 < k /\ b \in Branches(Node(s, Len(p) + 1))
  BY <1>1, <1>2, PathsGrow
<1>4. "on" \in Branches(Node(s, Len(p) + 1)) /\ Branch = {"on", "off"}
  BY BranchesAre DEF Branch
<1>5. IsLeaf(Tree(s), p) <=> ~(Len(p) + 1 < k)
  BY <1>3, <1>4 DEF IsLeaf
<1> QED
  BY <1>1, <1>5

\* The walk leads to the leaf that is named by the tasks that are on, or out of
\* the tree.
LEMMA LastLinkIs ==
  ASSUME NEW s \in Services, Length(s) > 1, NEW on
  PROVE  LastLink(Tree(s), on) = IF Passable(s, on) THEN {Way(s, on)} ELSE {}
<1> DEFINE d == Depth(s)
           leaves == {p \in Paths(s, d + 1) : Len(p) = d}
<1>1. d \in Nat /\ d + 1 \in Nat
  BY DepthIs
<1>2. DOMAIN Tree(s) = Paths(s, d + 1)
      /\ \A p \in Paths(s, d + 1) : Tree(s)[p] = Node(s, Len(p) + 1)
  BY ChainIs DEF Tree, Grown
<1>3. ASSUME NEW p \in leaves, NEW i \in 1 .. d
      PROVE  Tree(s)[SubSeq(p, 1, i - 1)] = Chain[s][i] /\ p[i] \in Branches(Chain[s][i])
  <2> DEFINE m == i - 1
             q == SubSeq(p, 1, m)
  <2>1. p \in Seq(Branch) /\ Len(p) = d /\ \A j \in 1 .. d : p[j] \in Branches(Node(s, j))
    BY DEF Paths
  <2>2. m \in Nat /\ m \in Int /\ 1 \in Int /\ m < d /\ m + 1 = i /\ \A j \in 1 .. m : j \in 1 .. d
    BY <1>1
  <2>3. \A j \in 1 .. m : p[j] \in Branch
    BY <2>1, <2>2
  <2> HIDE DEF m
  <2>4. /\ q \in Seq(Branch)
        /\ Len(q) = IF 1 <= m THEN m - 1 + 1 ELSE 0
        /\ \A j \in 1 .. m - 1 + 1 : q[j] = p[1 + j - 1]
    BY <2>2, <2>3, SubSeqProperties
  <2>5. m - 1 + 1 = m /\ (~(1 <= m) => m = 0) /\ \A j \in 1 .. m : 1 + j - 1 = j
    BY <2>2
  <2> HIDE DEF q
  <2>6. Len(q) = m /\ \A j \in 1 .. m : q[j] = p[j]
    BY <2>2, <2>4, <2>5
  <2>7. q \in Paths(s, d + 1)
    BY <1>1, <2>1, <2>2, <2>4, <2>6 DEF Paths
  <2>8. Node(s, i) = Chain[s][i]
    BY DepthIs
  <2>9. Tree(s)[q] = Chain[s][i]
    BY <1>2, <2>2, <2>6, <2>7, <2>8
  <2> QED
    BY <2>1, <2>8, <2>9 DEF q, m
<1>4. ASSUME NEW p \in Paths(s, d + 1)
      PROVE  p \in LastLink(Tree(s), on) <=> p = Way(s, on)
  <2>1. p \in Seq(Branch) /\ Len(p) \in Nat
    BY <1>1, PathsAre
  <2>2. p \in LastLink(Tree(s), on) <=>
          /\ Len(p) = d
          /\ \A i \in 1 .. Len(p) : p[i] = IF Tree(s)[SubSeq(p, 1, i - 1)] \in on THEN "on" ELSE "off"
    BY <1>2, LeavesAre DEF LastLink
  <2>3. ASSUME Len(p) = d
        PROVE  p \in LastLink(Tree(s), on) <=>
                 \A i \in 1 .. d : p[i] = IF Chain[s][i] \in on THEN "on" ELSE "off"
    BY <1>3, <2>2, <2>3
  <2>4. Way(s, on) \in Seq(Branch) /\ Len(Way(s, on)) = d
        /\ \A i \in 1 .. d : Way(s, on)[i] = IF Chain[s][i] \in on THEN "on" ELSE "off"
    BY WayIs
  <2>5. CASE Len(p) # d
    BY <2>2, <2>4, <2>5
  <2>6. CASE Len(p) = d
    <3>1. p = Way(s, on) <=> \A i \in 1 .. d : p[i] = Way(s, on)[i]
      BY <2>1, <2>4, <2>6, SeqEqual
    <3> QED
      BY <2>3, <2>4, <2>6, <3>1
  <2> QED
    BY <2>5, <2>6
<1>5. LastLink(Tree(s), on) \subseteq Paths(s, d + 1)
  BY <1>2 DEF LastLink
<1>6. CASE Passable(s, on)
  <2>1. Way(s, on) \in Paths(s, d + 1)
    BY <1>6, WayIs
  <2> QED
    BY <1>4, <1>5, <1>6, <2>1
<1>7. CASE ~Passable(s, on)
  <2>1. PICK i \in 1 .. d : Chain[s][i] \notin on /\ Chain[s][i] \notin Offloadable
    BY <1>7 DEF Passable
  <2>2. Way(s, on) \notin Paths(s, d + 1)
    <3> SUFFICES ASSUME Way(s, on) \in Paths(s, d + 1) PROVE FALSE
      OBVIOUS
    <3>1. Way(s, on) \in leaves
      BY WayIs
    <3>2. Way(s, on)[i] \in Branches(Chain[s][i])
      BY <1>3, <3>1
    <3>3. Way(s, on)[i] = "off"
      BY <2>1, WayIs
    <3> QED
      BY <2>1, <3>2, <3>3 DEF Branches
  <2> QED
    BY <1>4, <1>5, <1>7, <2>2
<1> QED
  BY <1>6, <1>7
-----------------------------------------------------------------------------
(* The combinations of tasks that are off.                                 *)

LEMMA OnTasksAre ==
  ASSUME service \in Services, Length(service) > 1, NEW out \in Combinations
  PROVE  /\ Passable(service, OnTasks(out))
         /\ \A i \in 1 .. Length(service) :
              Chain[service][i] \in OnTasks(out) <=> Chain[service][i] \notin out
<1>1. \A i \in 1 .. Length(service) : Chain[service][i] \in TasksOf(service)
  BY ChainIs
<1> QED
  BY <1>1, DepthIs DEF OnTasks, Passable, Combinations

\* Other tasks that are off, another way.
LEMMA WaysDiffer ==
  ASSUME service \in Services, Length(service) > 1,
         NEW out \in Combinations, NEW other \in Combinations, out # other
  PROVE  Way(service, OnTasks(out)) # Way(service, OnTasks(other))
<1>1. PICK t \in TasksOf(service) \cap Offloadable : (t \in out) # (t \in other)
  BY DEF Combinations
<1>2. PICK i \in 1 .. Length(service) : Chain[service][i] = t
  BY DEF TasksOf
<1>3. i \in 1 .. Depth(service)
  <2>1. Length(service) \in Nat
    BY ChainIs
  <2> QED
    BY <1>1, <1>2, <2>1 DEF Depth
<1>4. Way(service, OnTasks(out))[i] = (IF t \in out THEN "off" ELSE "on")
  BY <1>2, <1>3, WayIs, OnTasksAre
<1>5. Way(service, OnTasks(other))[i] = (IF t \in other THEN "off" ELSE "on")
  BY <1>2, <1>3, WayIs, OnTasksAre
<1> QED
  BY <1>1, <1>4, <1>5

-----------------------------------------------------------------------------
(* The inductive invariant.                                                *)

TreeMade ==
  /\ service \in Services
  /\ stage \in {"tasks", "links", "run"}
  /\ ts = [t \in TasksOf(service) |-> ts[t]]
  /\ stage = "tasks" => links = NoLinks /\ hung = {}
  /\ stage # "tasks" => links = Tree(service) /\ DOMAIN lines = DOMAIN links
  /\ hung \subseteq Combinations
  /\ stage = "run" => hung = Combinations

\* The connections of a combination are where the walk goes when the tasks
\* that it does not have are on.
LinesHung ==
  stage # "tasks" /\ Length(service) > 1 =>
    \A out \in hung : lines[Way(service, OnTasks(out))] = Lines(out)

IInv == TreeMade /\ LinesHung

LEMMA WayInTree ==
  ASSUME service \in Services, Length(service) > 1, NEW out \in Combinations
  PROVE  /\ Way(service, OnTasks(out)) \in DOMAIN Tree(service)
         /\ LastLink(Tree(service), OnTasks(out)) = {Way(service, OnTasks(out))}
<1>1. Passable(service, OnTasks(out))
  BY OnTasksAre
<1>2. LastLink(Tree(service), OnTasks(out)) = {Way(service, OnTasks(out))}
  BY <1>1, LastLinkIs
<1> QED
  BY <1>2 DEF LastLink

LEMMA LinksInit == Init => IInv
<1> SUFFICES ASSUME Init PROVE IInv
  OBVIOUS
<1>1. ts = [t \in TasksOf(service) |-> ts[t]]
  BY DEF Init, NewTasks
<1> QED
  BY <1>1 DEF Init, IInv, TreeMade, LinesHung

LEMMA HangKeeps ==
  ASSUME IInv, NEW out \in Combinations, SetConnectLink(out)
  PROVE  IInv'
<1>1. /\ stage = "links" /\ out \notin hung /\ hung' = hung \cup {out}
      /\ UNCHANGED <<service, stage, links, ts>>
  BY DEF SetConnectLink
<1>2. lines' = [p \in DOMAIN lines |->
                  IF p \in LastLink(links, OnTasks(out)) THEN Lines(out) ELSE lines[p]]
  BY DEF SetConnectLink
<1>3. Combinations' = Combinations /\ (\A o : OnTasks(o)' = OnTasks(o) /\ Lines(o)' = Lines(o))
  BY <1>1 DEF Combinations, OnTasks, Lines
<1>4. /\ service \in Services /\ links = Tree(service) /\ DOMAIN lines = DOMAIN links
      /\ hung \subseteq Combinations
  BY <1>1 DEF IInv, TreeMade
<1>5. TreeMade'
  <2>1. hung' \subseteq Combinations'
    BY <1>1, <1>3, <1>4
  <2>2. DOMAIN lines' = DOMAIN lines
    BY <1>2
  <2>3. ts' = [t \in TasksOf(service') |-> ts'[t]]
    BY <1>1 DEF IInv, TreeMade
  <2> QED
    BY <1>1, <1>4, <2>1, <2>2, <2>3 DEF TreeMade
<1>6. ASSUME Length(service) > 1, NEW o \in hung \cup {out}
      PROVE  lines'[Way(service, OnTasks(o))] = Lines(o)
  <2>1. o \in Combinations
    BY <1>4
  <2>2. Way(service, OnTasks(o)) \in DOMAIN lines
    BY <1>4, <1>6, <2>1, WayInTree
  <2>3. LastLink(links, OnTasks(out)) = {Way(service, OnTasks(out))}
    BY <1>4, <1>6, WayInTree
  <2>4. CASE o = out
    BY <1>2, <2>2, <2>3, <2>4
  <2>5. CASE o # out
    <3>1. Way(service, OnTasks(o)) # Way(service, OnTasks(out))
      BY <1>4, <1>6, <2>1, <2>5, WaysDiffer
    <3>2. lines[Way(service, OnTasks(o))] = Lines(o)
      BY <1>1, <1>6, <2>5 DEF IInv, LinesHung
    <3> QED
      BY <1>2, <2>2, <2>3, <3>1, <3>2
  <2> QED
    BY <2>4, <2>5
<1>7. LinesHung'
  BY <1>1, <1>3, <1>6 DEF LinesHung, Length
<1> QED
  BY <1>5, <1>7 DEF IInv

\* What keeps the tree and its connections.
LEMMA SameTree ==
  ASSUME IInv, UNCHANGED <<service, links, lines, hung>>,
         ts' = [t \in TasksOf(service) |-> ts'[t]],
         \/ stage' = stage
         \/ stage = "links" /\ stage' = "run" /\ hung = Combinations
  PROVE  IInv'
<1>1. Combinations' = Combinations /\ (\A o : OnTasks(o)' = OnTasks(o) /\ Lines(o)' = Lines(o))
  BY DEF Combinations, OnTasks, Lines
<1>2. TreeMade'
  BY <1>1 DEF IInv, TreeMade
<1>3. LinesHung'
  BY <1>1 DEF IInv, LinesHung
<1> QED
  BY <1>2, <1>3 DEF IInv

LEMMA LinksNext == IInv /\ [Next]_vars => IInv'
<1> SUFFICES ASSUME IInv, [Next]_vars PROVE IInv'
  OBVIOUS
<1>0. ts = [t \in TasksOf(service) |-> ts[t]] /\ DOMAIN ts = TasksOf(service) /\ service \in Services
  <2>1. ts = [t \in TasksOf(service) |-> ts[t]]
    BY DEF IInv, TreeMade
  <2> QED
    BY <2>1 DEF IInv, TreeMade
<1>r. \A td : DOMAIN td = TasksOf(service) =>
                Rewired(td) = [t \in TasksOf(service) |-> Rewired(td)[t]]
  BY DEF Rewired
<1>1. CASE MakeTaskLinks
  <2>1. links' = LinkTree(service, NoLinks)
    BY <1>1 DEF MakeTaskLinks, IInv, TreeMade
  <2>2. links' = Tree(service) /\ DOMAIN lines' = DOMAIN links'
    BY <1>0, <1>1, <2>1, LinkTreeIs DEF MakeTaskLinks
  <2>3. hung' = {} /\ stage' = "links" /\ UNCHANGED <<service, ts>>
    BY <1>1 DEF MakeTaskLinks, IInv, TreeMade
  <2> QED
    BY <1>0, <2>2, <2>3 DEF IInv, TreeMade, LinesHung
<1>2. ASSUME NEW out \in Combinations, SetConnectLink(out) PROVE IInv'
  BY <1>2, HangKeeps
<1>3. ASSUME NEW on \in SUBSET TasksOf(service), Run(on) PROVE IInv'
  <2>1. ts' = [t \in TasksOf(service) |-> ts'[t]]
    BY <1>3, <1>r DEF Run
  <2> QED
    BY <1>3, <2>1, SameTree DEF Run
<1>4. ASSUME NEW t \in TasksOf(service), End(t) \/ Off(t) \/ On(t) PROVE IInv'
  <2>1. ts' = [u \in TasksOf(service) |-> ts'[u]]
    <3>1. CASE End(t)
      BY <1>0, <3>1 DEF End
    <3>2. CASE Off(t)
      BY <1>0, <1>r, <3>2 DEF Off
    <3>3. CASE On(t)
      BY <1>0, <1>r, <3>3 DEF On
    <3> QED
      BY <1>4, <3>1, <3>2, <3>3
  <2>2. UNCHANGED <<service, stage, links, lines, hung>>
    BY <1>4 DEF End, Off, On
  <2> QED
    BY <2>1, <2>2, SameTree
<1>5. CASE Stop
  <2>1. ts' = [t \in TasksOf(service') |-> ts'[t]]
    BY <1>5 DEF Stop, NewTasks
  <2> QED
    BY <1>0, <1>5, <2>1 DEF Stop, IInv, TreeMade, LinesHung
<1>6. CASE UNCHANGED vars
  BY <1>0, <1>6, SameTree DEF vars
<1> QED
  BY <1>1, <1>2, <1>3, <1>4, <1>5, <1>6 DEF Next
-----------------------------------------------------------------------------
(* What the invariant says of connecting tasks.                            *)

\* The leaf of the tasks that are active has the connections that were made
\* for the ones that are off now, when there is one.
LEMMA FoundLines ==
  ASSUME IInv, stage = "run", Length(service) > 1,
         NEW td, DOMAIN td = TasksOf(service)
  PROVE  LET active == {t \in DOMAIN td : Active(td[t])}
             idle   == {t \in TasksOf(service) \cap Offloadable : ~Active(td[t])}
             found  == UNION {lines[p] : p \in LastLink(links, active)}
         IN /\ LinkFound(service, td) => found = Lines(idle)
            /\ ~LinkFound(service, td) => found = {}
<1> DEFINE s      == service
           active == {t \in DOMAIN td : Active(td[t])}
           idle   == {t \in TasksOf(s) \cap Offloadable : ~Active(td[t])}
           found  == UNION {lines[p] : p \in LastLink(links, active)}
<1>1. s \in Services /\ links = Tree(s) /\ hung = Combinations
  BY DEF IInv, TreeMade
<1>2. \A i \in 1 .. Length(s) : Chain[s][i] \in TasksOf(s)
  BY <1>1, ChainIs
<1>3. \A i \in 1 .. Length(s) : HasBranches(s, i) <=> i \in 1 .. Depth(s)
  <2>1. Length(s) \in Nat
    BY <1>1, ChainIs
  <2> QED
    BY <2>1 DEF HasBranches, Depth
<1>4. \A i \in 1 .. Depth(s) : i \in 1 .. Length(s)
  BY <1>1, DepthIs
<1>5. \A i \in 1 .. Length(s) : Chain[s][i] \in active <=> Active(td[Chain[s][i]])
  BY <1>2
<1>6. LinkFound(s, td) <=> Passable(s, active)
  <2> HIDE DEF active
  <2> QED
    BY <1>3, <1>4, <1>5 DEF LinkFound, Passable
<1>7. LastLink(links, active) = IF Passable(s, active) THEN {Way(s, active)} ELSE {}
  BY <1>1, LastLinkIs
<1>8. ASSUME Passable(s, active) PROVE found = Lines(idle)
  <2>1. idle \in Combinations
    BY DEF Combinations
  <2>2. \A i \in 1 .. Depth(s) : Chain[s][i] \in active <=> Chain[s][i] \in OnTasks(idle)
    <3>1. \A i \in 1 .. Depth(s) : Chain[s][i] \in idle <=> Chain[s][i] \notin active
      BY <1>2, <1>4, <1>8 DEF Passable
    <3> HIDE DEF active, idle
    <3> QED
      BY <1>1, <1>4, <2>1, <3>1, OnTasksAre
  <2> HIDE DEF active, idle
  <2>3. Way(s, active) = Way(s, OnTasks(idle))
    BY <2>2 DEF Way
  <2>4. lines[Way(s, OnTasks(idle))] = Lines(idle)
    BY <1>1, <2>1 DEF IInv, LinesHung
  <2>5. LastLink(links, active) = {Way(s, active)}
    BY <1>7, <1>8
  <2> QED
    BY <2>3, <2>4, <2>5
<1>9. ASSUME ~Passable(s, active) PROVE found = {}
  BY <1>7, <1>9
<1> QED
  BY <1>6, <1>8, <1>9

\* A task has one connection at most among those of a combination.
LEMMA LineOf ==
  ASSUME NEW out, NEW t \in TasksOf(service)
  PROVE  LET to == Follower(service, t, out)
         IN /\ (\E line \in Lines(out) : line[1] = t) <=> t \notin out /\ to # NoTask
            /\ (\E line \in Lines(out) : line[1] = t) =>
                  (CHOOSE line \in Lines(out) : line[1] = t)[2] = to
<1> DEFINE to == Follower(service, t, out)
<1>1. \A line \in Lines(out) : line[1] = t => line = <<t, to>>
  BY DEF Lines
<1>2. (\E line \in Lines(out) : line[1] = t) <=> t \notin out /\ to # NoTask
  <2>1. ASSUME t \notin out, to # NoTask PROVE <<t, to>> \in Lines(out) /\ <<t, to>>[1] = t
    BY <2>1 DEF Lines
  <2>2. ASSUME NEW line \in Lines(out), line[1] = t PROVE t \notin out /\ to # NoTask
    BY <2>2 DEF Lines
  <2> QED
    BY <2>1, <2>2
<1>3. ASSUME \E line \in Lines(out) : line[1] = t
      PROVE  (CHOOSE line \in Lines(out) : line[1] = t)[2] = to
  <2> DEFINE chosen == CHOOSE line \in Lines(out) : line[1] = t
  <2>1. chosen \in Lines(out) /\ chosen[1] = t
    BY <1>3
  <2> HIDE DEF chosen, to
  <2>2. chosen = <<t, to>>
    BY <1>1, <2>1
  <2>3. chosen[2] = to
    BY <2>2
  <2> QED
    BY <2>3 DEF chosen
<1> QED
  BY <1>2, <1>3

LEMMA WalkIsConnected ==
  ASSUME IInv, stage = "run", NEW td, DOMAIN td = TasksOf(service)
  PROVE  Rewired(td) = Connected(service, td)
<1> DEFINE s       == service
           active  == {t \in DOMAIN td : Active(td[t])}
           idle    == {t \in TasksOf(s) \cap Offloadable : ~Active(td[t])}
           found   == UNION {lines[p] : p \in LastLink(links, active)}
           Has(t)  == \E line \in found : line[1] = t
           Line(t) == Follower(s, t, idle)
<1>1. Rewired(td) = [t \in TasksOf(s) |->
                       IF Has(t) THEN [td[t] EXCEPT !.route = (CHOOSE line \in found : line[1] = t)[2]]
                       ELSE td[t]]
  BY DEF Rewired
<1>2. Connected(s, td) = [t \in TasksOf(s) |->
                            IF LinkFound(s, td) /\ t \notin idle /\ Line(t) # NoTask
                            THEN [td[t] EXCEPT !.route = Line(t)] ELSE td[t]]
  BY DEF Connected
<1>3. ~LinkFound(s, td) => found = {}
  <2>1. CASE Length(s) > 1
    BY <2>1, FoundLines
  <2>2. CASE ~(Length(s) > 1)
    <3>1. Length(s) <= 1
      BY <2>2, ChainIs DEF IInv, TreeMade
    <3>2. links = NoLinks
      BY <3>1 DEF IInv, TreeMade, Tree
    <3>3. LastLink(links, active) = {}
      BY <3>2 DEF LastLink, NoLinks
    <3> QED
      BY <3>3
  <2> QED
    BY <2>1, <2>2
<1>4. LinkFound(s, td) => found = Lines(idle)
  <2>1. LinkFound(s, td) => Length(s) > 1
    BY DEF LinkFound
  <2> QED
    BY <2>1, FoundLines
<1> HIDE DEF found, idle, active
<1>5. ASSUME NEW t \in TasksOf(s)
      PROVE  /\ Has(t) <=> LinkFound(s, td) /\ t \notin idle /\ Line(t) # NoTask
             /\ Has(t) => (CHOOSE line \in found : line[1] = t)[2] = Line(t)
  <2>1. CASE LinkFound(s, td)
    <3>1. found = Lines(idle)
      BY <1>4, <2>1
    <3>2. /\ (\E line \in Lines(idle) : line[1] = t) <=> t \notin idle /\ Line(t) # NoTask
          /\ (\E line \in Lines(idle) : line[1] = t) =>
                (CHOOSE line \in Lines(idle) : line[1] = t)[2] = Line(t)
      BY LineOf, Zenon
    <3> QED
      BY <2>1, <3>1, <3>2, Zenon
  <2>2. CASE ~LinkFound(s, td)
    BY <1>3, <2>2
  <2> QED
    BY <2>1, <2>2
<1> HIDE DEF Has, Line
<1> QED
  BY <1>1, <1>2, <1>5

-----------------------------------------------------------------------------
(* Theorems.                                                               *)

THEOREM LinksInductive == Spec => []IInv
<1> QED
  BY LinksInit, LinksNext, PTL DEF Spec

\* For every chain of tasks: what set_connect_link hangs into the tree for one
\* combination of tasks that are off stays there, whichever others follow.
THEOREM CombinationsHaveTheirLink == Spec => []OwnLink
<1>1. IInv => OwnLink
  <2> SUFFICES ASSUME IInv, Length(service) > 1, NEW out \in hung
               PROVE  \E p \in LastLink(links, OnTasks(out)) : lines[p] = Lines(out)
    BY DEF OwnLink
  <2>1. stage # "tasks" /\ service \in Services /\ links = Tree(service) /\ out \in Combinations
    BY DEF IInv, TreeMade
  <2>2. LastLink(links, OnTasks(out)) = {Way(service, OnTasks(out))}
    BY <2>1, WayInTree
  <2>3. lines[Way(service, OnTasks(out))] = Lines(out)
    BY <2>1 DEF IInv, LinesHung
  <2> QED
    BY <2>2, <2>3
<1> QED
  BY <1>1, LinksInductive, PTL

\* For every chain of tasks, and whichever of them are active: the walk of
\* set_output_connect_line through the tree of links connects the tasks as
\* Connected says, which is the step that Microservices takes.
THEOREM WalkImplementsConnected == Spec => []WalkConnects
<1>1. IInv => WalkConnects
  <2> SUFFICES ASSUME IInv, stage = "run" PROVE Rewired(ts) = Connected(service, ts)
    BY DEF WalkConnects
  <2>1. DOMAIN ts = TasksOf(service)
    <3>1. ts = [t \in TasksOf(service) |-> ts[t]]
      BY DEF IInv, TreeMade
    <3> QED
      BY <3>1
  <2> QED
    BY <2>1, WalkIsConnected
<1> QED
  BY <1>1, LinksInductive, PTL
================================================================================
