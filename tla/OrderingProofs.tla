--------------------------- MODULE OrderingProofs ---------------------------
(***************************************************************************)
(* Proofs about the order of a list, for any number of items and handlers. *)
(*                                                                         *)
(* What a handler wants to write is right for the list it has read, so the *)
(* invariant says of one that nobody raced (Knows) that the list still is  *)
(* as it was read; a commit makes every other handler stale.  A rebalance  *)
(* counts, for each item, the ones up to it: an item behind another counts *)
(* one more at least, so it lands a whole POSITION_GAP behind it.          *)
(***************************************************************************)
EXTENDS Ordering, FiniteSetTheorems, WellFoundedInduction, TLAPS

Positive == Nat \ {0}
Spots    == {"ABSENT", "HERE", "ELSEWHERE", "DELETED"}
Placing  == {"create", "move", "reorder", "restore"}
Removing == {"DELETED", "ELSEWHERE"}

Fields == {"phase", "op", "item", "near", "at", "from", "was", "ordered", "plan", "moved"}

(* Whether the neighbours were named in their order.                       *)
Ordered(x) == x.ordered

Both(n) == n.previous # None /\ n.next # None

(* A handler that is to place an item, or to remove one.                   *)
Places(x) ==
  /\ DOMAIN x = Fields
  /\ x.phase \in {"list", "save", "held", "loops", "place"}
  /\ x.op \in Placing /\ x.item \in Items
  /\ x.near \in [previous : Items \cup {None}, next : Items \cup {None}]
  /\ x.near.previous # None => x.near.previous # x.near.next
  /\ x.at \in Positive /\ x.from \in Spots
  /\ x.moved \subseteq Items /\ x.moved \subseteq DOMAIN x.plan
  /\ \A k \in DOMAIN x.plan : x.plan[k] \in Positive
  /\ x.phase # "place" => Both(x.near)

Removes(x) ==
  x.phase = "place" /\ x.op \in Removing /\ x.item \in Items /\ x.moved = {}

Asks(x) == x = NoTxn \/ Places(x) \/ Removes(x)

(* The neighbours of a handler that nobody raced are in the list, and what *)
(* it wants to write is what the list asks for.                            *)
Knows(x) ==
  x.op \in Placing =>
    /\ {x.near.previous, x.near.next} \subseteq Here \cup {None}
    /\ x.was = pos[x.item] /\ x.from = place[x.item]
    /\ x.phase \in {"list", "save"} /\ Ordered(x) => pos[x.near.previous] < pos[x.near.next]
    /\ x.phase = "loops" => ~Ordered(x)
    /\ x.phase = "place" =>
         /\ x.moved = {} /\ ~NeedsRebalance(pos, x.near.previous, x.near.next)
         /\ x.at = CalculatePosition(x.op, pos, x.near)
    /\ x.phase \in {"save", "held"} =>
         x.plan = Rebalance(pos) /\ x.moved = {k \in Here : x.plan[k] # pos[k]}
    /\ x.phase = "held" =>
         /\ ~NeedsRebalance(x.plan, x.near.previous, x.near.next)
         /\ x.at = CalculatePosition(x.op, x.plan, x.near)

TypeInv ==
  /\ kind \in {"task", "section"}
  /\ place \in [Items -> Spots]
  /\ pos \in [Items -> Positive]
  /\ DOMAIN txn = Requests /\ \A t \in Requests : Asks(txn[t])
  /\ stale \subseteq Requests
  /\ writes \in Nat /\ IsFiniteSet(Busy) /\ writes + Cardinality(Busy) <= MaxWrites

OrderInv == \A t \in Requests : txn[t] # NoTxn /\ t \notin stale => Knows(txn[t])
-----------------------------------------------------------------------------
(* The gaps are positive.                                                  *)
LEMMA Gaps == /\ Gap \in Positive /\ MinGap \in Positive /\ MinGap < Gap /\ Gap > 1
              /\ IsFiniteSet(Items) /\ Cardinality(Items) \in Nat
              /\ Items = 1 .. Cardinality(Items) /\ Items \subseteq Positive
              /\ MaxWrites \in Nat /\ None \notin Items
<1>1. Cardinality(Items) \in Nat
  BY OrderingAssumption, FS_CardinalityType
<1> QED BY <1>1, OrderingAssumption DEF Positive, None

(* The biggest of two.                                                     *)
LEMMA BiggestOfTwo ==
  ASSUME NEW a \in Int, NEW b \in Int
  PROVE  Biggest({a, b}) = IF a <= b THEN b ELSE a
<1>1. PICK m : m = IF a <= b THEN b ELSE a
  OBVIOUS
<1>2. m \in {a, b} /\ \A y \in {a, b} : y <= m
  BY <1>1
<1>3. \A x \in {a, b} : (\A y \in {a, b} : y <= x) => x = m
  BY <1>1
<1> QED BY <1>1, <1>2, <1>3 DEF Biggest

(* A nonempty set of numbers has a least element. *)
LEMMA LeastNumber ==
  ASSUME NEW T \in SUBSET Nat, T # {}
  PROVE  \E n \in T : \A m \in T : n <= m
<1> DEFINE R == {ss \in Nat \X Nat : ss[1] < ss[2]}
<1>1. IsWellFoundedOn(R, Nat)
  BY NatLessThanWellFounded DEF OpToRel
<1>2. \A m, n \in T : m < n => <<m, n>> \in R
  OBVIOUS
<1> HIDE DEF R
<1>3. \E n \in T : \A m \in T : <<m, n>> \notin R
  BY <1>1, WFMin
<1>4. \A m, n \in T : m < n \/ n <= m
  OBVIOUS
<1> QED BY <1>2, <1>3, <1>4

(* A list that is not empty has a last item: the first items of it do, up  *)
(* to each one in turn.                                                    *)
LEMMA LastExists ==
  ASSUME NEW S \in SUBSET Items, S # {}, NEW at \in [Items -> Int]
  PROVE  \E k \in S : \A j \in S : at[j] <= at[k]
<1>1. PICK N \in Nat : Items = 1 .. N
  BY Gaps
<1>2. PICK T : T = {n \in Nat : /\ \E k \in S : k <= n
                                /\ ~\E k \in S : k <= n /\ \A j \in S : j <= n => at[j] <= at[k]}
  OBVIOUS
<1>3. \A k \in S : k \in Nat /\ k <= N /\ k # 0
  BY <1>1
<1> SUFFICES ASSUME N \in T PROVE FALSE
  <2>1. \E k \in S : k <= N
    BY <1>3
  <2>2. N \notin T => \E k \in S : \A j \in S : j <= N => at[j] <= at[k]
    BY <1>2, <2>1
  <2> QED BY <1>3, <2>2
<1>4. PICK n \in T : \A m \in T : n <= m
  <2>1. T \subseteq Nat /\ T # {}
    BY <1>2
  <2> QED BY <2>1, LeastNumber
<1>5. n \in Nat /\ n # 0
  BY <1>2, <1>3, <1>4
<1>6. n - 1 \in Nat /\ n - 1 \notin T
  BY <1>4, <1>5
<1>7. CASE ~\E k \in S : k <= n - 1
  <2>1. PICK k \in S : k <= n
    BY <1>2, <1>4
  <2>2. \A j \in S : j <= n => j = k
    BY <1>1, <1>5, <1>7, <2>1
  <2> QED BY <1>1, <1>2, <1>4, <2>1, <2>2
<1>8. CASE \E k \in S : k <= n - 1
  <2>1. PICK k \in S : k <= n - 1 /\ \A j \in S : j <= n - 1 => at[j] <= at[k]
    BY <1>2, <1>6, <1>8
  <2>2. CASE n \in S /\ at[k] <= at[n]
    <3>1. \A j \in S : j <= n => at[j] <= at[n]
      BY <1>1, <1>5, <2>1, <2>2
    <3> QED BY <1>1, <1>2, <1>4, <1>5, <2>2, <3>1
  <2>3. CASE ~(n \in S /\ at[k] <= at[n])
    <3>1. \A j \in S : j <= n => at[j] <= at[k]
      BY <1>1, <1>5, <2>1, <2>3
    <3> QED BY <1>1, <1>2, <1>4, <1>5, <2>1, <3>1
  <2> QED BY <2>2, <2>3
<1> QED BY <1>7, <1>8

(* A position at the end is behind all of the list.                        *)
LEMMA AtTheEnd ==
  ASSUME pos \in [Items -> Positive]
  PROVE  AppendAfter(pos) \in Positive /\ \A k \in Here : pos[k] < AppendAfter(pos)
<1>1. CASE Here = {}
  BY <1>1, Gaps DEF AppendAfter
<1>2. CASE Here # {}
  <2>1. Here \subseteq Items /\ pos \in [Items -> Int]
    BY DEF Here, Positive
  <2>2. PICK k \in Here : \A j \in Here : pos[j] <= pos[k]
    BY <1>2, <2>1, LastExists
  <2>3. PICK S : S = {pos[j] : j \in Here}
    OBVIOUS
  <2>4. pos[k] \in S /\ \A y \in S : y <= pos[k]
    BY <2>2, <2>3
  <2>5. Biggest(S) \in S /\ \A y \in S : y <= Biggest(S)
    BY <2>4 DEF Biggest
  <2>6. AppendAfter(pos) = Biggest(S) + Gap
    BY <1>2, <2>3 DEF AppendAfter
  <2>7. \A j \in Here : pos[j] \in Positive
    BY <2>1
  <2>8. Biggest(S) \in Positive
    BY <2>3, <2>5, <2>7
  <2>9. \A j \in Here : pos[j] <= Biggest(S)
    BY <2>3, <2>5
  <2> QED BY <2>6, <2>7, <2>8, <2>9, Gaps DEF Positive
<1> QED BY <1>1, <1>2

(* A position next to others is positive, behind the one before and, if    *)
(* there is room, before the one behind.                                   *)
LEMMA NextToOthers ==
  ASSUME NEW at, NEW p, NEW n, p # None => at[p] \in Positive, n # None => at[n] \in Positive,
         NEW b, b = Between(at, p, n)
  PROVE  /\ b \in Positive
         /\ ~NeedsRebalance(at, p, n) =>
              /\ p # None => at[p] < b
              /\ n # None /\ at[n] > MinGap => b < at[n]
<1>1. CASE p # None /\ n # None
  <2>1. PICK v \in Positive, w \in Positive : v = at[p] /\ w = at[n]
    BY <1>1
  <2>2. b = v + (w - v) \div 2
    BY <1>1, <2>1 DEF Between
  <2>3. b \in Positive
    BY <2>2 DEF Positive
  <2>4. w - v > MinGap => v < b /\ b < w
    BY <2>2, Gaps DEF Positive
  <2> QED BY <1>1, <2>1, <2>3, <2>4, Gaps DEF NeedsRebalance, Positive
<1>2. CASE p # None /\ n = None
  BY <1>2, Gaps DEF Between, Positive
<1>3. CASE p = None /\ n # None
  <2>1. PICK w \in Positive : w = at[n]
    BY <1>3
  <2>2. b = Biggest({w \div 2, MinGap}) /\ w \div 2 \in Int /\ MinGap \in Int
    BY <1>3, <2>1, Gaps DEF Between, Positive
  <2>3. b = IF w \div 2 <= MinGap THEN MinGap ELSE w \div 2
    BY <2>2, BiggestOfTwo
  <2> QED BY <1>3, <2>1, <2>3, Gaps DEF Positive
<1>4. CASE p = None /\ n = None
  BY <1>4, Gaps DEF Between
<1> QED BY <1>1, <1>2, <1>3, <1>4

(* A rebalance keeps the order, a whole gap from one item to the next.     *)
LEMMA RebalanceIs ==
  ASSUME pos \in [Items -> Positive], NEW plan, plan = Rebalance(pos)
  PROVE  /\ DOMAIN plan = Here
         /\ \A k \in Here : plan[k] \in Positive
         /\ \A j, k \in Here : pos[j] < pos[k] => plan[j] + Gap <= plan[k]
<1> DEFINE Upto(k) == {j \in Here : pos[j] < pos[k] \/ (pos[j] = pos[k] /\ j <= k)}
<1>1. Here \subseteq Items /\ IsFiniteSet(Here) /\ \A k \in Here : k \in Nat /\ pos[k] \in Nat
  <2>1. Here \subseteq Items
    BY DEF Here
  <2> QED BY <2>1, Gaps, FS_Subset DEF Positive
<1>2. DOMAIN plan = Here /\ \A k \in Here : plan[k] = Gap * Cardinality(Upto(k))
  BY DEF Rebalance
<1>3. ASSUME NEW k \in Here
      PROVE  /\ IsFiniteSet(Upto(k)) /\ Cardinality(Upto(k)) \in Nat /\ Cardinality(Upto(k)) # 0
             /\ k \in Upto(k)
  <2>1. Upto(k) \subseteq Here /\ k \in Upto(k)
    BY <1>1
  <2>2. IsFiniteSet(Upto(k))
    BY <1>1, <2>1, FS_Subset
  <2> QED BY <2>1, <2>2, FS_CardinalityType, FS_EmptySet
<1>4. ASSUME NEW j \in Here, NEW k \in Here, pos[j] < pos[k]
      PROVE  Cardinality(Upto(j)) + 1 <= Cardinality(Upto(k))
  <2>1. Upto(j) \subseteq Upto(k) /\ k \notin Upto(j)
    BY <1>1, <1>4
  <2>2. /\ Cardinality(Upto(j)) <= Cardinality(Upto(k))
        /\ Cardinality(Upto(k)) = Cardinality(Upto(j)) => Upto(k) = Upto(j)
    BY <1>3, <2>1, FS_Subset
  <2>3. Cardinality(Upto(k)) # Cardinality(Upto(j))
    BY <1>3, <2>1, <2>2
  <2> QED BY <1>3, <2>2, <2>3
<1> HIDE DEF Upto
<1>5. \A c \in Nat : \A d \in Nat : Gap * c \in Nat /\ (c # 0 => Gap * c # 0)
                                    /\ (c + 1 <= d => Gap * c + Gap <= Gap * d)
  <2>1. Gap \in Nat /\ Gap > 0
    BY Gaps DEF Positive
  <2> SUFFICES ASSUME NEW c \in Nat, NEW d \in Nat
               PROVE  /\ Gap * c \in Nat /\ (c # 0 => Gap * c # 0)
                      /\ (c + 1 <= d => Gap * c + Gap <= Gap * d)
    OBVIOUS
  <2>2. Gap * c \in Nat /\ (c # 0 => Gap * c # 0)
    BY <2>1
  <2>3. ASSUME c + 1 <= d PROVE Gap * c + Gap <= Gap * d
    <3>1. PICK e \in Nat : d = c + 1 + e
      BY <2>3
    <3>2. Gap * d = Gap * c + Gap + Gap * e
      BY <2>1, <3>1
    <3>3. Gap * e \in Nat
      BY <2>1
    <3> QED BY <2>1, <2>2, <3>2, <3>3
  <2> QED BY <2>2, <2>3
<1>6. \A k \in Here : plan[k] \in Positive
  BY <1>2, <1>3, <1>5 DEF Positive
<1>7. ASSUME NEW j \in Here, NEW k \in Here, pos[j] < pos[k]
      PROVE  plan[j] + Gap <= plan[k]
  <2>1. Cardinality(Upto(j)) \in Nat /\ Cardinality(Upto(k)) \in Nat
    BY <1>3
  <2>2. Cardinality(Upto(j)) + 1 <= Cardinality(Upto(k))
    BY <1>4, <1>7
  <2>3. Gap * Cardinality(Upto(j)) + Gap <= Gap * Cardinality(Upto(k))
    BY <1>5, <2>1, <2>2
  <2> QED BY <1>2, <2>3
<1> QED BY <1>2, <1>6, <1>7

(* What CalculatePosition makes of the neighbours.                         *)
LEMMA PositionIs ==
  ASSUME NEW op, NEW at, NEW near, near \in [previous : Items \cup {None}, next : Items \cup {None}],
         near.previous # None => at[near.previous] \in Positive,
         near.next # None => at[near.next] \in Positive,
         near = Alone => at = pos /\ pos \in [Items -> Positive],
         NEW x, x = CalculatePosition(op, at, near)
  PROVE  /\ x \in Positive
         /\ ~NeedsRebalance(at, near.previous, near.next) =>
              /\ near.previous # None => at[near.previous] < x
              /\ near.next # None /\ at[near.next] > MinGap => x < at[near.next]
         /\ near = Alone /\ ~(op = "reorder" /\ kind = "task") => \A k \in Here : at[k] < x
<1>1. CASE near # Alone \/ (op = "reorder" /\ kind = "task")
  <2>1. x = Between(at, near.previous, near.next)
    BY <1>1 DEF CalculatePosition
  <2> QED BY <1>1, <2>1, NextToOthers
<1>2. CASE ~(near # Alone \/ (op = "reorder" /\ kind = "task"))
  <2>1. x = AppendAfter(pos) /\ at = pos
    BY <1>2 DEF CalculatePosition
  <2>2. near.previous = None /\ near.next = None
    BY <1>2 DEF Alone
  <2> QED BY <1>2, <2>1, <2>2, AtTheEnd
<1> QED BY <1>1, <1>2
-----------------------------------------------------------------------------
(* Steps that write nothing but what one handler has in hand.              *)
LEMMA TxnType ==
  ASSUME TypeInv, NEW t \in Requests, NEW y, Asks(y), txn' = [txn EXCEPT ![t] = y],
         UNCHANGED <<table, writes>>, stale' \subseteq Requests,
         txn[t] # NoTxn \/ writes + Cardinality(Busy) < MaxWrites
  PROVE  TypeInv'
<1>1. DOMAIN txn' = Requests /\ txn'[t] = y /\ \A s \in Requests : s # t => txn'[s] = txn[s]
  BY DEF TypeInv
<1>2. \A s \in Requests : Asks(txn[s])'
  BY <1>1 DEF TypeInv, Asks, Places, Removes
<1>3. Busy' \subseteq Busy \cup {t} /\ (txn[t] # NoTxn => t \in Busy)
  BY <1>1 DEF Busy
<1>4. IsFiniteSet(Busy') /\ writes' + Cardinality(Busy') <= MaxWrites
  <2>1. IsFiniteSet(Busy) /\ IsFiniteSet(Busy \cup {t}) /\ Cardinality(Busy) \in Nat
        /\ Cardinality(Busy \cup {t}) = IF t \in Busy THEN Cardinality(Busy) ELSE Cardinality(Busy) + 1
    BY FS_AddElement, FS_CardinalityType DEF TypeInv
  <2>2. IsFiniteSet(Busy') /\ Cardinality(Busy') <= Cardinality(Busy \cup {t})
    BY <1>3, <2>1, FS_Subset
  <2>3. Cardinality(Busy') \in Nat
    BY <2>2, FS_CardinalityType
  <2>4. writes + Cardinality(Busy \cup {t}) <= MaxWrites
    BY <1>3, <2>1, Gaps DEF TypeInv
  <2> QED BY <2>1, <2>2, <2>3, <2>4, Gaps DEF TypeInv
<1> QED BY <1>1, <1>2, <1>4 DEF TypeInv, table

(* A handler knows the list as long as the list is the same.               *)
LEMMA KnowsStays ==
  ASSUME UNCHANGED table, NEW x, Knows(x)
  PROVE  Knows(x)'
<1>1. kind' = kind /\ place' = place /\ pos' = pos
  BY DEF table
<1>2. Here' = Here
  BY <1>1 DEF Here
<1>3. Rebalance(pos)' = Rebalance(pos)
  BY <1>1, <1>2 DEF Rebalance
<1>4. /\ CalculatePosition(x.op, pos, x.near)' = CalculatePosition(x.op, pos, x.near)
      /\ CalculatePosition(x.op, x.plan, x.near)' = CalculatePosition(x.op, x.plan, x.near)
  BY <1>1, <1>2 DEF CalculatePosition, Between, AppendAfter
<1>5. NeedsRebalance(pos, x.near.previous, x.near.next)'
        <=> NeedsRebalance(pos, x.near.previous, x.near.next)
  BY <1>1 DEF NeedsRebalance
<1> QED BY <1>1, <1>2, <1>3, <1>4, <1>5 DEF Knows

(* A step of one handler that leaves the table alone, unless the handler   *)
(* learns something false.                                                 *)
LEMMA TxnOrder ==
  ASSUME TypeInv, OrderInv, NEW t \in Requests, NEW y, txn' = [txn EXCEPT ![t] = y],
         UNCHANGED table, stale \ {t} \subseteq stale', y = NoTxn \/ t \in stale' \/ Knows(y)
  PROVE  OrderInv'
<1>1. DOMAIN txn' = Requests /\ txn'[t] = y /\ \A s \in Requests : s # t => txn'[s] = txn[s]
  BY DEF TypeInv
<1>2. ASSUME NEW s \in Requests, txn'[s] # NoTxn, s \notin stale' PROVE Knows(txn[s])'
  <2>1. PICK x : x = txn'[s]
    OBVIOUS
  <2>2. Knows(x)
    BY <1>1, <1>2, <2>1 DEF OrderInv
  <2>3. Knows(x)'
    BY <2>2, KnowsStays
  <2> QED BY <2>1, <2>3 DEF Knows
<1> QED BY <1>2 DEF OrderInv
-----------------------------------------------------------------------------
(* The actions.  A handler begins with what it reads.                      *)
LEMMA BeginStep ==
  ASSUME TypeInv, OrderInv, NEW t \in Requests, NEW op \in Placing, NEW k \in Items,
         NEW n \in Neighbours, Begin(t, op, k, n)
  PROVE  TypeInv' /\ OrderInv'
<1>1. PICK p : p = n.previous
  OBVIOUS
<1>2. PICK q : q = n.next
  OBVIOUS
<1>3. PICK o : o = (None \in {p, q} \/ pos[p] < pos[q])
  OBVIOUS
<1>4. PICK at : at = CalculatePosition(op, pos, n)
  OBVIOUS
<1>5. PICK y : y = [phase |-> IF NeedsRebalance(pos, p, q) THEN "list" ELSE "place",
                    op |-> op, item |-> k, near |-> n, at |-> at, from |-> place[k],
                    was |-> pos[k], ordered |-> o, plan |-> <<>>, moved |-> {}]
  OBVIOUS
<1>6. /\ txn[t] = NoTxn /\ writes + Cardinality(Busy) < MaxWrites
      /\ stale' = stale \ {t} /\ UNCHANGED <<table, writes>>
      /\ txn' = [txn EXCEPT ![t] = y]
  BY <1>1, <1>2, <1>3, <1>4, <1>5, Zenon DEF Begin
<1>7. /\ y.phase = IF NeedsRebalance(pos, p, q) THEN "list" ELSE "place"
      /\ y.op = op /\ y.item = k /\ y.near = n /\ y.at = at /\ y.from = place[k]
      /\ y.was = pos[k] /\ y.ordered = o /\ y.plan = <<>> /\ y.moved = {}
      /\ DOMAIN y = Fields
  BY <1>5 DEF Fields
<1>8. /\ n \in [previous : Here \cup {None}, next : Here \cup {None}]
      /\ p \in Here \cup {None} /\ q \in Here \cup {None} /\ (p # None => p # q)
      /\ Here \subseteq Items
  BY <1>1, <1>2 DEF Neighbours, Here
<1>9. pos \in [Items -> Positive] /\ n \in [previous : Items \cup {None}, next : Items \cup {None}]
  BY <1>8 DEF TypeInv
<1>a. at \in Positive
  BY <1>1, <1>2, <1>4, <1>8, <1>9, PositionIs
<1>b. NeedsRebalance(pos, p, q) => Both(n)
  BY <1>1, <1>2 DEF NeedsRebalance, Both
<1>c. place[k] \in Spots
  BY DEF TypeInv
<1>d. DOMAIN y.plan = {}
  BY <1>7
<1>e. Places(y)
  BY <1>1, <1>2, <1>7, <1>8, <1>9, <1>a, <1>b, <1>c, <1>d DEF Places
<1>f. Asks(y) /\ stale' \subseteq Requests
  BY <1>6, <1>e DEF Asks, TypeInv
<1>g. TypeInv'
  BY <1>6, <1>f, TxnType
<1>h. Ordered(y) => p = None \/ q = None \/ pos[p] < pos[q]
  <2>1. Ordered(y) => o
    BY <1>7, Zenon DEF Ordered
  <2>2. o => None \in {p, q} \/ pos[p] < pos[q]
    BY <1>3, Zenon
  <2> QED BY <2>1, <2>2
<1>i. Knows(y)
  <2>1. y.phase \in {"list", "save"} /\ Ordered(y) => pos[p] < pos[q]
    BY <1>1, <1>2, <1>7, <1>b, <1>h DEF Both
  <2>2. y.phase = "place" => /\ y.moved = {} /\ ~NeedsRebalance(pos, p, q) /\ y.at = at
    BY <1>7
  <2>3. y.phase \notin {"loops", "save", "held"}
    BY <1>7
  <2> QED BY <1>1, <1>2, <1>4, <1>7, <1>8, <2>1, <2>2, <2>3 DEF Knows
<1> QED BY <1>6, <1>g, <1>i, TxnOrder

(* A handler that removes an item asks for no position.                    *)
LEMMA RemoveStep ==
  ASSUME TypeInv, OrderInv, NEW t \in Requests, NEW k \in Items, NEW to \in Removing, Remove(t, k, to)
  PROVE  TypeInv' /\ OrderInv'
<1>1. PICK y : y = [phase |-> "place", op |-> to, item |-> k, plan |-> <<>>, moved |-> {}]
  OBVIOUS
<1>2. /\ writes + Cardinality(Busy) < MaxWrites /\ stale' = stale \ {t}
      /\ UNCHANGED <<table, writes>> /\ txn' = [txn EXCEPT ![t] = y]
  BY <1>1 DEF Remove
<1>3. Asks(y) /\ y.op \notin Placing
  BY <1>1 DEF Asks, Removes, Removing, Placing
<1>4. Knows(y) /\ stale' \subseteq Requests
  BY <1>2, <1>3 DEF Knows, TypeInv
<1> QED BY <1>2, <1>3, <1>4, TxnType, TxnOrder

(* The list is read for the rebalance.                                     *)
LEMMA ListStep ==
  ASSUME TypeInv, OrderInv, NEW t \in Requests, ListItems(t)
  PROVE  TypeInv' /\ OrderInv'
<1>1. PICK x : x = txn[t]
  OBVIOUS
<1>2. PICK plan : plan = Rebalance(pos)
  OBVIOUS
<1>3. PICK moved : moved = {k \in Here : plan[k] # pos[k]}
  OBVIOUS
<1>4. x.phase = "list" /\ Places(x) /\ x # NoTxn
  BY <1>1 DEF ListItems, TypeInv, Asks, NoTxn, Removes
<1>5. PICK y : y = [x EXCEPT !.phase = "save", !.plan = plan, !.moved = moved]
  OBVIOUS
<1>6. txn' = [txn EXCEPT ![t] = y] /\ UNCHANGED <<table, stale, writes>>
  BY <1>1, <1>2, <1>3, <1>5 DEF ListItems
<1>7. /\ DOMAIN y = Fields /\ y.phase = "save" /\ y.plan = plan /\ y.moved = moved
      /\ y.op = x.op /\ y.item = x.item /\ y.near = x.near /\ y.at = x.at /\ y.from = x.from
      /\ y.was = x.was /\ y.ordered = x.ordered
  BY <1>4, <1>5 DEF Places, Fields
<1>8. /\ DOMAIN plan = Here /\ \A k \in Here : plan[k] \in Positive
      /\ moved \subseteq Here /\ Here \subseteq Items
  BY <1>2, <1>3, RebalanceIs DEF TypeInv, Here
<1>9. Places(y)
  BY <1>4, <1>7, <1>8 DEF Places
<1>a. TypeInv'
  <2>1. Asks(y)
    BY <1>9 DEF Asks
  <2>2. stale' \subseteq Requests
    BY <1>6 DEF TypeInv
  <2> QED BY <1>1, <1>4, <1>6, <2>1, <2>2, TxnType
<1>b. t \in stale' \/ Knows(y)
  <2> SUFFICES ASSUME Knows(x) PROVE Knows(y)
    BY <1>1, <1>4, <1>6 DEF OrderInv
  <2>1. Ordered(y) => Ordered(x)
    BY <1>7, Zenon DEF Ordered
  <2>2. x.op \in Placing
    BY <1>4 DEF Places
  <2> QED BY <1>2, <1>3, <1>4, <1>7, <2>1, <2>2 DEF Knows
<1> QED BY <1>6, <1>a, <1>b, TxnOrder

(* Neighbours in their order are far enough apart after a rebalance.       *)
LEMMA SaveStep ==
  ASSUME TypeInv, OrderInv, NEW t \in Requests, SaveMany(t)
  PROVE  TypeInv' /\ OrderInv'
<1>1. PICK x : x = txn[t]
  OBVIOUS
<1>2. PICK p : p = x.near.previous
  OBVIOUS
<1>3. PICK q : q = x.near.next
  OBVIOUS
<1>4. x.phase = "save" /\ Places(x) /\ x # NoTxn /\ p # None /\ q # None
  BY <1>1, <1>2, <1>3 DEF SaveMany, TypeInv, Asks, NoTxn, Removes, Places, Both
<1>5. PICK at : at = CalculatePosition(x.op, x.plan, x.near)
  OBVIOUS
<1>6. PICK found \in BOOLEAN : found = ({p, q} \subseteq (DOMAIN x.plan) \cap Here)
  OBVIOUS
<1>7. PICK y : y = IF ~found THEN NoTxn
                   ELSE IF NeedsRebalance(x.plan, p, q) THEN [x EXCEPT !.phase = "loops"]
                   ELSE [x EXCEPT !.phase = "held", !.at = at]
  OBVIOUS
<1>8. txn' = [txn EXCEPT ![t] = y] /\ UNCHANGED <<table, stale, writes>>
  BY <1>1, <1>2, <1>3, <1>5, <1>6, <1>7 DEF SaveMany
<1>9. stale' \subseteq Requests
  BY <1>8 DEF TypeInv
<1>a. CASE y = NoTxn
  BY <1>1, <1>4, <1>8, <1>9, <1>a, TxnType, TxnOrder DEF Asks
<1>b. CASE y # NoTxn
  <2>1. {p, q} \subseteq (DOMAIN x.plan) \cap Here
    BY <1>6, <1>7, <1>b
  <2>2. x.plan[p] \in Positive /\ x.plan[q] \in Positive
    BY <1>4, <2>1 DEF Places
  <2>3. x.near # Alone /\ x.near \in [previous : Items \cup {None}, next : Items \cup {None}]
    BY <1>2, <1>4 DEF Alone, Places
  <2>4. at \in Positive
    BY <1>2, <1>3, <1>5, <2>2, <2>3, PositionIs
  <2>5. /\ DOMAIN y = Fields /\ y.plan = x.plan /\ y.moved = x.moved
        /\ y.op = x.op /\ y.item = x.item /\ y.near = x.near /\ y.from = x.from
        /\ y.was = x.was /\ y.ordered = x.ordered
        /\ \/ y.phase = "loops" /\ y.at = x.at /\ NeedsRebalance(x.plan, p, q)
           \/ y.phase = "held" /\ y.at = at /\ ~NeedsRebalance(x.plan, p, q)
    BY <1>4, <1>6, <1>7, <1>b DEF Places, Fields
  <2>6. Places(y)
    BY <1>4, <2>4, <2>5 DEF Places
  <2>7. TypeInv'
    BY <1>1, <1>4, <1>8, <1>9, <2>6, TxnType DEF Asks
  <2>8. t \in stale' \/ Knows(y)
    <3> SUFFICES ASSUME Knows(x) PROVE Knows(y)
      BY <1>1, <1>4, <1>8 DEF OrderInv
    <3>1. Ordered(y) => Ordered(x)
      BY <2>5, Zenon DEF Ordered
    <3>2. x.op \in Placing
      BY <1>4 DEF Places
    <3>3. /\ {p, q} \subseteq Here \cup {None} /\ x.was = pos[x.item] /\ x.from = place[x.item]
          /\ Ordered(x) => pos[p] < pos[q]
          /\ x.plan = Rebalance(pos) /\ x.moved = {k \in Here : x.plan[k] # pos[k]}
      BY <1>2, <1>3, <1>4, <3>2 DEF Knows
    <3>4. CASE y.phase = "loops"
      <4>1. SUFFICES ASSUME Ordered(x) PROVE FALSE
        BY <1>2, <1>3, <2>5, <3>1, <3>3, <3>4 DEF Knows
      <4>2. pos \in [Items -> Positive]
        BY DEF TypeInv
      <4>3. x.plan[p] + Gap <= x.plan[q]
        BY <2>1, <3>3, <4>1, <4>2, RebalanceIs
      <4> QED BY <2>2, <2>5, <3>4, <4>3, Gaps DEF NeedsRebalance, Positive
    <3>5. CASE y.phase = "held"
      BY <1>2, <1>3, <1>5, <2>5, <3>3, <3>5 DEF Knows
    <3> QED BY <2>5, <3>4, <3>5
  <2> QED BY <1>8, <2>7, <2>8, TxnOrder
<1> QED BY <1>a, <1>b

(* A handler that fails forgets what it knew.                              *)
LEMMA AbortStep ==
  ASSUME TypeInv, OrderInv, NEW t \in Requests, Abort(t)
  PROVE  TypeInv' /\ OrderInv'
<1>1. txn[t] # NoTxn /\ txn' = [txn EXCEPT ![t] = NoTxn] /\ UNCHANGED <<table, stale, writes>>
  BY DEF Abort, NoTxn
<1>2. stale' \subseteq Requests /\ Asks(NoTxn)
  BY <1>1 DEF TypeInv, Asks
<1> QED BY <1>1, <1>2, TxnType, TxnOrder

(* What a commit writes of the items its handler does not place.           *)
Planned(x) == [k \in Items |-> IF k \in x.moved THEN x.plan[k] ELSE pos[k]]

(* What a commit writes, by what its handler wants: a removal only where   *)
(* the item is, a placement its position.                                  *)
LEMMA CommitIs ==
  ASSUME TypeInv, NEW t \in Requests, Commit(t), NEW x, x = txn[t]
  PROVE  /\ x # NoTxn /\ (Places(x) \/ Removes(x)) /\ x.item \in Items
         /\ x.phase \in {"place", "held"} /\ Planned(x) \in [Items -> Positive]
         /\ Removes(x) => /\ pos' = Planned(x)
                          /\ place' = [place EXCEPT ![x.item] = x.op]
         /\ Places(x) =>
              /\ pos' = [Planned(x) EXCEPT ![x.item] = IF Unchanged(x) THEN @ ELSE x.at]
              /\ place' = [place EXCEPT ![x.item] = IF x.from # "HERE" THEN "HERE" ELSE @]
         /\ ~(Places(x) /\ Removes(x))
         /\ txn' = [txn EXCEPT ![t] = NoTxn] /\ stale' = (stale \cup Busy) \ {t}
         /\ writes' = writes + 1 /\ kind' = kind
<1>1. x.phase \in {"place", "held"} /\ x # NoTxn
  BY DEF Commit, NoTxn
<1>2. Places(x) \/ Removes(x)
  BY <1>1 DEF TypeInv, Asks
<1>3. /\ Places(x) => x.op \notin Removing /\ x.item \in Items /\ x.moved \subseteq DOMAIN x.plan
      /\ Removes(x) => x.op \in Removing /\ x.item \in Items /\ x.moved = {}
  BY DEF Places, Removes, Placing, Removing
<1>4. Planned(x) \in [Items -> Positive]
  <2>1. \A k \in Items : k \in x.moved => x.plan[k] \in Positive
    BY <1>2, <1>3 DEF Places
  <2> QED BY <2>1 DEF Planned, TypeInv
<1>5. /\ pos' = IF x.op \in Removing THEN Planned(x)
                ELSE [Planned(x) EXCEPT ![x.item] = IF Unchanged(x) THEN @ ELSE x.at]
      /\ place' = [place EXCEPT ![x.item] =
                     IF x.op \in Removing THEN x.op ELSE IF x.from # "HERE" THEN "HERE" ELSE @]
      /\ txn' = [txn EXCEPT ![t] = NoTxn] /\ stale' = (stale \cup Busy) \ {t}
      /\ writes' = writes + 1 /\ kind' = kind
  BY DEF Commit, Planned, Removing
<1> QED BY <1>1, <1>2, <1>3, <1>4, <1>5

(* A commit makes the other handlers stale, so nobody claims to know the   *)
(* new list.                                                               *)
LEMMA CommitStep ==
  ASSUME TypeInv, OrderInv, NEW t \in Requests, Commit(t)
  PROVE  TypeInv' /\ OrderInv'
<1>1. PICK x : x = txn[t]
  OBVIOUS
<1>2. /\ x # NoTxn /\ (Places(x) \/ Removes(x)) /\ x.item \in Items
      /\ Planned(x) \in [Items -> Positive]
      /\ Removes(x) => /\ pos' = Planned(x)
                       /\ place' = [place EXCEPT ![x.item] = x.op]
      /\ Places(x) =>
           /\ pos' = [Planned(x) EXCEPT ![x.item] = IF Unchanged(x) THEN @ ELSE x.at]
           /\ place' = [place EXCEPT ![x.item] = IF x.from # "HERE" THEN "HERE" ELSE @]
      /\ txn' = [txn EXCEPT ![t] = NoTxn] /\ stale' = (stale \cup Busy) \ {t}
      /\ writes' = writes + 1 /\ kind' = kind
  BY <1>1, CommitIs
<1>3. pos' \in [Items -> Positive] /\ place' \in [Items -> Spots]
  <2>1. CASE Removes(x)
    BY <1>2, <2>1 DEF TypeInv, Removes, Removing, Spots
  <2>2. CASE Places(x)
    <3>1. x.at \in Positive
      BY <2>2 DEF Places
    <3> QED BY <1>2, <2>2, <3>1 DEF TypeInv, Spots
  <2> QED BY <1>2, <2>1, <2>2
<1>4. DOMAIN txn' = Requests /\ txn'[t] = NoTxn /\ \A s \in Requests : s # t => txn'[s] = txn[s]
  BY <1>2 DEF TypeInv
<1>5. Busy' = Busy \ {t} /\ t \in Busy
  BY <1>1, <1>2, <1>4 DEF Busy
<1>6. writes' \in Nat /\ IsFiniteSet(Busy') /\ writes' + Cardinality(Busy') <= MaxWrites
  <2>1. IsFiniteSet(Busy) /\ IsFiniteSet(Busy \ {t}) /\ Cardinality(Busy) \in Nat
        /\ Cardinality(Busy \ {t}) = Cardinality(Busy) - 1
    BY <1>5, FS_RemoveElement, FS_CardinalityType DEF TypeInv
  <2> QED BY <1>2, <1>5, <2>1, Gaps DEF TypeInv
<1>7. \A s \in Requests : Asks(txn[s])'
  BY <1>4 DEF TypeInv, Asks, Places, Removes
<1>8. stale' \subseteq Requests
  BY <1>2 DEF TypeInv, Busy
<1>9. TypeInv'
  BY <1>2, <1>3, <1>4, <1>6, <1>7, <1>8 DEF TypeInv
<1>a. OrderInv'
  BY <1>2, <1>4 DEF OrderInv, Busy
<1> QED BY <1>9, <1>a
-----------------------------------------------------------------------------
(* The list a run starts with.                                             *)
LEMMA StartsRight ==
  ASSUME Init
  PROVE  TypeInv /\ OrderInv
<1>1. kind \in {"task", "section"}
  BY OrderingAssumption DEF Init
<1>2. place \in [Items -> Spots]
  BY DEF Init, Spots
<1>3. pos \in [Items -> Positive]
  <2>1. \A k \in Items : k * Gap \in Positive
    <3> SUFFICES ASSUME NEW k \in Items PROVE k * Gap \in Positive
      OBVIOUS
    <3>1. k \in Nat /\ k > 0 /\ Gap \in Nat /\ Gap > 0
      BY Gaps DEF Positive
    <3> QED BY <3>1 DEF Positive
  <2> QED BY <2>1, Gaps DEF Init
<1>4. DOMAIN txn = Requests /\ \A t \in Requests : txn[t] = NoTxn
  BY DEF Init
<1>5. IsFiniteSet(Busy) /\ Cardinality(Busy) = 0
  <2>1. Busy = {}
    BY <1>4 DEF Busy
  <2> QED BY <2>1, FS_EmptySet
<1>6. writes \in Nat /\ writes + Cardinality(Busy) <= MaxWrites /\ stale \subseteq Requests
  BY <1>5, Gaps DEF Init
<1> QED BY <1>1, <1>2, <1>3, <1>4, <1>5, <1>6 DEF TypeInv, OrderInv, Asks

(* Whatever a handler does, the types hold and handlers that nobody raced  *)
(* know the list.                                                          *)
LEMMA EveryStep ==
  ASSUME TypeInv, OrderInv, [Next]_vars
  PROVE  TypeInv' /\ OrderInv'
<1>1. CASE UNCHANGED vars
  <2>1. txn' = txn /\ stale' = stale /\ writes' = writes /\ UNCHANGED table
    BY <1>1 DEF vars
  <2>2. Busy' = Busy
    BY <2>1 DEF Busy
  <2>3. TypeInv'
    BY <2>1, <2>2 DEF TypeInv, table, Asks, Places, Removes
  <2>4. ASSUME NEW s \in Requests, txn[s] # NoTxn, s \notin stale PROVE Knows(txn[s])'
    <3>1. PICK x : x = txn[s]
      OBVIOUS
    <3>2. Knows(x)'
      BY <2>1, <2>4, <3>1, KnowsStays DEF OrderInv
    <3> QED BY <2>1, <3>1, <3>2 DEF Knows
  <2> QED BY <2>1, <2>3, <2>4 DEF OrderInv
<1>2. ASSUME NEW t \in Requests, NEW k \in Items,
             Create(t, k) \/ MoveIn(t, k) \/ Reorder(t, k) \/ Restore(t, k)
      PROVE  TypeInv' /\ OrderInv'
  <2>1. Alone \in Neighbours
    BY DEF Alone, Neighbours
  <2>2. \E op \in Placing : \E n \in Neighbours : Begin(t, op, k, n)
    BY <1>2, <2>1, Zenon DEF Create, MoveIn, Reorder, Restore, Placing
  <2> QED BY <2>2, BeginStep
<1>3. ASSUME NEW t \in Requests, NEW k \in Items, NEW to \in {"DELETED", "ELSEWHERE"},
             Remove(t, k, to)
      PROVE  TypeInv' /\ OrderInv'
  BY <1>3, RemoveStep DEF Removing
<1>4. CASE Next
  BY <1>2, <1>3, <1>4, ListStep, SaveStep, CommitStep, AbortStep DEF Next, Handle
<1> QED BY <1>1, <1>4

(* Every reachable state has its types, and handlers nobody raced know     *)
(* the list.                                                               *)
LEMMA OrderingSafe == Spec => [](TypeInv /\ OrderInv)
<1>1. Init => TypeInv /\ OrderInv
  BY StartsRight
<1>2. TypeInv /\ OrderInv /\ [Next]_vars => TypeInv' /\ OrderInv'
  BY EveryStep
<1> QED BY <1>1, <1>2, PTL DEF Spec
-----------------------------------------------------------------------------
(* Positions are positive, handlers are where the code can be, and no more *)
(* of them commit than are let in.                                         *)
THEOREM OrderingTypeOK == Spec => []TypeOK
<1>1. TypeInv => TypeOK
  <2> SUFFICES ASSUME TypeInv PROVE TypeOK
    OBVIOUS
  <2>1. \A t \in Requests : txn[t].phase \in {"none", "list", "save", "held", "loops", "place"}
    BY DEF TypeInv, Asks, Places, Removes, NoTxn
  <2>2. writes \in 0..MaxWrites
    BY FS_CardinalityType, Gaps DEF TypeInv
  <2> QED BY <2>1, <2>2 DEF TypeInv, TypeOK, Spots, Positive
<1> QED BY <1>1, OrderingSafe, PTL

(* Neighbours named in their order are a whole gap apart after one         *)
(* rebalance, so PositionService.rebalance does not call itself for ever.  *)
THEOREM LoopsHaveCause == Spec => []LoopsOnlyIfReversed
<1>1. TypeInv /\ OrderInv => LoopsOnlyIfReversed
  <2> SUFFICES ASSUME TypeInv, OrderInv, NEW t \in Requests, txn[t].phase = "loops", t \notin stale
               PROVE  ~txn[t].ordered
    BY DEF LoopsOnlyIfReversed
  <2>1. PICK x : x = txn[t]
    OBVIOUS
  <2>2. x # NoTxn /\ x.op \in Placing /\ Knows(x) /\ x.phase = "loops"
    BY <2>1 DEF TypeInv, OrderInv, Asks, Places, Removes, NoTxn
  <2>3. ~Ordered(x)
    BY <2>2 DEF Knows
  <2> QED BY <2>1, <2>3, Zenon DEF Ordered
<1> QED BY <1>1, OrderingSafe, PTL

(* What the commit of a handler that nobody raced leaves in the list.      *)
LEMMA CommitPlaces ==
  ASSUME TypeInv, NEW t \in Requests, Commit(t), NEW x, x = txn[t], Places(x), Knows(x)
  PROVE  /\ Asked(x, pos')
         /\ \A j, k \in Here \ {x.item} : pos[j] < pos[k] => pos'[j] < pos'[k]
<1>1. /\ x.item \in Items /\ x.phase \in {"place", "held"} /\ Planned(x) \in [Items -> Positive]
      /\ pos' = [Planned(x) EXCEPT ![x.item] = IF Unchanged(x) THEN @ ELSE x.at]
  BY CommitIs
<1>2. x.op \in Placing /\ x.near \in [previous : Items \cup {None}, next : Items \cup {None}]
      /\ (x.phase = "held" => Both(x.near))
  BY <1>1 DEF Places
<1>3. PICK p : p = x.near.previous
  OBVIOUS
<1>4. PICK q : q = x.near.next
  OBVIOUS
<1>5. PICK A : A = IF x.phase = "place" THEN pos ELSE x.plan
  OBVIOUS
<1>6. p \in Here \cup {None} /\ q \in Here \cup {None} /\ Here \subseteq Items /\ x.was = pos[x.item]
  BY <1>2, <1>3, <1>4 DEF Knows, Here
<1>7. pos \in [Items -> Positive]
  BY DEF TypeInv
<1>8. /\ x.phase = "place" => x.moved = {}
      /\ x.phase = "held" => /\ x.plan = Rebalance(pos)
                             /\ x.moved = {k \in Here : x.plan[k] # pos[k]}
      /\ ~NeedsRebalance(A, p, q) /\ x.at = CalculatePosition(x.op, A, x.near)
  <2>1. CASE x.phase = "place"
    BY <1>2, <1>3, <1>4, <1>5, <2>1 DEF Knows
  <2>2. CASE x.phase = "held"
    BY <1>2, <1>3, <1>4, <1>5, <2>2 DEF Knows
  <2> QED BY <1>1, <2>1, <2>2
<1>9. /\ \A k \in Here : A[k] \in Positive /\ Planned(x)[k] = A[k]
      /\ \A j, k \in Here : pos[j] < pos[k] => A[j] < A[k]
  <2>1. CASE x.phase = "place"
    BY <1>5, <1>6, <1>7, <1>8, <2>1 DEF Planned
  <2>2. CASE x.phase = "held"
    <3>1. /\ \A k \in Here : x.plan[k] \in Positive
          /\ \A j, k \in Here : pos[j] < pos[k] => x.plan[j] + Gap <= x.plan[k]
      BY <1>7, <1>8, <2>2, RebalanceIs
    <3>2. \A k \in Here : Planned(x)[k] = x.plan[k]
      BY <1>6, <1>8, <2>2 DEF Planned
    <3>3. A = x.plan
      BY <1>5, <2>2
    <3> QED BY <3>1, <3>2, <3>3, Gaps DEF Positive
  <2> QED BY <1>1, <2>1, <2>2
<1>a. /\ ~NeedsRebalance(A, p, q) =>
           /\ p # None => A[p] < x.at
           /\ q # None /\ A[q] > MinGap => x.at < A[q]
      /\ x.near = Alone /\ ~(x.op = "reorder" /\ kind = "task") => \A k \in Here : A[k] < x.at
      /\ x.near = Alone => A = pos
  <2>1. x.near = Alone => A = pos
    BY <1>1, <1>2, <1>5 DEF Alone, Both
  <2>2. (p # None => A[p] \in Positive) /\ (q # None => A[q] \in Positive)
    BY <1>6, <1>9
  <2> QED BY <1>2, <1>3, <1>4, <1>7, <1>8, <2>1, <2>2, PositionIs
<1>b. pos'[x.item] = x.at
  <2>1. CASE Unchanged(x)
    <3>1. x.phase = "place" /\ x.at = x.was
      BY <2>1 DEF Unchanged
    <3>2. Planned(x)[x.item] = pos[x.item]
      BY <1>1, <1>8, <3>1 DEF Planned
    <3> QED BY <1>1, <1>6, <2>1, <3>1, <3>2
  <2>2. CASE ~Unchanged(x)
    BY <1>1, <2>2
  <2> QED BY <2>1, <2>2
<1>c. \A k \in Here \ {x.item} : pos'[k] = A[k]
  BY <1>1, <1>6, <1>9
<1>d. Asked(x, pos')
  BY <1>3, <1>4, <1>6, <1>8, <1>a, <1>b, <1>c DEF Asked
<1> QED BY <1>9, <1>c, <1>d

(* A handler that nobody raced leaves its item where the request asked and *)
(* every pair of other items in its order: what reorder, move and create   *)
(* of the task and section services promise, through any rebalance.        *)
THEOREM ItemsGoWhereAsked == Spec => PlacedAsAsked
<1>1. ASSUME TypeInv, OrderInv, Next, NEW t \in Requests \ stale,
             writes' # writes, txn[t] # NoTxn, txn'[t] = NoTxn
      PROVE  /\ txn[t].op \notin {"DELETED", "ELSEWHERE"} => Asked(txn[t], pos')
             /\ \A j, k \in Here \ {txn[t].item} : pos[j] < pos[k] => pos'[j] < pos'[k]
  <2>1. PICK u \in Requests : Commit(u)
    BY <1>1 DEF Next, Handle, Create, MoveIn, Reorder, Restore, Remove, Begin, ListItems,
                SaveMany, Abort
  <2>2. txn' = [txn EXCEPT ![u] = NoTxn]
    BY <2>1 DEF Commit
  <2>3. Commit(t)
    BY <1>1, <2>1, <2>2 DEF TypeInv
  <2>4. PICK x : x = txn[t]
    OBVIOUS
  <2>5. Knows(x)
    BY <1>1, <2>4 DEF OrderInv
  <2>6. CASE Places(x)
    <3>1. /\ Asked(x, pos')
          /\ \A j, k \in Here \ {x.item} : pos[j] < pos[k] => pos'[j] < pos'[k]
      BY <1>1, <2>3, <2>4, <2>5, <2>6, CommitPlaces
    <3> QED BY <2>4, <3>1
  <2>7. CASE Removes(x)
    <3>1. pos' = Planned(x)
      BY <1>1, <2>3, <2>4, <2>7, CommitIs
    <3>2. x.moved = {} /\ x.op \in {"DELETED", "ELSEWHERE"} /\ Here \subseteq Items
      BY <2>7 DEF Removes, Removing, Here
    <3>3. \A k \in Here : pos'[k] = pos[k]
      BY <3>1, <3>2 DEF Planned
    <3> QED BY <2>4, <3>2, <3>3
  <2> QED BY <1>1, <2>3, <2>4, <2>6, <2>7, CommitIs
<1>2. TypeInv /\ OrderInv /\ [Next]_vars =>
        [\A t \in Requests \ stale :
           writes' # writes /\ txn[t] # NoTxn /\ txn'[t] = NoTxn
             => /\ txn[t].op \notin {"DELETED", "ELSEWHERE"} => Asked(txn[t], pos')
                /\ \A j, k \in Here \ {txn[t].item} : pos[j] < pos[k] => pos'[j] < pos'[k]]_vars
  BY <1>1
<1> QED BY <1>2, OrderingSafe, PTL DEF Spec, PlacedAsAsked
=============================================================================
