------------------------------ MODULE Ordering ------------------------------
(***************************************************************************)
(* The order of one list: the tasks of a section, or the sections of a     *)
(* project.  An item has a position; a handler that creates, moves or      *)
(* restores one computes it from the neighbours the request names.         *)
(*                                                                         *)
(* As in Board a handler is a READ COMMITTED transaction.  One that finds  *)
(* its neighbours too close rewrites the positions of the whole list,      *)
(* whose rows it then holds, and computes again.                           *)
(*                                                                         *)
(* Positions are decimals; here they are counted in a unit so small that   *)
(* the halves a run can reach are whole numbers.                           *)
(***************************************************************************)
EXTENDS Integers, FiniteSets

CONSTANTS
  Kinds,      \* lists that are watched: of tasks, of sections
  Items,      \* 1..n, in the order of their creation
  Initial,    \* the items the list starts with
  Requests,   \* handlers that run at the same time
  MinGap,     \* MIN_POSITION_GAP
  Gap,        \* POSITION_GAP
  MaxWrites   \* bound: handlers that commit

ASSUME OrderingAssumption ==
  /\ Kinds \subseteq {"task", "section"}
  /\ IsFiniteSet(Items) /\ Items = 1..Cardinality(Items) /\ Initial \in Nat
  /\ MinGap \in Nat \ {0} /\ Gap \in Nat /\ MinGap < Gap
  /\ MaxWrites \in Nat /\ MinGap % (2^MaxWrites) = 0

VARIABLES
  kind,    \* the list watched
  place,   \* where each item is: in the list, in another one, deleted, not yet created
  pos,     \* its position
  txn,     \* what each handler has read, and wants to write
  stale,   \* handlers whose reads are older than another one's commit
  writes   \* handlers that have committed

table == <<kind, place, pos>>
vars  == <<table, txn, stale, writes>>

None  == 0      \* no neighbour was named
NoTxn == [phase |-> "none"]

Here == {k \in Items : place[k] = "HERE"}
Busy == {t \in Requests : txn[t] # NoTxn}

(* Only a task is ever in another list.                                    *)
Init ==
  /\ kind \in Kinds
  /\ place = [k \in Items |->
       IF k <= Initial THEN "HERE"
       ELSE IF k = Initial + 1 /\ kind = "task" THEN "ELSEWHERE" ELSE "ABSENT"]
  /\ pos = [k \in Items |-> IF k <= Initial THEN k * Gap ELSE Gap]
  /\ txn = [t \in Requests |-> NoTxn]
  /\ stale = {}
  /\ writes = 0
-----------------------------------------------------------------------------
(* The position services, of tasks and of sections.                        *)

Biggest(S) == CHOOSE x \in S : \A y \in S : y <= x

AppendAfter(at) == IF Here = {} THEN Gap ELSE Biggest({at[k] : k \in Here}) + Gap

(* Mutant: neighbours as far apart as a rebalance leaves them are close. *)
MutantTooClose(at, previous, next) ==
  previous # None /\ next # None /\ at[next] - at[previous] <= Gap

NeedsRebalance(at, previous, next) ==
  previous # None /\ next # None /\ at[next] - at[previous] <= MinGap

(* Mutant: the middle is not added to where the gap begins. *)
MutantBetween(at, previous, next) ==
  IF previous # None /\ next # None THEN (at[next] - at[previous]) \div 2
  ELSE IF previous # None THEN at[previous] + Gap
  ELSE IF next # None THEN Biggest({at[next] \div 2, MinGap})
  ELSE Gap

(* Mutant: the smallest gap before the next item, where there is none. *)
MutantBefore(at, previous, next) ==
  IF previous # None /\ next # None THEN at[previous] + (at[next] - at[previous]) \div 2
  ELSE IF previous # None THEN at[previous] + Gap
  ELSE IF next # None THEN at[next] - MinGap
  ELSE Gap

(* Neighbours that need a rebalance never get here, so those that are in   *)
(* the wrong order are never refused.                                      *)
Between(at, previous, next) ==
  IF previous # None /\ next # None THEN at[previous] + (at[next] - at[previous]) \div 2
  ELSE IF previous # None THEN at[previous] + Gap
  ELSE IF next # None THEN Biggest({at[next] \div 2, MinGap})
  ELSE Gap

(* Items at one position stay in the order of their creation, in which     *)
(* they are listed.                                                        *)
Rebalance(at) ==
  [k \in Here |-> Gap * Cardinality({j \in Here : at[j] < at[k] \/ (at[j] = at[k] /\ j <= k)})]
-----------------------------------------------------------------------------
(* The neighbours a request may name: any item of the list, the one it     *)
(* moves too.  A section is placed next to one neighbour only.             *)
Neighbours ==
  {n \in [previous : Here \cup {None}, next : Here \cup {None}] :
     /\ n.previous # None => n.previous # n.next
     /\ kind = "section" => None \in {n.previous, n.next}}

Alone == [previous |-> None, next |-> None]

(* A position computed from what the handler knows: next to its            *)
(* neighbours, or at the end.  Only reorderTask has no end.                *)
CalculatePosition(op, at, n) ==
  IF n # Alone \/ (op = "reorder" /\ kind = "task") THEN Between(at, n.previous, n.next)
  ELSE AppendAfter(at)

Begin(t, op, k, n) ==
  /\ txn[t] = NoTxn
  /\ writes + Cardinality(Busy) < MaxWrites
  /\ txn' = [txn EXCEPT ![t] =
       [phase |-> IF NeedsRebalance(pos, n.previous, n.next) THEN "list" ELSE "place",
        op |-> op, item |-> k, near |-> n, at |-> CalculatePosition(op, pos, n), from |-> place[k],
        was |-> pos[k],
        ordered |-> None \in {n.previous, n.next} \/ pos[n.previous] < pos[n.next],
        plan |-> <<>>, moved |-> {}]]
  /\ stale' = stale \ {t}
  /\ UNCHANGED <<table, writes>>

(* createTask and createProjectSection, at the end or next to others.      *)
Create(t, k) ==
  /\ place[k] = "ABSENT" /\ \A j \in Items : j < k => place[j] # "ABSENT"
  /\ \A u \in Busy : txn[u].item # k
  /\ \E n \in Neighbours : Begin(t, "create", k, n)

(* moveTaskToSection, from another section or within this one.             *)
MoveIn(t, k) ==
  /\ kind = "task" /\ place[k] \in {"HERE", "ELSEWHERE"}
  /\ \E n \in Neighbours : Begin(t, "move", k, n)

(* reorderTask and reorderProjectSection.                                  *)
Reorder(t, k) ==
  place[k] = "HERE" /\ \E n \in Neighbours : Begin(t, "reorder", k, n)

(* restoreProjectSection.                                                  *)
Restore(t, k) ==
  kind = "section" /\ place[k] = "DELETED" /\ Begin(t, "restore", k, Alone)

(* Deleting an item, and moving a task to another section.                 *)
Remove(t, k, to) ==
  /\ place[k] = "HERE"
  /\ to = "ELSEWHERE" => kind = "task"
  /\ txn[t] = NoTxn
  /\ writes + Cardinality(Busy) < MaxWrites
  /\ txn' = [txn EXCEPT ![t] = [phase |-> "place", op |-> to, item |-> k, plan |-> <<>>, moved |-> {}]]
  /\ stale' = stale \ {t}
  /\ UNCHANGED <<table, writes>>

Held == {t \in Requests : txn[t].phase \in {"held", "loops"}}
Locked(k) == \E t \in Held : k \in txn[t].moved

(* The list is read for the rebalance ...                                  *)
ListItems(t) ==
  LET plan == Rebalance(pos) IN
  /\ txn[t].phase = "list"
  /\ txn' = [txn EXCEPT ![t].phase = "save", ![t].plan = plan,
                        ![t].moved = {k \in Here : plan[k] # pos[k]}]
  /\ UNCHANGED <<table, stale, writes>>

(* ... its new positions are saved, and the position is computed again     *)
(* from them.  Where they still need a rebalance the handler calls itself, *)
(* with the same outcome, for ever.                                        *)
SaveMany(t) ==
  LET x == txn[t]
      n == x.near
      found == {n.previous, n.next} \subseteq (DOMAIN x.plan) \cap Here
  IN
  /\ x.phase = "save"
  /\ \A k \in x.moved : ~Locked(k)
  /\ txn' = [txn EXCEPT ![t] =
       IF ~found THEN NoTxn
       ELSE IF NeedsRebalance(x.plan, n.previous, n.next) THEN [x EXCEPT !.phase = "loops"]
       ELSE [x EXCEPT !.phase = "held", !.at = CalculatePosition(x.op, x.plan, n)]]
  /\ UNCHANGED <<table, stale, writes>>

Unchanged(x) == x.phase = "place" /\ x.from # "ABSENT" /\ x.at = x.was

(* The save writes the columns that differ from what was read, and only a  *)
(* move writes where the item is.                                          *)
Commit(t) ==
  LET x == txn[t]
      planned == [k \in Items |-> IF k \in x.moved THEN x.plan[k] ELSE pos[k]]
      removal == x.op \in {"DELETED", "ELSEWHERE"}
  IN
  /\ x.phase \in {"place", "held"}
  /\ \A u \in Held \ {t} : x.item \notin txn[u].moved
  /\ pos' = IF removal THEN planned ELSE [planned EXCEPT ![x.item] = IF Unchanged(x) THEN @ ELSE x.at]
  /\ place' = [place EXCEPT ![x.item] =
       IF removal THEN x.op ELSE IF x.from # "HERE" THEN "HERE" ELSE @]
  /\ txn' = [txn EXCEPT ![t] = NoTxn]
  /\ stale' = (stale \cup Busy) \ {t}
  /\ writes' = writes + 1
  /\ UNCHANGED kind

Abort(t) ==
  /\ txn[t].phase \in {"list", "place", "save", "held"}
  /\ txn' = [txn EXCEPT ![t] = NoTxn]
  /\ UNCHANGED <<table, stale, writes>>

Handle(t) ==
  \/ \E k \in Items :
       \/ Create(t, k)
       \/ MoveIn(t, k)
       \/ Reorder(t, k)
       \/ Restore(t, k)
       \/ \E to \in {"DELETED", "ELSEWHERE"} : Remove(t, k, to)
  \/ ListItems(t)
  \/ SaveMany(t)
  \/ Commit(t)
  \/ Abort(t)

Next == \E t \in Requests : Handle(t)

Spec == Init /\ [][Next]_vars
-----------------------------------------------------------------------------
(* Positions are positive, and every handler is where the code can be.     *)
TypeOK ==
  /\ kind \in {"task", "section"}
  /\ place \in [Items -> {"ABSENT", "HERE", "ELSEWHERE", "DELETED"}]
  /\ pos \in [Items -> Nat \ {0}]
  /\ \A t \in Requests : txn[t].phase \in {"none", "list", "save", "held", "loops", "place"}
  /\ stale \subseteq Requests
  /\ writes \in 0..MaxWrites

Asked(x, at) ==
  LET p == x.near.previous
      n == x.near.next
  IN
  /\ p \notin {None, x.item} => at[p] < at[x.item]
  /\ n \notin {None, x.item} /\ at[n] > MinGap => at[x.item] < at[n]
  /\ x.near = Alone /\ ~(x.op = "reorder" /\ kind = "task") =>
       \A k \in Here \ {x.item} : at[k] < at[x.item]

(* A handler that nobody raced leaves its item where the request asked,    *)
(* after, before or between its neighbours or at the end, and every pair   *)
(* of other items in the order it had, whatever it rebalanced.  Nothing is *)
(* before an item at the smallest position.                                *)
PlacedAsAsked ==
  [][\A t \in Requests \ stale :
       writes' # writes /\ txn[t] # NoTxn /\ txn'[t] = NoTxn
         => /\ txn[t].op \notin {"DELETED", "ELSEWHERE"} => Asked(txn[t], pos')
            /\ \A j, k \in Here \ {txn[t].item} : pos[j] < pos[k] => pos'[j] < pos'[k]]_vars

(* One rebalance is enough for neighbours named in their order: only a     *)
(* request that names them the other way round, or at one position, calls  *)
(* itself without end and keeps the rows of its list.                      *)
LoopsOnlyIfReversed ==
  \A t \in Requests : txn[t].phase = "loops" /\ t \notin stale => ~txn[t].ordered
=============================================================================
