--------------------------- MODULE ConsumerProofs ---------------------------
(***************************************************************************)
(* Proofs about the consumer, for every set of messages and processes,     *)
(* every prefetch and limit of attempts, and any number of faults.         *)
(*                                                                         *)
(* A copy carries in its header how often it has failed.  Two copies of    *)
(* one message fail on their own, so the header of each is a lower bound   *)
(* on the failed passes over the message (HeadersCount); that, and what a  *)
(* handler has behind it at each of its places (Passed), is why a message  *)
(* is marked and dead-lettered only with cause, and why its last copy      *)
(* does not go before.                                                     *)
(*                                                                         *)
(* How often the listeners may be called is counted at the end: every      *)
(* chance they still have is named once (Chances), and the passes and the  *)
(* chances of a message together are paid for by what was published of it  *)
(* and came back.                                                          *)
(***************************************************************************)
EXTENDS Consumer, FiniteSetTheorems, TLAPS

Busied == {s \in Slots : pc[s] # "idle"}

HeadersCount ==
  /\ \A c \in Copy : ready[c] > 0 \/ retrying[c] > 0 => fails[c.msg] >= c.tries
  /\ \A s \in Busied : fails[held[s].msg] >= held[s].tries

(* What a handler at each place has behind it. *)
Passed ==
  \A s \in Busied :
    /\ pc[s] \in {"mark", "ack"} => done[held[s].msg] > 0
    /\ pc[s] \in {"failing", "forward"} => fails[held[s].msg] >= held[s].tries + 1

IInv == TypeOK /\ HeadersCount /\ Passed /\ SettledWithCause /\ NothingLost
-----------------------------------------------------------------------------
(* Some facts of the types, where they are needed at once. *)
LEMMA Types ==
  ASSUME TypeOK
  PROVE  /\ ready \in [Copy -> Nat] /\ retrying \in [Copy -> Nat] /\ dead \in [Msgs -> Nat]
         /\ \A s \in Busied : held[s] \in Copy /\ held[s].msg \in Msgs /\ held[s].tries \in Tries
         /\ \A c \in Copy : c.msg \in Msgs /\ c.tries \in Tries /\ c.tries \in Nat
         /\ NoCopy \notin Copy
         /\ NoRow \in Row
         /\ \A s \in Slots : Of(s) \in Workers
         /\ MaxAttempts \in Nat /\ MaxAttempts > 0
  BY IdsAssumption, LimitsAssumption
  DEF TypeOK, Busied, Copy, NoCopy, NoRow, Row, Slots, Of, Tries

(* A process has finitely many slots. *)
LEMMA SlotsOfFinite ==
  ASSUME NEW w \in Workers
  PROVE  IsFiniteSet({s \in Slots : Of(s) = w})
<1> DEFINE S == {s \in Slots : Of(s) = w}
           f == [n \in 1 .. Prefetch[w] |-> <<w, n>>]
<1>1. f \in Surjection(1 .. Prefetch[w], S)
  <2>1. f \in [1 .. Prefetch[w] -> S]
    BY DEF Slots, Of
  <2>2. \A s \in S : \E n \in 1 .. Prefetch[w] : f[n] = s
    BY DEF Slots, Of
  <2> QED BY <2>1, <2>2 DEF Surjection
<1>2. IsFiniteSet(1 .. Prefetch[w])
  BY FS_Interval, LimitsAssumption
<1> HIDE DEF S, f
<1>3. IsFiniteSet(S)
  BY <1>1, <1>2, FS_Surjection
<1> QED BY <1>3 DEF S

(* What the broker puts back: the unacknowledged copies, and no others.    *)
LEMMA RequeuePutsBack ==
  ASSUME TypeOK, NEW w \in Workers, Requeue(w)
  PROVE  /\ ready' \in [Copy -> Nat] /\ repeats' \in [Msgs -> Nat]
         /\ \A c \in Copy : ready'[c] >= ready[c]
         /\ \A s \in Unacked(w) : ready'[held[s]] > 0
         /\ \A c \in Copy : ready'[c] > 0 => ready[c] > 0 \/ \E s \in Unacked(w) : held[s] = c
<1> DEFINE Of1(c) == {s \in Unacked(w) : held[s] = c}
           Of2(m) == {s \in Unacked(w) : held[s].msg = m}
<1>1. IsFiniteSet(Unacked(w))
  <2>1. Unacked(w) \in SUBSET {s \in Slots : Of(s) = w}
    BY DEF Unacked
  <2> QED BY <2>1, SlotsOfFinite, FS_Subset
<1>2. ASSUME NEW c
      PROVE  IsFiniteSet(Of1(c)) /\ Cardinality(Of1(c)) \in Nat /\ (Cardinality(Of1(c)) = 0 <=> Of1(c) = {})
  <2>1. Of1(c) \in SUBSET Unacked(w)
    OBVIOUS
  <2>2. IsFiniteSet(Of1(c))
    BY <1>1, <2>1, FS_Subset
  <2> QED BY <2>2, FS_CardinalityType, FS_EmptySet
<1>3. ASSUME NEW m PROVE Cardinality(Of2(m)) \in Nat
  <2>1. Of2(m) \in SUBSET Unacked(w)
    OBVIOUS
  <2>2. IsFiniteSet(Of2(m))
    BY <1>1, <2>1, FS_Subset
  <2> QED BY <2>2, FS_CardinalityType
<1>4. /\ ready' = [c \in Copy |-> ready[c] + Cardinality(Of1(c))]
      /\ repeats' = [m \in Msgs |-> repeats[m] + Cardinality(Of2(m))]
      /\ ready \in [Copy -> Nat] /\ repeats \in [Msgs -> Nat]
  BY DEF Requeue, TypeOK
<1>5. \A s \in Unacked(w) : held[s] \in Copy /\ s \in Of1(held[s])
  BY Types DEF Unacked, Busied
<1> HIDE DEF Of1, Of2
<1>6. ready' \in [Copy -> Nat] /\ repeats' \in [Msgs -> Nat]
  BY <1>2, <1>3, <1>4
<1>7. ASSUME NEW c \in Copy
      PROVE  /\ ready'[c] >= ready[c]
             /\ Of1(c) # {} => ready'[c] > 0
             /\ ready'[c] > 0 => ready[c] > 0 \/ Of1(c) # {}
  <2>1. ready'[c] = ready[c] + Cardinality(Of1(c)) /\ ready[c] \in Nat
    BY <1>4
  <2> QED BY <1>2, <2>1
<1> QED BY <1>5, <1>6, <1>7 DEF Of1
-----------------------------------------------------------------------------
(* Queues that only grow, by copies whose headers count. *)
QueuesGrow ==
  /\ ready' \in [Copy -> Nat] /\ retrying' \in [Copy -> Nat] /\ dead' \in [Msgs -> Nat]
  /\ \A c \in Copy : ready'[c] >= ready[c] /\ retrying'[c] >= retrying[c]
  /\ \A m \in Msgs : dead'[m] >= dead[m]
  /\ \A c \in Copy : ready'[c] > 0 \/ retrying'[c] > 0 =>
       ready[c] > 0 \/ retrying[c] > 0 \/ fails[c.msg] >= c.tries
  /\ \A m \in Msgs : dead'[m] > 0 => dead[m] > 0 \/ fails[m] >= MaxAttempts

(* Where a copy of m has got to, when it is not in a handler's hands. *)
Accounted(m) ==
  \/ done'[m] > 0 \/ dead'[m] > 0
  \/ \E c \in Copy : c.msg = m /\ ready'[c] + retrying'[c] > 0

(* Nothing starts for nothing. *)
LEMMA InitInv == Init => IInv
<1> SUFFICES ASSUME Init PROVE IInv
  OBVIOUS
<1> USE IdsAssumption, LimitsAssumption DEF Init
<1>1. \A s \in Slots : pc[s] = "idle" /\ held[s] = NoCopy
  OBVIOUS
<1>2. TypeOK
  BY DEF TypeOK, NoRow, Row, NoCopy, PC
<1>3. HeadersCount /\ Passed /\ SettledWithCause /\ NothingLost
  BY <1>1 DEF HeadersCount, Passed, Busied, SettledWithCause, NothingLost, NoRow
<1> QED BY <1>2, <1>3 DEF IInv

(* A handler that goes on, with its copy, keeps the invariant when it has  *)
(* behind it what its new place asks for.                                  *)
LEMMA GoesOnInv ==
  ASSUME IInv, NEW s \in Slots, pc[s] # "idle", NEW l \in PC \ {"idle"},
         pc' = [pc EXCEPT ![s] = l], UNCHANGED <<held, queues, link, published>>,
         found' \in [Slots -> Row],
         done' \in [Msgs -> Nat], fails' \in [Msgs -> Nat], repeats' \in [Msgs -> Nat],
         faults' \in 0 .. MaxFaults,
         \A m \in Msgs : done'[m] >= done[m] /\ fails'[m] >= fails[m],
         l \in {"mark", "ack"} => done'[held[s].msg] > 0,
         l \in {"failing", "forward"} => fails'[held[s].msg] >= held[s].tries + 1,
         inbox' \in [Msgs -> Row],
         \A m \in Msgs : inbox'[m].status = "PROCESSED" => done'[m] > 0
  PROVE  IInv'
<1> USE DEF IInv, queues
<1>0. /\ TypeOK /\ done \in [Msgs -> Nat] /\ fails \in [Msgs -> Nat] /\ pc \in [Slots -> PC]
      /\ \A m \in Msgs : done[m] \in Nat /\ done'[m] \in Nat /\ fails[m] \in Nat /\ fails'[m] \in Nat
      /\ \A r \in Busied : held[r].msg \in Msgs /\ held[r].tries \in Nat
      /\ \A c \in Copy : c.msg \in Msgs /\ c.tries \in Nat
  BY Types DEF TypeOK, Tries
<1>1. TypeOK'
  BY <1>0 DEF TypeOK
<1>2. Busied' = Busied /\ s \in Busied /\ \A r \in Slots \ {s} : pc'[r] = pc[r]
  BY <1>0 DEF Busied
<1>3. HeadersCount'
  <2>1. ASSUME NEW c \in Copy, ready[c] > 0 \/ retrying[c] > 0 PROVE fails'[c.msg] >= c.tries
    <3>1. fails[c.msg] >= c.tries
      BY <2>1 DEF HeadersCount
    <3> QED BY <1>0, <3>1
  <2>2. ASSUME NEW r \in Busied PROVE fails'[held[r].msg] >= held[r].tries
    <3>1. fails[held[r].msg] >= held[r].tries
      BY DEF HeadersCount
    <3> QED BY <1>0, <3>1
  <2> QED BY <1>2, <2>1, <2>2 DEF HeadersCount
<1>4. Passed'
  <2>1. ASSUME NEW r \in Busied \ {s}
        PROVE  /\ pc[r] \in {"mark", "ack"} => done'[held[r].msg] > 0
               /\ pc[r] \in {"failing", "forward"} => fails'[held[r].msg] >= held[r].tries + 1
    BY <1>0, <2>1 DEF Passed
  <2>2. pc'[s] = l
    BY <1>0
  <2> QED BY <1>2, <2>1, <2>2 DEF Passed, Busied
<1>5. SettledWithCause'
  <2>1. \A m \in Msgs : dead[m] > 0 => fails'[m] >= MaxAttempts
    BY <1>0, Types DEF SettledWithCause
  <2> QED BY <2>1 DEF SettledWithCause
<1>6. NothingLost'
  <2>1. \A m \in Msgs : Alive(m) => Alive(m)'
    BY <1>2 DEF Alive, Handles, Connected, Busied
  <2>2. \A m \in Msgs : done[m] > 0 => done'[m] > 0
    BY <1>0
  <2> QED BY <2>1, <2>2 DEF NothingLost
<1> QED BY <1>1, <1>3, <1>4, <1>5, <1>6

(* A handler that lets go of its copy keeps the invariant when the message *)
(* has been handled, dead-lettered, or is in a queue.                      *)
LEMMA LetsGoInv ==
  ASSUME IInv, NEW s \in Slots, pc[s] # "idle", Finish(s), QueuesGrow, Accounted(held[s].msg),
         UNCHANGED <<inbox, link, history, faults>>
  PROVE  IInv'
<1> USE DEF IInv, history
<1>0. /\ TypeOK /\ done \in [Msgs -> Nat] /\ fails \in [Msgs -> Nat]
      /\ pc \in [Slots -> PC] /\ held \in [Slots -> Copy \cup {NoCopy}]
      /\ ready \in [Copy -> Nat] /\ retrying \in [Copy -> Nat] /\ dead \in [Msgs -> Nat]
      /\ pc' = [pc EXCEPT ![s] = "idle"] /\ held' = [held EXCEPT ![s] = NoCopy] /\ found' = found
  BY DEF TypeOK, Finish
<1>1. TypeOK'
  BY <1>0 DEF TypeOK, QueuesGrow, PC
<1>2. /\ Busied' = Busied \ {s}
      /\ \A r \in Slots \ {s} : pc'[r] = pc[r] /\ held'[r] = held[r]
  BY <1>0 DEF Busied
<1>3. HeadersCount'
  BY <1>2 DEF HeadersCount, QueuesGrow, Busied
<1>4. Passed'
  BY <1>2 DEF Passed, Busied
<1>5. SettledWithCause'
  BY DEF SettledWithCause, QueuesGrow
<1>6. NothingLost'
  <2> SUFFICES ASSUME NEW m \in Msgs, published[m] > 0
               PROVE  Alive(m)' \/ done[m] > 0 \/ dead'[m] > 0
    BY DEF NothingLost
  <2>1. CASE m = held[s].msg
    BY <2>1 DEF Accounted, Alive
  <2>2. CASE m # held[s].msg
    <3>1. Alive(m) \/ done[m] > 0 \/ dead[m] > 0
      BY DEF NothingLost
    <3>2. ASSUME NEW c \in Copy, c.msg = m, ready[c] + retrying[c] > 0 PROVE Alive(m)'
      <4>1. ready'[c] + retrying'[c] > 0
        <5>1. /\ ready[c] \in Nat /\ retrying[c] \in Nat /\ ready'[c] \in Nat /\ retrying'[c] \in Nat
              /\ ready'[c] >= ready[c] /\ retrying'[c] >= retrying[c]
          BY <1>0 DEF QueuesGrow
        <5> QED BY <3>2, <5>1
      <4> QED BY <3>2, <4>1 DEF Alive
    <3>3. ASSUME NEW r \in Slots, Handles(r, m), Connected(r) PROVE Alive(m)'
      BY <1>2, <2>2, <3>3 DEF Alive, Handles, Connected
    <3>4. dead[m] > 0 => dead'[m] > 0
      <4>1. dead[m] \in Nat /\ dead'[m] \in Nat /\ dead'[m] >= dead[m]
        BY <1>0 DEF QueuesGrow
      <4> QED BY <4>1
    <3> QED BY <3>1, <3>2, <3>3, <3>4 DEF Alive
  <2> QED BY <2>1, <2>2
<1> QED BY <1>1, <1>3, <1>4, <1>5, <1>6

(* A process that exits loses nothing: the broker has, and puts back, what *)
(* was not acknowledged.                                                   *)
LEMMA ExitInv ==
  ASSUME IInv, NEW w \in Workers, Exit(w), faults' \in 0 .. MaxFaults,
         UNCHANGED <<published, done, fails>>,
         retrying' \in [Copy -> Nat], dead' \in [Msgs -> Nat],
         \A c \in Copy : retrying'[c] >= retrying[c],
         \A m \in Msgs : dead'[m] >= dead[m],
         \A c \in Copy : retrying'[c] > 0 => retrying[c] > 0 \/ fails[c.msg] >= c.tries,
         \A m \in Msgs : dead'[m] > 0 => dead[m] > 0 \/ fails[m] >= MaxAttempts
  PROVE  IInv'
<1> USE DEF IInv
<1>0. /\ TypeOK /\ Requeue(w)
      /\ ready \in [Copy -> Nat] /\ retrying \in [Copy -> Nat] /\ dead \in [Msgs -> Nat]
      /\ pc' = [s \in Slots |-> IF Of(s) = w THEN "idle" ELSE pc[s]]
      /\ held' = [s \in Slots |-> IF Of(s) = w THEN NoCopy ELSE held[s]]
      /\ found' = [s \in Slots |-> IF Of(s) = w THEN NoRow ELSE found[s]]
      /\ link' = [link EXCEPT ![w] = "down"] /\ link \in [Workers -> {"open", "closed", "down"}]
  BY DEF TypeOK, Exit
<1>1. PICK id \in {w, Gone} :
        inbox' = [m \in Msgs |-> IF inbox[m].lockedBy = w
                                 THEN [inbox[m] EXCEPT !.lockedBy = id] ELSE inbox[m]]
  BY DEF Exit
<1>2. /\ inbox' \in [Msgs -> Row]
      /\ \A m \in Msgs : inbox'[m].status = inbox[m].status
  <2>1. id \in Workers \cup {NoWorker, Gone}
    OBVIOUS
  <2>2. ASSUME NEW m \in Msgs PROVE inbox'[m] \in Row /\ inbox'[m].status = inbox[m].status
    <3>1. inbox[m] \in Row /\ inbox'[m] \in {inbox[m], [inbox[m] EXCEPT !.lockedBy = id]}
      BY <1>1 DEF TypeOK
    <3> QED BY <2>1, <3>1 DEF Row
  <2>3. inbox' \in [Msgs -> Row]
    BY <1>1, <2>2
  <2> QED BY <2>2, <2>3
<1>3. /\ ready' \in [Copy -> Nat] /\ repeats' \in [Msgs -> Nat]
      /\ \A c \in Copy : ready'[c] >= ready[c]
      /\ \A s \in Unacked(w) : ready'[held[s]] > 0
      /\ \A c \in Copy : ready'[c] > 0 => ready[c] > 0 \/ \E s \in Unacked(w) : held[s] = c
  BY <1>0, RequeuePutsBack
<1>4. TypeOK'
  <2>1. pc' \in [Slots -> PC] /\ held' \in [Slots -> Copy \cup {NoCopy}] /\ found' \in [Slots -> Row]
    BY <1>0, Types DEF TypeOK, PC
  <2>2. \A s \in Slots : pc'[s] = "idle" <=> held'[s] = NoCopy
    BY <1>0 DEF TypeOK
  <2>3. link' \in [Workers -> {"open", "closed", "down"}]
    BY <1>0
  <2> QED BY <1>2, <1>3, <2>1, <2>2, <2>3 DEF TypeOK
<1>5. /\ Unacked(w) \subseteq Busied
      /\ \A s \in Busied' : s \in Busied /\ Of(s) # w /\ pc'[s] = pc[s] /\ held'[s] = held[s]
      /\ \A s \in Slots : Of(s) # w => pc'[s] = pc[s] /\ held'[s] = held[s]
  BY <1>0 DEF Busied, Unacked
<1>6. HeadersCount'
  BY <1>3, <1>5 DEF HeadersCount
<1>7. Passed'
  BY <1>5 DEF Passed
<1>8. SettledWithCause'
  BY <1>2 DEF SettledWithCause
<1>9. NothingLost'
  <2> SUFFICES ASSUME NEW m \in Msgs, published[m] > 0
               PROVE  Alive(m)' \/ done[m] > 0 \/ dead'[m] > 0
    BY DEF NothingLost
  <2>1. Alive(m) \/ done[m] > 0 \/ dead[m] > 0
    BY DEF NothingLost
  <2>2. ASSUME NEW c \in Copy, c.msg = m, ready[c] + retrying[c] > 0 PROVE Alive(m)'
    <3>1. ready'[c] + retrying'[c] > 0
      <4>1. /\ ready[c] \in Nat /\ retrying[c] \in Nat /\ ready'[c] \in Nat /\ retrying'[c] \in Nat
            /\ ready'[c] >= ready[c] /\ retrying'[c] >= retrying[c]
        BY <1>0, <1>3
      <4> QED BY <2>2, <4>1
    <3> QED BY <2>2, <3>1 DEF Alive
  <2>3. ASSUME NEW s \in Slots, Handles(s, m), Connected(s) PROVE Alive(m)'
    <3>1. CASE Of(s) = w
      <4>1. s \in Unacked(w) /\ held[s] \in Copy
        BY <2>3, <3>1, <1>5, Types DEF Unacked, Handles, Connected
      <4>2. ready'[held[s]] > 0 /\ ready'[held[s]] \in Nat /\ retrying'[held[s]] \in Nat
        BY <1>3, <4>1
      <4>3. ready'[held[s]] + retrying'[held[s]] > 0
        BY <4>2
      <4> QED BY <2>3, <4>1, <4>3 DEF Alive, Handles
    <3>2. CASE Of(s) # w
      BY <1>0, <1>5, <2>3, <3>2 DEF Alive, Handles, Connected
    <3> QED BY <3>1, <3>2
  <2>4. dead[m] > 0 => dead'[m] > 0
    <3>1. dead[m] \in Nat /\ dead'[m] \in Nat /\ dead'[m] >= dead[m]
      BY <1>0
    <3> QED BY <3>1
  <2> QED BY <2>1, <2>2, <2>3, <2>4 DEF Alive
<1> QED BY <1>4, <1>6, <1>7, <1>8, <1>9
-----------------------------------------------------------------------------
(* A copy that has failed goes on to a queue with its count.               *)
LEMMA ResendGrows ==
  ASSUME TypeOK, NEW c \in Copy, fails[c.msg] >= c.tries + 1, Resend(c)
  PROVE  /\ retrying' \in [Copy -> Nat] /\ dead' \in [Msgs -> Nat]
         /\ \A x \in Copy : retrying'[x] >= retrying[x]
         /\ \A m \in Msgs : dead'[m] >= dead[m]
         /\ \A x \in Copy : retrying'[x] > 0 => retrying[x] > 0 \/ fails[x.msg] >= x.tries
         /\ \A m \in Msgs : dead'[m] > 0 => dead[m] > 0 \/ fails[m] >= MaxAttempts
         /\ dead'[c.msg] > 0 \/ \E x \in Copy : x.msg = c.msg /\ retrying'[x] > 0
<1>0. /\ retrying \in [Copy -> Nat] /\ dead \in [Msgs -> Nat]
      /\ c.msg \in Msgs /\ c.tries \in Nat /\ fails[c.msg] \in Nat
      /\ MaxAttempts \in Nat
  BY Types DEF TypeOK
<1>1. CASE c.tries + 1 >= MaxAttempts
  <2>1. dead' = [dead EXCEPT ![c.msg] = @ + 1] /\ retrying' = retrying
    BY <1>1 DEF Resend
  <2>2. fails[c.msg] >= MaxAttempts
    BY <1>0, <1>1
  <2>3. \A m \in Msgs : dead'[m] = IF m = c.msg THEN dead[m] + 1 ELSE dead[m]
    BY <1>0, <2>1
  <2> QED BY <1>0, <2>1, <2>2, <2>3
<1>2. CASE ~(c.tries + 1 >= MaxAttempts)
  <2> DEFINE d == [c EXCEPT !.tries = @ + 1]
  <2>1. retrying' = [retrying EXCEPT ![d] = @ + 1] /\ dead' = dead
    BY <1>2 DEF Resend, Put
  <2>2. d \in Copy /\ d.msg = c.msg /\ d.tries = c.tries + 1
    BY <1>0, <1>2 DEF Copy, Tries
  <2> HIDE DEF d
  <2>3. \A x \in Copy : retrying'[x] = IF x = d THEN retrying[x] + 1 ELSE retrying[x]
    BY <1>0, <2>1, <2>2
  <2>4. \A x \in Copy : retrying[x] \in Nat
    BY <1>0
  <2>5. retrying'[d] > 0
    BY <2>2, <2>3, <2>4
  <2> QED BY <1>0, <2>1, <2>2, <2>3, <2>4, <2>5
<1> QED BY <1>1, <1>2

(* handleMessage, one place after the other.                               *)
LEMMA ClaimInv ==
  ASSUME IInv, NEW s \in Slots, Insert(s) \/ Overwrite(s)
  PROVE  IInv'
<1> DEFINE m == held[s].msg
<1>0. /\ TypeOK /\ pc[s] # "idle" /\ m \in Msgs /\ Of(s) \in Workers /\ inbox[m] \in Row
      /\ inbox \in [Msgs -> Row] /\ NoRow \in Row /\ found \in [Slots -> Row]
  BY Types DEF IInv, TypeOK, Insert, Overwrite, Busied
<1>1. PICK row \in Row :
        /\ Claim(s, row)
        /\ row.status = "PROCESSED" => inbox[m].status = "PROCESSED"
  <2>1. CASE Insert(s)
    <3> DEFINE row == [NoRow EXCEPT !.status = "PROCESSING", !.lock = "fresh", !.lockedBy = Of(s)]
    <3>1. row \in Row /\ row.status = "PROCESSING"
      BY <1>0 DEF Row, NoRow
    <3> QED BY <2>1, <3>1 DEF Insert
  <2>2. CASE Overwrite(s)
    <3> DEFINE row == [inbox[m] EXCEPT
          !.status   = IF found[s].status = "PROCESSING" THEN @ ELSE "PROCESSING",
          !.lockedBy = IF found[s].lockedBy = Of(s) THEN @ ELSE Of(s),
          !.lock     = "fresh"]
    <3>1. row \in Row /\ (row.status = "PROCESSED" => inbox[m].status = "PROCESSED")
      BY <1>0 DEF Row
    <3> QED BY <2>2, <3>1 DEF Overwrite
  <2> QED BY <2>1, <2>2
<1>2. /\ pc' = [pc EXCEPT ![s] = "work"] /\ found' = [found EXCEPT ![s] = NoRow]
      /\ inbox' = [inbox EXCEPT ![m] = row]
      /\ UNCHANGED <<queues, held, link, history, faults>>
  BY <1>1 DEF Claim
<1>3. \A x \in Msgs : inbox'[x].status = "PROCESSED" => done'[x] > 0
  BY <1>0, <1>1, <1>2 DEF IInv, SettledWithCause, history
<1>4. inbox' \in [Msgs -> Row] /\ found' \in [Slots -> Row]
  BY <1>0, <1>1, <1>2
<1>5. /\ done' = done /\ fails' = fails /\ \A x \in Msgs : done[x] >= done[x] /\ fails[x] >= fails[x]
  BY <1>2 DEF history, IInv, TypeOK
<1> HIDE DEF m
<1> QED BY <1>0, <1>2, <1>3, <1>4, <1>5, GoesOnInv DEF IInv, TypeOK, history, PC

(* The claim goes on when no fresh lock of another process is in the way. *)
LEMMA FindsFreeInv ==
  ASSUME IInv, NEW s \in Slots, FindsFree(s)
  PROVE  IInv'
<1>0. /\ pc[s] # "idle" /\ held[s].msg \in Msgs /\ inbox[held[s].msg] \in Row
      /\ done \in [Msgs -> Nat] /\ fails \in [Msgs -> Nat] /\ found \in [Slots -> Row]
  BY Types DEF IInv, TypeOK, FindsFree, Busied
<1>1. PICK l \in {"insert", "overwrite"} : pc' = [pc EXCEPT ![s] = l]
  BY DEF FindsFree
<1>2. found' \in [Slots -> Row]
  BY <1>0 DEF FindsFree
<1>3. UNCHANGED <<inbox, queues, held, link, history, faults>>
  BY DEF FindsFree
<1>4. /\ \A x \in Msgs : done[x] >= done[x] /\ fails[x] >= fails[x]
      /\ \A x \in Msgs : inbox[x].status = "PROCESSED" => done[x] > 0
  BY <1>0 DEF IInv, SettledWithCause
<1> QED BY <1>0, <1>1, <1>2, <1>3, <1>4, GoesOnInv DEF IInv, TypeOK, history, PC

(* The listeners return: the pass that a marked row needs is behind. *)
LEMMA ListenersInv ==
  ASSUME IInv, NEW s \in Slots, ListenersReturn(s)
  PROVE  IInv'
<1> DEFINE m == held[s].msg
<1>0. /\ pc[s] # "idle" /\ m \in Msgs /\ done \in [Msgs -> Nat] /\ fails \in [Msgs -> Nat]
      /\ pc' = [pc EXCEPT ![s] = "mark"] /\ done' = [done EXCEPT ![m] = @ + 1]
      /\ UNCHANGED <<held, found, inbox, queues, link, published, fails, repeats, faults>>
  BY Types DEF IInv, TypeOK, ListenersReturn, Goto, Busied
<1>1. /\ done' \in [Msgs -> Nat]
      /\ \A x \in Msgs : done'[x] >= done[x] /\ fails[x] >= fails[x]
      /\ done'[m] > 0
  BY <1>0
<1>2. \A x \in Msgs : inbox[x].status = "PROCESSED" => done'[x] > 0
  BY <1>0, <1>1 DEF IInv, SettledWithCause
<1> HIDE DEF m
<1> QED BY <1>0, <1>1, <1>2, GoesOnInv DEF IInv, TypeOK, PC, m

(* A pass that fails is counted, whatever it failed of.                    *)
LEMMA FailInv ==
  ASSUME IInv, NEW s \in Slots, pc[s] # "idle", Fail(s),
         repeats' \in [Msgs -> Nat], faults' \in 0 .. MaxFaults,
         UNCHANGED <<inbox, queues, link, published, done>>
  PROVE  IInv'
<1> DEFINE m == held[s].msg
<1>0. /\ m \in Msgs /\ held[s].tries \in Nat /\ done \in [Msgs -> Nat] /\ fails \in [Msgs -> Nat]
      /\ pc' = [pc EXCEPT ![s] = "failing"] /\ fails' = [fails EXCEPT ![m] = @ + 1]
      /\ fails[m] >= held[s].tries /\ UNCHANGED <<held, found>>
  BY Types DEF IInv, TypeOK, Fail, Goto, Busied, HeadersCount
<1>1. /\ fails' \in [Msgs -> Nat]
      /\ \A x \in Msgs : fails'[x] >= fails[x] /\ done[x] >= done[x]
      /\ fails'[m] >= held[s].tries + 1
  BY <1>0
<1>2. \A x \in Msgs : inbox[x].status = "PROCESSED" => done[x] > 0
  BY DEF IInv, SettledWithCause
<1> HIDE DEF m
<1> QED BY <1>0, <1>1, <1>2, GoesOnInv DEF IInv, TypeOK, PC, m

(* Marking needs what it says, and sets nothing of a row another holds.    *)
LEMMA MarkInv ==
  ASSUME IInv, NEW s \in Slots, MarkProcessed(s) \/ MarkFailed(s)
  PROVE  IInv'
<1> DEFINE m == held[s].msg
<1>0. /\ TypeOK /\ pc[s] \in {"mark", "failing"} /\ m \in Msgs /\ held[s].tries \in Nat
      /\ inbox[m] \in Row /\ inbox \in [Msgs -> Row] /\ fails[m] \in Nat
      /\ done \in [Msgs -> Nat] /\ fails \in [Msgs -> Nat]
      /\ UNCHANGED <<held, found, queues, link, history, faults>>
  BY Types DEF IInv, TypeOK, MarkProcessed, MarkFailed, Goto, Busied
<1>1. PICK row \in Row, l \in {"ack", "forward"} :
        /\ UpdateHeld(s, row) /\ pc' = [pc EXCEPT ![s] = l]
        /\ row.status = "PROCESSED" \/ l = "ack" => done[m] > 0
        /\ l = "forward" => fails[m] >= held[s].tries + 1
  <2>1. CASE MarkProcessed(s)
    <3> DEFINE row == [inbox[m] EXCEPT !.status = "PROCESSED", !.lock = "none",
                                       !.lockedBy = NoWorker]
    <3>1. row \in Row
      BY <1>0 DEF Row
    <3>2. done[m] > 0
      BY <1>0, <2>1 DEF IInv, Passed, Busied, MarkProcessed
    <3> QED BY <2>1, <3>1, <3>2 DEF MarkProcessed, Goto
  <2>2. CASE MarkFailed(s)
    <3> DEFINE row == [status |-> "FAILED", lock |-> "none", lockedBy |-> NoWorker,
                       attemptCount |-> held[s].tries + 1]
    <3>1. row \in Row /\ row.status = "FAILED"
      BY <1>0 DEF Row
    <3>2. fails[m] >= held[s].tries + 1
      BY <1>0, <2>2 DEF IInv, Passed, Busied, MarkFailed
    <3> QED BY <2>2, <3>1, <3>2 DEF MarkFailed, Goto
  <2> QED BY <2>1, <2>2
<1>2. /\ inbox' \in [Msgs -> Row]
      /\ \A x \in Msgs : inbox'[x].status = "PROCESSED" => done[x] > 0
  <2>1. inbox' = inbox \/ inbox' = [inbox EXCEPT ![m] = row]
    BY <1>1 DEF UpdateHeld
  <2> QED BY <1>0, <1>1, <2>1 DEF IInv, SettledWithCause
<1>3. \A x \in Msgs : fails[x] >= fails[x] /\ done[x] >= done[x]
  BY <1>0
<1> HIDE DEF m
<1> QED BY <1>0, <1>1, <1>2, <1>3, GoesOnInv DEF IInv, TypeOK, history, PC, m

(* A copy that is let go.                                                  *)
LEMMA AnswerInv ==
  ASSUME IInv, NEW s \in Slots, FindsProcessed(s) \/ FindsBusy(s) \/ Ack(s) \/ Forward(s)
  PROVE  IInv'
<1> DEFINE c == held[s]
<1>0. /\ TypeOK /\ pc[s] # "idle" /\ c \in Copy /\ c.msg \in Msgs
      /\ ready \in [Copy -> Nat] /\ retrying \in [Copy -> Nat] /\ dead \in [Msgs -> Nat]
      /\ Finish(s) /\ UNCHANGED <<inbox, link, history, faults>>
      /\ fails[c.msg] >= c.tries
      /\ \A x \in Copy : ready[x] \in Nat /\ retrying[x] \in Nat
      /\ \A m \in Msgs : dead[m] \in Nat
  BY Types
  DEF IInv, TypeOK, HeadersCount, FindsProcessed, FindsBusy, Ack, Forward, Busied
<1>2. ASSUME UNCHANGED queues, done[c.msg] > 0 PROVE QueuesGrow /\ Accounted(c.msg)
  BY <1>0, <1>2 DEF queues, history, QueuesGrow, Accounted
<1>3. CASE FindsProcessed(s) \/ Ack(s)
  <2>1. UNCHANGED queues
    BY <1>3 DEF FindsProcessed, Ack
  <2>2. done[c.msg] > 0
    BY <1>0, <1>3 DEF IInv, SettledWithCause, Passed, Busied, FindsProcessed, Ack
  <2> QED BY <1>0, <1>2, <2>1, <2>2, LetsGoInv
<1>4. CASE FindsBusy(s)
  <2>1. ready' = [ready EXCEPT ![c] = @ + 1] /\ UNCHANGED <<retrying, dead>>
    BY <1>4 DEF FindsBusy, Put
  <2> HIDE DEF c
  <2>2. \A x \in Copy : ready'[x] = IF x = c THEN ready[x] + 1 ELSE ready[x]
    BY <1>0, <2>1
  <2>3. QueuesGrow
    BY <1>0, <2>1, <2>2 DEF QueuesGrow
  <2>4. ready'[c] + retrying'[c] > 0
    BY <1>0, <2>1, <2>2
  <2>5. Accounted(c.msg)
    BY <1>0, <2>4 DEF Accounted
  <2> QED BY <1>0, <2>3, <2>5, LetsGoInv DEF c
<1>5. CASE Forward(s)
  <2>1. Resend(c) /\ ready' = ready /\ fails[c.msg] >= c.tries + 1
    BY <1>0, <1>5 DEF Forward, IInv, Passed, Busied
  <2> HIDE DEF c
  <2>2. QueuesGrow
    BY <1>0, <2>1, ResendGrows DEF QueuesGrow
  <2>3. dead'[c.msg] > 0 \/ \E x \in Copy : x.msg = c.msg /\ retrying'[x] > 0
    BY <1>0, <2>1, ResendGrows
  <2>4. \A x \in Copy : retrying'[x] > 0 => ready'[x] + retrying'[x] > 0
    BY <1>0, <2>1, <2>2 DEF QueuesGrow
  <2>5. Accounted(c.msg)
    BY <2>3, <2>4 DEF Accounted
  <2> QED BY <1>0, <2>2, <2>5, LetsGoInv DEF c
<1> QED BY <1>3, <1>4, <1>5

(* A process that ends, between any two steps of its handlers.             *)
LEMMA EndsInv ==
  ASSUME IInv, NEW s \in Slots, NEW w \in Workers,
         InsertCollides(s) \/ ChannelThrows(s) \/ Crash(w) \/ CrashAfterResend(s)
  PROVE  IInv'
<1>0. /\ TypeOK /\ Of(s) \in Workers
      /\ retrying \in [Copy -> Nat] /\ dead \in [Msgs -> Nat] /\ faults \in 0 .. MaxFaults
      /\ MaxFaults \in Nat
      /\ \A c \in Copy : retrying[c] >= retrying[c]
      /\ \A m \in Msgs : dead[m] >= dead[m]
  BY Types, LimitsAssumption DEF IInv, TypeOK
<1>1. CASE InsertCollides(s) \/ ChannelThrows(s)
  BY <1>0, <1>1, ExitInv DEF InsertCollides, ChannelThrows
<1>2. CASE Crash(w)
  <2>1. faults' \in 0 .. MaxFaults
    BY <1>0, <1>2 DEF Crash, Fault
  <2> QED BY <1>0, <1>2, <2>1, ExitInv DEF Crash
<1>3. CASE CrashAfterResend(s)
  <2>1. faults' \in 0 .. MaxFaults
    BY <1>0, <1>3 DEF CrashAfterResend, Fault
  <2>2. held[s] \in Copy /\ fails[held[s].msg] >= held[s].tries + 1
    BY <1>0, <1>3, Types DEF CrashAfterResend, IInv, Passed, Busied
  <2> QED BY <1>0, <1>3, <2>1, <2>2, ResendGrows, ExitInv DEF CrashAfterResend
<1> QED BY <1>1, <1>2, <1>3

(* The broker: a copy is in a queue or in a handler's hands.               *)
LEMMA PublishInv ==
  ASSUME IInv, NEW m \in Msgs, Publish(m)
  PROVE  IInv'
<1> DEFINE c == [msg |-> m, tries |-> 0]
<1>p. 0 \in Tries
  BY LimitsAssumption DEF Tries
<1>q. c \in Copy /\ c.msg = m /\ c.tries = 0
  BY <1>p DEF Copy
<1>s. /\ TypeOK /\ ready' = [ready EXCEPT ![c] = @ + 1]
      /\ published' = [published EXCEPT ![m] = @ + 1]
      /\ UNCHANGED <<inbox, retrying, dead, task, link, done, fails, repeats, faults>>
  BY DEF Publish, Put, IInv
<1> HIDE DEF c
<1>0. /\ TypeOK /\ c \in Copy /\ c.msg = m /\ c.tries = 0
      /\ ready' = [ready EXCEPT ![c] = @ + 1] /\ ready \in [Copy -> Nat]
      /\ published' = [published EXCEPT ![m] = @ + 1]
      /\ \A x \in Copy : retrying[x] \in Nat
      /\ \A x \in Msgs : fails[x] \in Nat
      /\ UNCHANGED <<inbox, retrying, dead, task, link, done, fails, repeats, faults>>
  BY <1>q, <1>s DEF TypeOK
<1>1. /\ ready' \in [Copy -> Nat]
      /\ \A x \in Copy : ready'[x] = IF x = c THEN ready[x] + 1 ELSE ready[x]
      /\ \A x \in Copy : ready[x] + retrying[x] > 0 => ready'[x] + retrying'[x] > 0
      /\ ready'[c] + retrying'[c] > 0
  BY <1>0
<1>2. TypeOK'
  BY <1>0, <1>1 DEF TypeOK, task
<1>3. HeadersCount' /\ Passed'
  BY <1>0, <1>1 DEF IInv, HeadersCount, Passed, Busied, task
<1>4. SettledWithCause'
  BY <1>0 DEF IInv, SettledWithCause
<1>5. NothingLost'
  <2>1. Alive(m)'
    BY <1>0, <1>1 DEF Alive
  <2>2. \A x \in Msgs : Alive(x) => Alive(x)'
    BY <1>0, <1>1 DEF Alive, Handles, Connected, task
  <2>3. \A x \in Msgs \ {m} : published'[x] = published[x]
    BY <1>0 DEF TypeOK
  <2> QED BY <1>0, <2>1, <2>2, <2>3 DEF IInv, NothingLost
<1> QED BY <1>2, <1>3, <1>4, <1>5 DEF IInv

(* An expired copy goes from the retry queue to the primary one. *)
LEMMA RetryExpiresInv ==
  ASSUME IInv, NEW c \in Copy, RetryExpires(c)
  PROVE  IInv'
<1>0. /\ TypeOK /\ retrying[c] > 0
      /\ ready' = [ready EXCEPT ![c] = @ + 1] /\ ready \in [Copy -> Nat]
      /\ retrying' = [retrying EXCEPT ![c] = @ - 1] /\ retrying \in [Copy -> Nat]
      /\ UNCHANGED <<inbox, dead, task, link, history, faults>>
  BY DEF RetryExpires, Put, Take, IInv, TypeOK
<1>1. /\ ready' \in [Copy -> Nat] /\ retrying' \in [Copy -> Nat]
      /\ \A x \in Copy : ready'[x] > 0 \/ retrying'[x] > 0 => ready[x] > 0 \/ retrying[x] > 0
      /\ \A x \in Copy : ready[x] + retrying[x] > 0 => ready'[x] + retrying'[x] > 0
  BY <1>0
<1>2. TypeOK'
  BY <1>0, <1>1 DEF TypeOK, task, history
<1>3. HeadersCount' /\ Passed'
  BY <1>0, <1>1 DEF IInv, HeadersCount, Passed, Busied, task, history
<1>4. SettledWithCause'
  BY <1>0 DEF IInv, SettledWithCause, history
<1>5. NothingLost'
  <2>1. \A x \in Msgs : Alive(x) => Alive(x)'
    BY <1>0, <1>1 DEF Alive, Handles, Connected, task
  <2> QED BY <1>0, <2>1 DEF IInv, NothingLost, history
<1> QED BY <1>2, <1>3, <1>4, <1>5 DEF IInv

(* A delivered copy is in the hands of an idle slot. *)
LEMMA DeliverInv ==
  ASSUME IInv, NEW s \in Slots, NEW c \in Copy, Deliver(s, c)
  PROVE  IInv'
<1>0. /\ TypeOK /\ Connected(s) /\ pc[s] = "idle" /\ ready[c] > 0 /\ c # NoCopy
      /\ ready' = [ready EXCEPT ![c] = @ - 1] /\ ready \in [Copy -> Nat]
      /\ pc' = [pc EXCEPT ![s] = "begin"] /\ pc \in [Slots -> PC]
      /\ held' = [held EXCEPT ![s] = c] /\ held \in [Slots -> Copy \cup {NoCopy}]
      /\ UNCHANGED <<inbox, retrying, dead, found, link, history, faults>>
  BY Types DEF Deliver, FirstFree, Take, IInv, TypeOK
<1>1. /\ ready' \in [Copy -> Nat]
      /\ \A x \in Copy : ready'[x] > 0 => ready[x] > 0
      /\ \A x \in Copy \ {c} : ready'[x] = ready[x]
  BY <1>0
<1>2. TypeOK'
  BY <1>0, <1>1 DEF TypeOK, history, PC
<1>3. /\ Busied' = Busied \cup {s} /\ s \notin Busied /\ pc'[s] = "begin" /\ held'[s] = c
      /\ \A r \in Slots \ {s} : pc'[r] = pc[r] /\ held'[r] = held[r]
  BY <1>0 DEF Busied
<1>4. HeadersCount' /\ Passed'
  BY <1>0, <1>1, <1>3 DEF IInv, HeadersCount, Passed, Busied, history
<1>5. SettledWithCause'
  BY <1>0 DEF IInv, SettledWithCause, history
<1>6. NothingLost'
  <2>1. Alive(c.msg)'
    BY <1>0, <1>3 DEF Alive, Handles, Connected
  <2>2. ASSUME NEW m \in Msgs, m # c.msg, Alive(m) PROVE Alive(m)'
    BY <1>0, <1>1, <1>3, <2>2 DEF Alive, Handles, Connected
  <2> QED BY <1>0, <2>1, <2>2 DEF IInv, NothingLost, history
<1> QED BY <1>2, <1>4, <1>5, <1>6 DEF IInv

(* Locks that age.                                                         *)
LEMMA ExpireInv ==
  ASSUME IInv, NEW m \in Msgs, Expire(m), faults' \in 0 .. MaxFaults,
         UNCHANGED <<queues, task, link, history>>
  PROVE  IInv'
<1>0. /\ TypeOK /\ inbox' = [inbox EXCEPT ![m].lock = "stale"] /\ inbox \in [Msgs -> Row]
  BY DEF Expire, IInv, TypeOK
<1>1. inbox' \in [Msgs -> Row] /\ \A x \in Msgs : inbox'[x].status = inbox[x].status
  BY <1>0 DEF Row
<1>2. TypeOK'
  BY <1>0, <1>1 DEF TypeOK, queues, task, history
<1>3. HeadersCount' /\ Passed' /\ SettledWithCause'
  BY <1>1 DEF IInv, HeadersCount, Passed, Busied, SettledWithCause, queues, task, history
<1>4. NothingLost'
  BY DEF IInv, NothingLost, Alive, Handles, Connected, queues, task, history
<1> QED BY <1>2, <1>3, <1>4 DEF IInv

(* A connection that goes gives its copies back; the handlers go on.       *)
LEMMA DisconnectInv ==
  ASSUME IInv, NEW w \in Workers, Disconnect(w)
  PROVE  IInv'
<1>0. /\ TypeOK /\ Requeue(w) /\ faults' \in 0 .. MaxFaults
      /\ link' = [link EXCEPT ![w] = "closed"] /\ link \in [Workers -> {"open", "closed", "down"}]
      /\ UNCHANGED <<inbox, retrying, dead, task, published, done, fails>>
      /\ \A c \in Copy : ready[c] \in Nat /\ retrying[c] \in Nat
  BY LimitsAssumption DEF Disconnect, Fault, IInv, TypeOK
<1>1. /\ ready' \in [Copy -> Nat] /\ repeats' \in [Msgs -> Nat]
      /\ \A c \in Copy : ready'[c] >= ready[c]
      /\ \A s \in Unacked(w) : ready'[held[s]] > 0
      /\ \A c \in Copy : ready'[c] > 0 => ready[c] > 0 \/ \E s \in Unacked(w) : held[s] = c
  BY <1>0, RequeuePutsBack
<1>2. TypeOK'
  BY <1>0, <1>1 DEF TypeOK, task
<1>3. HeadersCount' /\ Passed'
  <2>1. Unacked(w) \subseteq Busied
    BY DEF Unacked, Busied
  <2> QED BY <1>0, <1>1, <2>1 DEF IInv, HeadersCount, Passed, Busied, task
<1>4. SettledWithCause'
  BY <1>0 DEF IInv, SettledWithCause
<1>5. NothingLost'
  <2>1. ASSUME NEW m \in Msgs, NEW c \in Copy, c.msg = m, ready[c] + retrying[c] > 0
        PROVE  Alive(m)'
    <3>1. ready'[c] + retrying'[c] > 0
      <4>1. ready'[c] \in Nat /\ ready'[c] >= ready[c] /\ retrying'[c] = retrying[c]
        BY <1>0, <1>1
      <4> QED BY <1>0, <2>1, <4>1
    <3> QED BY <2>1, <3>1 DEF Alive
  <2>2. ASSUME NEW m \in Msgs, NEW s \in Slots, Handles(s, m), Connected(s)
        PROVE  Alive(m)'
    <3>1. CASE Of(s) = w
      <4>1. s \in Unacked(w) /\ held[s] \in Copy
        BY <1>0, <2>2, <3>1, Types DEF Unacked, Handles, Connected, Busied
      <4>2. ready'[held[s]] + retrying'[held[s]] > 0
        <5>1. ready'[held[s]] > 0 /\ ready'[held[s]] \in Nat /\ retrying'[held[s]] \in Nat
          BY <1>0, <1>1, <4>1
        <5> QED BY <5>1
      <4> QED BY <2>2, <4>1, <4>2 DEF Alive, Handles
    <3>2. CASE Of(s) # w
      BY <1>0, <2>2, <3>2 DEF Alive, Handles, Connected, task
    <3> QED BY <3>1, <3>2
  <2> QED BY <1>0, <2>1, <2>2 DEF IInv, NothingLost, Alive
<1> QED BY <1>2, <1>3, <1>4, <1>5 DEF IInv

(* A process that comes back has nothing in its hands yet.                 *)
LEMMA RestartInv ==
  ASSUME IInv, NEW w \in Workers, Restart(w)
  PROVE  IInv'
<1>0. /\ TypeOK /\ link' = [link EXCEPT ![w] = "open"]
      /\ link \in [Workers -> {"open", "closed", "down"}]
      /\ UNCHANGED <<inbox, queues, task, history, faults>>
  BY DEF Restart, IInv, TypeOK
<1>1. TypeOK'
  BY <1>0 DEF TypeOK, queues, task, history
<1>2. HeadersCount' /\ Passed' /\ SettledWithCause'
  BY <1>0 DEF IInv, HeadersCount, Passed, Busied, SettledWithCause, queues, task, history
<1>3. \A m \in Msgs : Alive(m) => Alive(m)'
  BY <1>0 DEF Alive, Handles, Connected, queues, task
<1>4. NothingLost'
  BY <1>0, <1>3 DEF IInv, NothingLost, queues, history
<1> QED BY <1>1, <1>2, <1>4 DEF IInv
-----------------------------------------------------------------------------
(* Every step keeps the invariant.                                         *)
LEMMA StepInv ==
  ASSUME IInv, [Next]_vars
  PROVE  IInv'
<1>0. TypeOK /\ repeats \in [Msgs -> Nat] /\ faults \in 0 .. MaxFaults /\ MaxFaults \in Nat
  BY LimitsAssumption DEF IInv, TypeOK
<1>1. ASSUME NEW s \in Slots, AckThrows(s) PROVE IInv'
  BY <1>0, <1>1, FailInv DEF AckThrows
<1>2. ASSUME NEW s \in Slots, MarkProcessedThrows(s) PROVE IInv'
  <2>1. held[s].msg \in Msgs
    BY <1>0, <1>2, Types DEF MarkProcessedThrows, Busied
  <2>2. repeats' \in [Msgs -> Nat] /\ faults' \in 0 .. MaxFaults
    BY <1>0, <1>2, <2>1 DEF MarkProcessedThrows, Fault
  <2> QED BY <1>2, <2>2, FailInv DEF MarkProcessedThrows
<1>3. ASSUME NEW s \in Slots,
             HandleMessage(s) \/ Receive(s) \/ CrashAfterResend(s) \/ MarkProcessedThrows(s)
      PROVE  IInv'
  <2>1. Of(s) \in Workers
    BY <1>0, Types
  <2> QED
    BY <1>1, <1>2, <1>3, <2>1, AnswerInv, FindsFreeInv, ClaimInv, EndsInv, ListenersInv, MarkInv,
       DeliverInv
    DEF HandleMessage, Receive
<1>4. ASSUME NEW m \in Msgs, LockOverrun(m) \/ OrphanLockExpires(m) PROVE IInv'
  BY <1>0, <1>4, ExpireInv DEF LockOverrun, OrphanLockExpires, Fault
<1>5. ASSUME NEW w \in Workers, Crash(w) PROVE IInv'
  <2>1. <<w, 1>> \in Slots
    BY LimitsAssumption DEF Slots
  <2> QED BY <1>5, <2>1, EndsInv
<1>6. CASE UNCHANGED vars
  <2>1. UNCHANGED <<inbox, ready, retrying, dead, pc, held, found, link, published, done, fails,
                    repeats, faults>>
    BY <1>6 DEF vars, queues, task, history
  <2>2. TypeOK'
    BY <1>0, <2>1 DEF TypeOK
  <2>3. HeadersCount' /\ Passed' /\ SettledWithCause'
    BY <2>1 DEF IInv, HeadersCount, Passed, Busied, SettledWithCause
  <2>4. NothingLost'
    BY <2>1 DEF IInv, NothingLost, Alive, Handles, Connected
  <2> QED BY <2>2, <2>3, <2>4 DEF IInv
<1> QED
  BY <1>3, <1>4, <1>5, <1>6, PublishInv, RetryExpiresInv, DisconnectInv, RestartInv DEF Next

(* The invariant holds throughout.                                         *)
LEMMA Invariance == Spec => []IInv
  BY InitInv, StepInv, PTL DEF Spec

(* The table, the queues and the handlers are typed.                       *)
THEOREM ConsumerTypeOK == Spec => []TypeOK
<1>1. IInv => TypeOK
  BY DEF IInv
<1> QED BY Invariance, <1>1, PTL

(* The last copy of a message goes only when its listeners have run or it  *)
(* has been dead-lettered, whatever crashes, disconnects or overruns.      *)
THEOREM NoMessageLost == Spec => []NothingLost
<1>1. IInv => NothingLost
  BY DEF IInv
<1> QED BY Invariance, <1>1, PTL

(* PROCESSED follows a pass of all listeners, a dead letter MaxAttempts    *)
(* failed ones.                                                            *)
THEOREM SettlementHasCause == Spec => []SettledWithCause
<1>1. IInv => SettledWithCause
  BY DEF IInv
<1> QED BY Invariance, <1>1, PTL
-----------------------------------------------------------------------------
(* A settled message: no step changes what its row says or brings a        *)
(* handler before its listeners.                                           *)
LEMMA SettledStep ==
  ASSUME TypeOK, Next, NEW m \in Msgs, Settled(m)
  PROVE  Settled(m)' /\ done'[m] = done[m]
<1> DEFINE Stays == /\ inbox'[m].status = "PROCESSED" /\ inbox'[m].lockedBy = NoWorker
                    /\ done'[m] = done[m]
           Off(s) == pc[s] # "idle" /\ held[s].msg = m => pc[s] \notin {"overwrite", "work"}
<1>1. Stays /\ (\A s \in Slots : Off(s)') => Settled(m)' /\ done'[m] = done[m]
  BY DEF Settled, Handles
<1>2. /\ inbox[m].status = "PROCESSED" /\ inbox[m].lockedBy = NoWorker /\ NoWorker \notin Workers
      /\ \A s \in Slots : Off(s) /\ Of(s) \in Workers
      /\ pc \in [Slots -> PC] /\ held \in [Slots -> Copy \cup {NoCopy}]
      /\ inbox \in [Msgs -> Row] /\ done \in [Msgs -> Nat]
  BY IdsAssumption DEF Settled, Handles, TypeOK, Slots, Of
<1> SUFFICES Stays /\ \A s \in Slots : Off(s)'
  BY <1>1
<1>3. ASSUME NEW w \in Workers, Exit(w), done' = done
      PROVE  Stays /\ \A s \in Slots : Off(s)'
  BY <1>2, <1>3 DEF Exit, Row
<1>4. ASSUME UNCHANGED <<task, done>>,
             inbox' = inbox \/ \E n \in Msgs : inbox' = [inbox EXCEPT ![n].lock = "stale"]
      PROVE  Stays /\ \A s \in Slots : Off(s)'
  BY <1>2, <1>4 DEF task, Row
<1>5. ASSUME NEW t \in Slots, NEW l \in PC \ {"overwrite", "work"}, NEW c,
             pc' = [pc EXCEPT ![t] = l], held' = [held EXCEPT ![t] = c],
             inbox' = inbox, done' = done
      PROVE  Stays /\ \A s \in Slots : Off(s)'
  BY <1>2, <1>5
<1>6. ASSUME NEW t \in Slots, HandleMessage(t)
      PROVE  Stays /\ \A s \in Slots : Off(s)'
  <2>1. CASE FindsProcessed(t) \/ FindsBusy(t) \/ Ack(t) \/ Forward(t)
    BY <1>5, <2>1 DEF FindsProcessed, FindsBusy, Ack, Forward, Finish, history, PC
  <2>2. CASE FindsFree(t)
    BY <1>2, <2>2 DEF FindsFree, history, PC
  <2>3. CASE Insert(t)
    BY <1>2, <2>3 DEF Insert, Claim, history
  <2>4. CASE InsertCollides(t) \/ ChannelThrows(t)
    BY <1>2, <1>3, <2>4 DEF InsertCollides, ChannelThrows
  <2>5. CASE Overwrite(t)
    BY <1>2, <2>5 DEF Overwrite, Claim, history
  <2>6. CASE ListenersReturn(t)
    BY <1>2, <2>6 DEF ListenersReturn, Goto
  <2>7. CASE MarkProcessed(t) \/ MarkFailed(t)
    BY <1>2, <2>7 DEF MarkProcessed, MarkFailed, UpdateHeld, Goto, history, Row
  <2>8. CASE AckThrows(t)
    BY <1>2, <2>8 DEF AckThrows, Fail, Goto
  <2> QED
    BY <1>6, <2>1, <2>2, <2>3, <2>4, <2>5, <2>6, <2>7, <2>8 DEF HandleMessage
<1>7. CASE \E n \in Msgs : Publish(n) \/ LockOverrun(n) \/ OrphanLockExpires(n)
  BY <1>4, <1>7 DEF Publish, LockOverrun, OrphanLockExpires, Expire, history
<1>8. CASE \E c \in Copy : RetryExpires(c)
  BY <1>4, <1>8 DEF RetryExpires, history
<1>9. CASE \E s \in Slots : Receive(s)
  BY <1>5, <1>9 DEF Receive, Deliver, history, PC
<1>10. CASE \E s \in Slots : CrashAfterResend(s)
  BY <1>2, <1>3, <1>10 DEF CrashAfterResend
<1>11. CASE \E s \in Slots : MarkProcessedThrows(s)
  BY <1>2, <1>11 DEF MarkProcessedThrows, Fail, Goto
<1>12. CASE \E w \in Workers : Crash(w)
  BY <1>3, <1>12 DEF Crash
<1>13. CASE \E w \in Workers : Disconnect(w) \/ Restart(w)
  BY <1>4, <1>13 DEF Disconnect, Restart, history
<1> QED
  BY <1>6, <1>7, <1>8, <1>9, <1>10, <1>11, <1>12, <1>13 DEF Next

(* A message that was marked is marked for good, and its listeners are not *)
(* called again for whichever copy of it comes back.                       *)
THEOREM MarkedForGood == Spec => ProcessedRests
<1> DEFINE Rests == \A m \in Msgs : Settled(m) => Settled(m)' /\ done'[m] = done[m]
<1>1. IInv /\ [Next]_vars => [Rests]_vars
  BY SettledStep DEF IInv
<1>2. QED
  BY <1>1, Invariance, PTL DEF Spec, ProcessedRests
-----------------------------------------------------------------------------
(* Repeats: what may still make the listeners be called on m once more,    *)
(* each named once.  That is every copy in a queue, by its place there,    *)
(* and every handler that has the listeners before it or that will send    *)
(* its copy on for another try.                                            *)
MayHear(s, m) ==
  /\ Handles(s, m)
  /\ \/ pc[s] \in {"begin", "insert", "overwrite", "work"}
     \/ pc[s] \in {"failing", "forward"} /\ Connected(s)

InQueue(k, q, m) ==
  {t \in {k} \X Copy \X Nat : t[2].msg = m /\ 1 <= t[3] /\ t[3] <= q[t[2]]}
InHand(m) == {t \in {"hand"} \X Slots \X {0} : MayHear(t[2], m)}

Chances(m) == InQueue("ready", ready, m) \cup InQueue("retrying", retrying, m) \cup InHand(m)

(* Every pass of the listeners and every chance of another is paid for by  *)
(* a publication or by a copy that came back.                              *)
PassesCounted ==
  \A m \in Msgs : /\ IsFiniteSet(Chances(m))
                  /\ done[m] + Cardinality(Chances(m)) <= published[m] + repeats[m]

(* A process that is gone has no handlers. *)
DownIsIdle == \A s \in Slots : link[Of(s)] = "down" => pc[s] = "idle"

CountInv == IInv /\ DownIsIdle /\ PassesCounted

(* What a step may do to the chances of m: spend one on a pass, move one,  *)
(* and add as many as it pays for.                                         *)
Hears(m) == /\ \E x \in Chances(m) : Chances(m)' \subseteq Chances(m) \ {x}
            /\ done'[m] = done[m] + 1
            /\ published'[m] = published[m] /\ repeats'[m] = repeats[m]
Adds(m, N) == /\ IsFiniteSet(N)
              /\ done'[m] = done[m]
              /\ published'[m] + repeats'[m] >= published[m] + repeats[m] + Cardinality(N)
Gains(m)  == \E N : Adds(m, N) /\ Chances(m)' \subseteq Chances(m) \cup N
Moves(m)  == \E N : /\ Adds(m, N)
                    /\ \E x \in Chances(m) : \E y :
                         Chances(m)' \subseteq ((Chances(m) \ {x}) \cup {y}) \cup N
-----------------------------------------------------------------------------
(* A union is no larger than its parts together. *)
LEMMA UnionBound ==
  ASSUME NEW S, NEW N, NEW T, IsFiniteSet(S), IsFiniteSet(N), T \subseteq S \cup N
  PROVE  /\ IsFiniteSet(T) /\ Cardinality(T) \in Nat
         /\ Cardinality(S) \in Nat /\ Cardinality(N) \in Nat
         /\ Cardinality(T) <= Cardinality(S) + Cardinality(N)
<1>1. IsFiniteSet(S \cap N)
  <2>1. S \cap N \in SUBSET S
    OBVIOUS
  <2> QED BY <2>1, FS_Subset
<1>2. /\ Cardinality(S) \in Nat /\ Cardinality(N) \in Nat /\ Cardinality(S \cap N) \in Nat
  BY <1>1, FS_CardinalityType
<1>3. /\ IsFiniteSet(S \cup N)
      /\ Cardinality(S \cup N) = Cardinality(S) + Cardinality(N) - Cardinality(S \cap N)
  BY FS_Union
<1>4. IsFiniteSet(T) /\ Cardinality(T) <= Cardinality(S \cup N)
  BY <1>3, FS_Subset
<1>5. Cardinality(T) \in Nat
  BY <1>4, FS_CardinalityType
<1>6. Cardinality(T) <= Cardinality(S) + Cardinality(N)
  BY <1>2, <1>3, <1>4, <1>5
<1> QED BY <1>2, <1>4, <1>5, <1>6

(* Moving a member leaves a set no larger. *)
LEMMA MoveBound ==
  ASSUME NEW S, NEW x \in S, NEW y, IsFiniteSet(S)
  PROVE  /\ IsFiniteSet((S \ {x}) \cup {y})
         /\ Cardinality((S \ {x}) \cup {y}) <= Cardinality(S)
<1> DEFINE R == S \ {x}
<1>1. IsFiniteSet(R) /\ Cardinality(R) = Cardinality(S) - 1 /\ Cardinality(S) \in Nat
  BY FS_RemoveElement, FS_CardinalityType
<1>2. IsFiniteSet({y}) /\ Cardinality({y}) = 1
  BY FS_Singleton
<1> HIDE DEF R
<1>3. /\ IsFiniteSet(R \cup {y}) /\ Cardinality(R \cup {y}) \in Nat
      /\ Cardinality(R \cup {y}) <= Cardinality(R) + Cardinality({y})
  BY <1>1, <1>2, UnionBound
<1>4. Cardinality(R \cup {y}) <= Cardinality(S)
  BY <1>1, <1>2, <1>3
<1> QED BY <1>3, <1>4 DEF R

(* Each of those effects keeps the count of a message. *)
LEMMA CountKept ==
  ASSUME TypeOK, TypeOK', NEW m \in Msgs, IsFiniteSet(Chances(m)),
         done[m] + Cardinality(Chances(m)) <= published[m] + repeats[m],
         Hears(m) \/ Gains(m) \/ Moves(m)
  PROVE  /\ IsFiniteSet(Chances(m)')
         /\ done'[m] + Cardinality(Chances(m)') <= published'[m] + repeats'[m]
<1> DEFINE S == Chances(m)
           T == Chances(m)'
<1>0. /\ done[m] \in Nat /\ done'[m] \in Nat /\ published[m] \in Nat /\ published'[m] \in Nat
      /\ repeats[m] \in Nat /\ repeats'[m] \in Nat
  BY DEF TypeOK
<1>1. /\ IsFiniteSet(S) /\ Cardinality(S) \in Nat
      /\ done[m] + Cardinality(S) <= published[m] + repeats[m]
  BY FS_CardinalityType
<1>2. CASE Hears(m)
  <2>1. PICK x \in S : T \subseteq S \ {x}
    BY <1>2 DEF Hears
  <2>2. /\ done'[m] = done[m] + 1
        /\ published'[m] = published[m] /\ repeats'[m] = repeats[m]
    BY <1>2 DEF Hears
  <2> HIDE DEF S, T
  <2>3. IsFiniteSet(S \ {x}) /\ Cardinality(S \ {x}) = Cardinality(S) - 1
    BY <1>1, FS_RemoveElement
  <2>4. IsFiniteSet(T) /\ Cardinality(T) <= Cardinality(S) - 1 /\ Cardinality(T) \in Nat
    BY <2>1, <2>3, FS_Subset, FS_CardinalityType
  <2>5. done'[m] + Cardinality(T) <= published'[m] + repeats'[m]
    BY <1>0, <1>1, <2>2, <2>4
  <2> QED BY <2>4, <2>5 DEF T
<1>3. ASSUME NEW R, IsFiniteSet(R), Cardinality(R) <= Cardinality(S), NEW N, Adds(m, N),
             T \subseteq R \cup N
      PROVE  IsFiniteSet(T) /\ done'[m] + Cardinality(T) <= published'[m] + repeats'[m]
  <2>1. /\ IsFiniteSet(N) /\ done'[m] = done[m]
        /\ published'[m] + repeats'[m] >= published[m] + repeats[m] + Cardinality(N)
    BY <1>3 DEF Adds
  <2> HIDE DEF S, T
  <2>2. /\ IsFiniteSet(T) /\ Cardinality(T) \in Nat /\ Cardinality(R) \in Nat
        /\ Cardinality(N) \in Nat /\ Cardinality(T) <= Cardinality(R) + Cardinality(N)
    BY <1>3, <2>1, UnionBound
  <2>3. done'[m] + Cardinality(T) <= published'[m] + repeats'[m]
    BY <1>0, <1>1, <1>3, <2>1, <2>2
  <2> QED BY <2>2, <2>3
<1>4. CASE Gains(m)
  <2>1. PICK N : Adds(m, N) /\ T \subseteq S \cup N
    BY <1>4 DEF Gains
  <2>2. Cardinality(S) <= Cardinality(S)
    BY <1>1
  <2> HIDE DEF S, T
  <2>3. IsFiniteSet(T) /\ done'[m] + Cardinality(T) <= published'[m] + repeats'[m]
    BY <1>1, <1>3, <2>1, <2>2
  <2> QED BY <2>3 DEF T
<1>5. CASE Moves(m)
  <2>1. PICK N : Adds(m, N) /\ \E x \in S : \E y : T \subseteq ((S \ {x}) \cup {y}) \cup N
    BY <1>5 DEF Moves
  <2>2. PICK x \in S : \E y : T \subseteq ((S \ {x}) \cup {y}) \cup N
    BY <2>1
  <2>3. PICK y : T \subseteq ((S \ {x}) \cup {y}) \cup N
    BY <2>2
  <2> DEFINE R == (S \ {x}) \cup {y}
  <2> HIDE DEF S, T
  <2>4. IsFiniteSet(R) /\ Cardinality(R) <= Cardinality(S)
    BY <1>1, MoveBound
  <2> HIDE DEF R
  <2>5. T \subseteq R \cup N
    BY <2>3 DEF R
  <2>6. IsFiniteSet(T) /\ done'[m] + Cardinality(T) <= published'[m] + repeats'[m]
    BY <1>3, <2>1, <2>4, <2>5
  <2> QED BY <2>6 DEF T
<1> QED BY <1>2, <1>4, <1>5
-----------------------------------------------------------------------------
(* The places of a queue in which one copy more is put. *)
LEMMA PutAddsPlace ==
  ASSUME NEW q \in [Copy -> Nat], NEW c \in Copy, NEW m, NEW k
  PROVE  /\ c.msg = m => InQueue(k, Put(q, c), m) \subseteq InQueue(k, q, m) \cup {<<k, c, q[c] + 1>>}
         /\ c.msg # m => InQueue(k, Put(q, c), m) \subseteq InQueue(k, q, m)
<1>1. ASSUME NEW t \in InQueue(k, Put(q, c), m), t \notin InQueue(k, q, m)
      PROVE  c.msg = m /\ t = <<k, c, q[c] + 1>>
  <2>1. /\ t[1] = k /\ t[2] \in Copy /\ t[3] \in Nat /\ t = <<t[1], t[2], t[3]>>
        /\ t[2].msg = m /\ 1 <= t[3] /\ t[3] <= Put(q, c)[t[2]]
        /\ ~(t[3] <= q[t[2]])
    BY <1>1 DEF InQueue
  <2>2. t[2] = c /\ t[3] <= q[c] + 1 /\ ~(t[3] <= q[c]) /\ q[c] \in Nat
    BY <2>1 DEF Put
  <2>3. t[3] = q[c] + 1
    BY <2>1, <2>2
  <2> QED BY <2>1, <2>2, <2>3
<1> QED BY <1>1

(* The place a copy is taken from, and the places left. *)
LEMMA TakeFreesPlace ==
  ASSUME NEW q \in [Copy -> Nat], NEW c \in Copy, q[c] > 0, NEW m, NEW k
  PROVE  /\ c.msg = m => /\ <<k, c, q[c]>> \in InQueue(k, q, m)
                         /\ InQueue(k, Take(q, c), m) \subseteq InQueue(k, q, m) \ {<<k, c, q[c]>>}
         /\ InQueue(k, Take(q, c), m) \subseteq InQueue(k, q, m)
<1>0. q[c] \in Nat /\ 1 <= q[c]
  OBVIOUS
<1>1. c.msg = m => <<k, c, q[c]>> \in InQueue(k, q, m)
  BY <1>0 DEF InQueue
<1>2. ASSUME NEW t \in InQueue(k, Take(q, c), m)
      PROVE  t \in InQueue(k, q, m) /\ t # <<k, c, q[c]>>
  <2>1. /\ t \in {k} \X Copy \X Nat /\ t[2] \in Copy /\ t[3] \in Nat
        /\ t[2].msg = m /\ 1 <= t[3] /\ t[3] <= Take(q, c)[t[2]]
    BY <1>2 DEF InQueue
  <2>2. t[2] = c => t[3] <= q[c] - 1
    BY <2>1 DEF Take
  <2>3. t[3] <= q[t[2]] /\ ~(t[2] = c /\ t[3] = q[c])
    BY <1>0, <2>1, <2>2 DEF Take
  <2> QED BY <2>1, <2>3 DEF InQueue
<1> QED BY <1>1, <1>2

(* Places of the two queues and of the handlers are never one another. *)
LEMMA PlacesDiffer ==
  ASSUME NEW q, NEW r, NEW m, NEW n, NEW p
  PROVE  /\ InQueue("ready", q, m) \cap InQueue("retrying", r, n) = {}
         /\ InQueue("ready", q, m) \cap InHand(p) = {}
         /\ InQueue("retrying", r, n) \cap InHand(p) = {}
  BY DEF InQueue, InHand

(* The copies the broker puts back are as many as the handlers they come   *)
(* from, message by message.                                               *)
LEMMA RequeuePays ==
  ASSUME TypeOK, NEW w \in Workers, Requeue(w), NEW m \in Msgs
  PROVE  \E N : /\ IsFiniteSet(N)
                /\ repeats'[m] >= repeats[m] + Cardinality(N)
                /\ InQueue("ready", ready', m) \subseteq InQueue("ready", ready, m) \cup N
<1> DEFINE Back(c) == {s \in Unacked(w) : held[s] = c}
           BackOf == {s \in Unacked(w) : held[s].msg = m}
           B(c) == CHOOSE f : f \in Bijection(1 .. Cardinality(Back(c)), Back(c))
           N == {t \in {"ready"} \X Copy \X Nat :
                   t[2].msg = m /\ ready[t[2]] < t[3] /\ t[3] <= ready'[t[2]]}
           F == [t \in N |-> B(t[2])[t[3] - ready[t[2]]]]
<1>0. /\ ready' = [c \in Copy |-> ready[c] + Cardinality(Back(c))]
      /\ repeats' = [n \in Msgs |->
           repeats[n] + Cardinality({s \in Unacked(w) : held[s].msg = n})]
      /\ ready \in [Copy -> Nat] /\ repeats \in [Msgs -> Nat]
  BY DEF Requeue, TypeOK
<1>1. IsFiniteSet(Unacked(w))
  <2>1. Unacked(w) \in SUBSET {s \in Slots : Of(s) = w}
    BY DEF Unacked
  <2> QED BY <2>1, SlotsOfFinite, FS_Subset
<1>2. IsFiniteSet(BackOf) /\ Cardinality(BackOf) \in Nat
  <2>1. BackOf \in SUBSET Unacked(w)
    OBVIOUS
  <2>2. IsFiniteSet(BackOf)
    BY <1>1, <2>1, FS_Subset
  <2> QED BY <2>2, FS_CardinalityType
<1>3. ASSUME NEW c
      PROVE  /\ Cardinality(Back(c)) \in Nat
             /\ B(c) \in Bijection(1 .. Cardinality(Back(c)), Back(c))
  <2>1. Back(c) \in SUBSET Unacked(w)
    OBVIOUS
  <2>2. IsFiniteSet(Back(c))
    BY <1>1, <2>1, FS_Subset
  <2>3. /\ Cardinality(Back(c)) \in Nat
        /\ ExistsBijection(1 .. Cardinality(Back(c)), Back(c))
    BY <2>2, FS_CardinalityType
  <2>4. \E f : f \in Bijection(1 .. Cardinality(Back(c)), Back(c))
    BY <2>3 DEF ExistsBijection
  <2> HIDE DEF Back
  <2> QED BY <2>3, <2>4
<1>4. repeats'[m] = repeats[m] + Cardinality(BackOf) /\ repeats[m] \in Nat
  BY <1>0
<1>5. \A c \in Copy : ready'[c] = ready[c] + Cardinality(Back(c)) /\ ready[c] \in Nat
  BY <1>0
<1>6. \A c \in Copy : \A s : s \in Back(c) => held[s] = c /\ (c.msg = m => s \in BackOf)
  OBVIOUS
<1> HIDE DEF Back, BackOf, B
<1>7. ASSUME NEW t \in N
      PROVE  /\ t[2] \in Copy /\ t[2].msg = m
             /\ t[3] - ready[t[2]] \in 1 .. Cardinality(Back(t[2]))
             /\ t = <<"ready", t[2], t[3]>> /\ t[3] \in Nat
  <2>1. /\ t[2] \in Copy /\ t[2].msg = m /\ t[3] \in Nat /\ t = <<"ready", t[2], t[3]>>
        /\ ready[t[2]] < t[3] /\ t[3] <= ready'[t[2]]
    OBVIOUS
  <2>2. t[3] - ready[t[2]] \in 1 .. Cardinality(Back(t[2]))
    BY <1>3, <1>5, <2>1
  <2> QED BY <2>1, <2>2
<1> HIDE DEF N
<1>8. ASSUME NEW t \in N PROVE F[t] \in Back(t[2]) /\ F[t] \in BackOf /\ held[F[t]] = t[2]
  <2>1. B(t[2]) \in [1 .. Cardinality(Back(t[2])) -> Back(t[2])]
    BY <1>3 DEF Bijection, Injection
  <2>2. F[t] = B(t[2])[t[3] - ready[t[2]]]
    OBVIOUS
  <2>3. F[t] \in Back(t[2])
    BY <1>7, <2>1, <2>2
  <2> HIDE DEF F
  <2> QED BY <1>6, <1>7, <2>3
<1>9. ASSUME NEW t \in N, NEW u \in N, F[t] = F[u] PROVE t = u
  <2>1. t[2] = u[2]
    <3>1. held[F[t]] = t[2] /\ held[F[u]] = u[2]
      BY <1>8
    <3> HIDE DEF F
    <3> QED BY <1>9, <3>1
  <2>2. B(t[2])[t[3] - ready[t[2]]] = B(t[2])[u[3] - ready[t[2]]]
    BY <1>9, <2>1
  <2>3. t[3] - ready[t[2]] = u[3] - ready[t[2]]
    <3>1. \A i, j \in 1 .. Cardinality(Back(t[2])) : B(t[2])[i] = B(t[2])[j] => i = j
      BY <1>3 DEF Bijection, Injection, IsInjective
    <3>2. u[3] - ready[t[2]] \in 1 .. Cardinality(Back(t[2]))
      BY <1>7, <2>1
    <3> QED BY <1>7, <2>2, <3>1, <3>2
  <2>4. t[3] = u[3]
    BY <1>5, <1>7, <2>3
  <2> QED BY <1>7, <2>1, <2>4
<1>10. F \in Injection(N, BackOf)
  <2>1. F \in [N -> BackOf]
    BY <1>8
  <2> QED BY <1>9, <2>1 DEF Injection, IsInjective
<1>11. IsFiniteSet(N) /\ Cardinality(N) <= Cardinality(BackOf)
  <2> HIDE DEF F
  <2> QED BY <1>2, <1>10, FS_Injection
<1>12. Cardinality(N) \in Nat
  BY <1>11, FS_CardinalityType
<1>13. repeats'[m] >= repeats[m] + Cardinality(N)
  BY <1>2, <1>4, <1>11, <1>12
<1>14. InQueue("ready", ready', m) \subseteq InQueue("ready", ready, m) \cup N
  <2> SUFFICES ASSUME NEW t \in InQueue("ready", ready', m), t \notin InQueue("ready", ready, m)
               PROVE  t \in N
    OBVIOUS
  <2>1. /\ t \in {"ready"} \X Copy \X Nat /\ t[2].msg = m /\ t[3] <= ready'[t[2]]
        /\ 1 <= t[3] /\ ~(t[3] <= ready[t[2]]) /\ t[2] \in Copy /\ t[3] \in Nat
    BY DEF InQueue
  <2>2. ready[t[2]] < t[3]
    BY <1>5, <2>1
  <2> QED BY <2>1, <2>2 DEF N
<1> QED BY <1>11, <1>13, <1>14
-----------------------------------------------------------------------------
(* The counters of m stay. *)
Quiet(m) == done'[m] = done[m] /\ published'[m] = published[m] /\ repeats'[m] = repeats[m]

(* No new chance. *)
LEMMA GainsNothing ==
  ASSUME TypeOK, NEW m \in Msgs, Quiet(m), Chances(m)' \subseteq Chances(m)
  PROVE  Gains(m)
<1>1. IsFiniteSet({}) /\ Cardinality({}) = 0
  BY FS_EmptySet
<1>2. published[m] + repeats[m] >= published[m] + repeats[m] + Cardinality({})
  BY <1>1 DEF TypeOK
<1>3. Adds(m, {})
  BY <1>1, <1>2 DEF Adds, Quiet
<1> QED BY <1>3 DEF Gains

(* One chance becomes another. *)
LEMMA MovesOne ==
  ASSUME TypeOK, NEW m \in Msgs, Quiet(m), NEW x \in Chances(m), NEW y,
         Chances(m)' \subseteq (Chances(m) \ {x}) \cup {y}
  PROVE  Moves(m)
<1>1. IsFiniteSet({}) /\ Cardinality({}) = 0
  BY FS_EmptySet
<1>2. published[m] + repeats[m] >= published[m] + repeats[m] + Cardinality({})
  BY <1>1 DEF TypeOK
<1>3. Adds(m, {})
  BY <1>1, <1>2 DEF Adds, Quiet
<1>4. Chances(m)' \subseteq ((Chances(m) \ {x}) \cup {y}) \cup {}
  OBVIOUS
<1> QED BY <1>3, <1>4 DEF Moves

(* One chance more, and one publication or return. *)
LEMMA GainsOne ==
  ASSUME TypeOK, NEW m \in Msgs, done'[m] = done[m],
         published'[m] + repeats'[m] >= published[m] + repeats[m] + 1, NEW y,
         Chances(m)' \subseteq Chances(m) \cup {y}
  PROVE  Gains(m)
<1>1. IsFiniteSet({y}) /\ Cardinality({y}) = 1
  BY FS_Singleton
<1>2. Adds(m, {y})
  BY <1>1 DEF Adds
<1> QED BY <1>2 DEF Gains

(* A handler's chance is in its hand. *)
LEMMA HandIsChance ==
  ASSUME NEW m, NEW s \in Slots, MayHear(s, m)
  PROVE  <<"hand", s, 0>> \in InHand(m) /\ <<"hand", s, 0>> \in Chances(m)
  BY DEF InHand, Chances

(* A handler that goes on with its copy to a place where it has no more    *)
(* before it than it had.                                                  *)
LEMMA GoesOnCounts ==
  ASSUME TypeOK, NEW m \in Msgs, NEW s \in Slots, NEW l \in PC \ {"idle", "begin"},
         pc' = [pc EXCEPT ![s] = l],
         UNCHANGED <<held, link, ready, retrying>>, Quiet(m),
         pc[s] # "idle",
         l \in {"insert", "overwrite", "work"} => pc[s] \in {"begin", "insert", "overwrite", "work"},
         l \in {"failing", "forward"} /\ Connected(s) => pc[s] \in {"work", "failing"}
  PROVE  Gains(m)
<1>1. \A r \in Slots \ {s} : MayHear(r, m)' => MayHear(r, m)
  BY DEF TypeOK, MayHear, Handles, Connected
<1>2. pc'[s] = l
  BY DEF TypeOK
<1>3. MayHear(s, m)' => MayHear(s, m)
  <2> SUFFICES ASSUME MayHear(s, m)' PROVE MayHear(s, m)
    OBVIOUS
  <2>1. Handles(s, m) /\ (Connected(s)' <=> Connected(s))
    BY <1>2 DEF MayHear, Handles, Connected
  <2>2. \/ l \in {"begin", "insert", "overwrite", "work"}
        \/ l \in {"failing", "forward"} /\ Connected(s)
    BY <1>2, <2>1 DEF MayHear
  <2>3. \/ pc[s] \in {"begin", "insert", "overwrite", "work"}
        \/ pc[s] \in {"work", "failing"} /\ Connected(s)
    BY <2>2
  <2> QED BY <2>1, <2>3 DEF MayHear
<1>4. InHand(m)' \subseteq InHand(m)
  BY <1>1, <1>3 DEF InHand
<1>5. Chances(m)' \subseteq Chances(m)
  BY <1>4 DEF Chances
<1> QED BY <1>5, GainsNothing

(* A handler whose listeners were all called. *)
LEMMA HearsCounts ==
  ASSUME TypeOK, NEW m \in Msgs, NEW s \in Slots, ListenersReturn(s)
  PROVE  Hears(m) \/ Gains(m)
<1>0. /\ pc[s] = "work" /\ pc' = [pc EXCEPT ![s] = "mark"]
      /\ UNCHANGED <<held, link, ready, retrying, published, repeats>>
      /\ done' = [done EXCEPT ![held[s].msg] = @ + 1]
  BY DEF ListenersReturn, Goto, queues
<1>1. CASE held[s].msg = m
  <2>1. MayHear(s, m)
    BY <1>0, <1>1 DEF MayHear, Handles
  <2>2. <<"hand", s, 0>> \in Chances(m)
    BY <2>1, HandIsChance
  <2>3. \A r \in Slots : MayHear(r, m)' => MayHear(r, m) /\ r # s
    BY <1>0 DEF TypeOK, MayHear, Handles, Connected
  <2>4. InHand(m)' \subseteq InHand(m) \ {<<"hand", s, 0>>}
    BY <2>3 DEF InHand
  <2>5. /\ InQueue("ready", ready, m) \cap InHand(m) = {}
        /\ InQueue("retrying", retrying, m) \cap InHand(m) = {}
        /\ <<"hand", s, 0>> \in InHand(m)
    BY <2>1, PlacesDiffer, HandIsChance
  <2>6. Chances(m)' \subseteq Chances(m) \ {<<"hand", s, 0>>}
    BY <1>0, <2>4, <2>5 DEF Chances
  <2>7. done'[m] = done[m] + 1 /\ published'[m] = published[m] /\ repeats'[m] = repeats[m]
    BY <1>0, <1>1 DEF TypeOK
  <2> QED BY <2>2, <2>6, <2>7 DEF Hears
<1>2. CASE held[s].msg # m
  <2>1. Quiet(m)
    BY <1>0, <1>2 DEF Quiet, TypeOK
  <2>2. /\ pc' = [pc EXCEPT ![s] = "mark"] /\ UNCHANGED <<held, link, ready, retrying>>
        /\ pc[s] # "idle" /\ "mark" \in PC \ {"idle", "begin"}
    BY <1>0 DEF PC
  <2>3. Gains(m)
    BY <2>1, <2>2, GoesOnCounts
  <2> QED BY <2>3
<1> QED BY <1>1, <1>2

(* The handlers that are left when one lets its copy go.                   *)
LEMMA HandsLeft ==
  ASSUME TypeOK, NEW m, NEW s \in Slots,
         \A r \in Slots : pc'[r] # "idle" => /\ r # s /\ pc'[r] = pc[r] /\ held'[r] = held[r]
                                            /\ link'[Of(r)] = link[Of(r)]
  PROVE  InHand(m)' \subseteq InHand(m) \ {<<"hand", s, 0>>}
<1>1. \A r \in Slots : MayHear(r, m)' => MayHear(r, m) /\ r # s
  BY DEF MayHear, Handles, Connected
<1> QED BY <1>1 DEF InHand

(* A copy that a handler may still hear goes back to a queue, whatever     *)
(* else returns there.                                                     *)
LEMMA SentOnCounts ==
  ASSUME TypeOK, NEW m \in Msgs, NEW s \in Slots, MayHear(s, m),
         InHand(m)' \subseteq InHand(m) \ {<<"hand", s, 0>>},
         NEW N, Adds(m, N), NEW y,
         InQueue("ready", ready', m) \cup InQueue("retrying", retrying', m)
           \subseteq InQueue("ready", ready, m) \cup InQueue("retrying", retrying, m) \cup {y} \cup N
  PROVE  Moves(m)
<1>1. <<"hand", s, 0>> \in Chances(m) /\ <<"hand", s, 0>> \in InHand(m)
  BY HandIsChance
<1>2. /\ InQueue("ready", ready, m) \cap InHand(m) = {}
      /\ InQueue("retrying", retrying, m) \cap InHand(m) = {}
  BY PlacesDiffer
<1>3. Chances(m)' \subseteq ((Chances(m) \ {<<"hand", s, 0>>}) \cup {y}) \cup N
  BY <1>1, <1>2 DEF Chances
<1> QED BY <1>1, <1>3 DEF Moves

(* A handler that acknowledges its copy, or gives it back to the queue.    *)
LEMMA LetsGoCounts ==
  ASSUME TypeOK, NEW m \in Msgs, NEW s \in Slots, Finish(s), pc[s] # "idle", link' = link,
         Quiet(m),
         \/ ready' = ready /\ retrying' = retrying
         \/ /\ MayHear(s, held[s].msg)
            /\ \/ ready' = Put(ready, held[s]) /\ retrying' = retrying
               \/ ready' = ready /\ Resend(held[s])
  PROVE  Gains(m) \/ Moves(m)
<1> DEFINE c == held[s]
           d == [c EXCEPT !.tries = @ + 1]
<1>0. c \in Copy /\ ready \in [Copy -> Nat] /\ retrying \in [Copy -> Nat]
  BY Types DEF Busied
<1>1. InHand(m)' \subseteq InHand(m) \ {<<"hand", s, 0>>}
  <2>1. \A r \in Slots : pc'[r] # "idle" => /\ r # s /\ pc'[r] = pc[r] /\ held'[r] = held[r]
    BY DEF Finish, TypeOK
  <2> QED BY <2>1, HandsLeft
<1>2. IsFiniteSet({}) /\ Cardinality({}) = 0 /\ Adds(m, {})
  <2>1. IsFiniteSet({}) /\ Cardinality({}) = 0
    BY FS_EmptySet
  <2>2. published[m] + repeats[m] >= published[m] + repeats[m] + Cardinality({})
    BY <2>1 DEF TypeOK
  <2> QED BY <2>1, <2>2 DEF Adds, Quiet
<1>3. CASE ready' = ready /\ retrying' = retrying
  <2>1. Chances(m)' \subseteq Chances(m)
    BY <1>1, <1>3 DEF Chances
  <2> QED BY <2>1, GainsNothing
<1>4. CASE MayHear(s, c.msg) /\ ready' = Put(ready, c) /\ retrying' = retrying
  <2>1. CASE c.msg = m
    <3>1. InQueue("ready", ready', m) \subseteq InQueue("ready", ready, m) \cup {<<"ready", c, ready[c] + 1>>}
      BY <1>0, <1>4, <2>1, PutAddsPlace
    <3> QED BY <1>1, <1>2, <1>4, <2>1, <3>1, SentOnCounts
  <2>2. CASE c.msg # m
    <3>1. InQueue("ready", ready', m) \subseteq InQueue("ready", ready, m)
      BY <1>0, <1>4, <2>2, PutAddsPlace
    <3>2. Chances(m)' \subseteq Chances(m)
      BY <1>1, <1>4, <3>1 DEF Chances
    <3> QED BY <3>2, GainsNothing
  <2> QED BY <2>1, <2>2
<1>5. CASE MayHear(s, c.msg) /\ ready' = ready /\ Resend(c)
  <2>1. \/ retrying' = retrying
        \/ retrying' = Put(retrying, d) /\ d \in Copy /\ d.msg = c.msg
    BY <1>0, <1>5, LimitsAssumption DEF Resend, Copy, Tries
  <2>2. CASE retrying' = retrying
    BY <1>3, <1>5, <2>2
  <2>3. CASE retrying' = Put(retrying, d) /\ d \in Copy /\ d.msg = c.msg
    <3> HIDE DEF d
    <3>1. CASE c.msg = m
      <4>1. InQueue("retrying", retrying', m)
              \subseteq InQueue("retrying", retrying, m) \cup {<<"retrying", d, retrying[d] + 1>>}
        BY <1>0, <2>3, <3>1, PutAddsPlace
      <4> QED BY <1>1, <1>2, <1>5, <3>1, <4>1, SentOnCounts
    <3>2. CASE c.msg # m
      <4>1. InQueue("retrying", retrying', m) \subseteq InQueue("retrying", retrying, m)
        BY <1>0, <2>3, <3>2, PutAddsPlace
      <4>2. Chances(m)' \subseteq Chances(m)
        BY <1>1, <1>5, <4>1 DEF Chances
      <4> QED BY <4>2, GainsNothing
    <3> QED BY <3>1, <3>2
  <2> QED BY <2>1, <2>2, <2>3
<1> QED BY <1>3, <1>4, <1>5

(* What comes back with a connection or a process is paid for.             *)
LEMMA RequeueAdds ==
  ASSUME TypeOK, NEW w \in Workers, Requeue(w), NEW m \in Msgs,
         done'[m] = done[m], published'[m] = published[m]
  PROVE  \E N : /\ Adds(m, N)
                /\ InQueue("ready", ready', m) \subseteq InQueue("ready", ready, m) \cup N
<1>1. PICK N : /\ IsFiniteSet(N)
               /\ repeats'[m] >= repeats[m] + Cardinality(N)
               /\ InQueue("ready", ready', m) \subseteq InQueue("ready", ready, m) \cup N
  BY RequeuePays
<1>2. Cardinality(N) \in Nat
  BY <1>1, FS_CardinalityType
<1>3. published[m] \in Nat /\ repeats[m] \in Nat /\ repeats'[m] \in Nat
  BY RequeuePutsBack DEF TypeOK
<1>4. published'[m] + repeats'[m] >= published[m] + repeats[m] + Cardinality(N)
  BY <1>1, <1>2, <1>3
<1> QED BY <1>1, <1>4 DEF Adds

(* A process that exits. *)
LEMMA ExitCounts ==
  ASSUME TypeOK, NEW w \in Workers, Exit(w), NEW m \in Msgs,
         done' = done, published' = published, retrying' = retrying
  PROVE  Gains(m)
<1>1. PICK N : /\ Adds(m, N)
               /\ InQueue("ready", ready', m) \subseteq InQueue("ready", ready, m) \cup N
  BY RequeueAdds DEF Exit
<1>2. \A r \in Slots : MayHear(r, m)' => MayHear(r, m)
  BY Types DEF Exit, TypeOK, MayHear, Handles, Connected
<1>3. InHand(m)' \subseteq InHand(m)
  BY <1>2 DEF InHand
<1>4. Chances(m)' \subseteq Chances(m) \cup N
  BY <1>1, <1>3 DEF Chances
<1> QED BY <1>1, <1>4 DEF Gains

(* A crash after the copy was sent on and before it was acknowledged: the  *)
(* copy is in the retry queue and comes back as well.                      *)
LEMMA CrashAfterResendCounts ==
  ASSUME TypeOK, NEW s \in Slots, CrashAfterResend(s), NEW m \in Msgs
  PROVE  Gains(m) \/ Moves(m)
<1> DEFINE c == held[s]
           d == [c EXCEPT !.tries = @ + 1]
<1>0. /\ pc[s] = "forward" /\ Connected(s) /\ Resend(c) /\ Exit(Of(s)) /\ Requeue(Of(s))
      /\ done' = done /\ published' = published /\ Of(s) \in Workers
      /\ c \in Copy /\ retrying \in [Copy -> Nat]
  BY Types DEF CrashAfterResend, Busied, Exit
<1>1. CASE retrying' = retrying
  BY <1>0, <1>1, ExitCounts
<1>2. CASE retrying' # retrying
  <2>1. retrying' = Put(retrying, d) /\ d \in Copy /\ d.msg = c.msg
    BY <1>0, <1>2, LimitsAssumption DEF Resend, Copy, Tries
  <2> HIDE DEF d
  <2>2. PICK N : /\ Adds(m, N)
                 /\ InQueue("ready", ready', m) \subseteq InQueue("ready", ready, m) \cup N
    BY <1>0, RequeueAdds
  <2>3. \A r \in Slots : pc'[r] # "idle" =>
          /\ Of(r) # Of(s) /\ r # s /\ pc'[r] = pc[r] /\ held'[r] = held[r]
          /\ link'[Of(r)] = link[Of(r)]
    BY <1>0, Types DEF Exit, TypeOK
  <2>4. InHand(m)' \subseteq InHand(m) \ {<<"hand", s, 0>>}
    BY <2>3, HandsLeft
  <2>5. CASE c.msg = m
    <3>1. MayHear(s, m)
      BY <1>0, <2>5 DEF MayHear, Handles
    <3>2. InQueue("retrying", retrying', m)
            \subseteq InQueue("retrying", retrying, m) \cup {<<"retrying", d, retrying[d] + 1>>}
      BY <1>0, <2>1, <2>5, PutAddsPlace
    <3>3. InQueue("ready", ready', m) \cup InQueue("retrying", retrying', m)
            \subseteq InQueue("ready", ready, m) \cup InQueue("retrying", retrying, m)
                       \cup {<<"retrying", d, retrying[d] + 1>>} \cup N
      BY <2>2, <3>2
    <3> QED BY <2>2, <2>4, <3>1, <3>3, SentOnCounts
  <2>6. CASE c.msg # m
    <3>1. InQueue("retrying", retrying', m) \subseteq InQueue("retrying", retrying, m)
      BY <1>0, <2>1, <2>6, PutAddsPlace
    <3>2. Chances(m)' \subseteq Chances(m) \cup N
      BY <2>2, <2>4, <3>1 DEF Chances
    <3> QED BY <2>2, <3>2 DEF Gains
  <2> QED BY <2>5, <2>6
<1> QED BY <1>1, <1>2

(* A lost connection: the copies come back, the handlers go on. *)
LEMMA DisconnectCounts ==
  ASSUME TypeOK, NEW w \in Workers, Disconnect(w), NEW m \in Msgs
  PROVE  Gains(m)
<1>0. /\ Requeue(w) /\ link' = [link EXCEPT ![w] = "closed"]
      /\ UNCHANGED <<retrying, pc, held, published, done>>
  BY DEF Disconnect, task
<1>1. PICK N : /\ Adds(m, N)
               /\ InQueue("ready", ready', m) \subseteq InQueue("ready", ready, m) \cup N
  BY <1>0, RequeueAdds
<1>2. \A r \in Slots : Connected(r)' => Connected(r)
  BY <1>0 DEF TypeOK, Connected
<1>3. \A r \in Slots : MayHear(r, m)' => MayHear(r, m)
  BY <1>0, <1>2 DEF MayHear, Handles
<1>4. InHand(m)' \subseteq InHand(m)
  BY <1>3 DEF InHand
<1>5. Chances(m)' \subseteq Chances(m) \cup N
  BY <1>0, <1>1, <1>4 DEF Chances
<1> QED BY <1>1, <1>5 DEF Gains

(* A copy is published. *)
LEMMA PublishCounts ==
  ASSUME TypeOK, NEW n \in Msgs, Publish(n), NEW m \in Msgs
  PROVE  Gains(m)
<1> DEFINE c == [msg |-> n, tries |-> 0]
<1>0. /\ ready' = Put(ready, c) /\ published' = [published EXCEPT ![n] = @ + 1]
      /\ UNCHANGED <<retrying, pc, held, link, done, repeats>>
      /\ c \in Copy /\ c.msg = n /\ ready \in [Copy -> Nat]
  BY LimitsAssumption DEF Publish, task, Copy, Tries, TypeOK
<1>1. InHand(m)' = InHand(m)
  BY <1>0 DEF InHand, MayHear, Handles, Connected
<1> HIDE DEF c
<1>2. CASE n = m
  <2>1. InQueue("ready", ready', m) \subseteq InQueue("ready", ready, m) \cup {<<"ready", c, ready[c] + 1>>}
    BY <1>0, <1>2, PutAddsPlace
  <2>2. Chances(m)' \subseteq Chances(m) \cup {<<"ready", c, ready[c] + 1>>}
    BY <1>0, <1>1, <2>1 DEF Chances
  <2>3. done'[m] = done[m] /\ published'[m] + repeats'[m] >= published[m] + repeats[m] + 1
    BY <1>0, <1>2 DEF TypeOK
  <2> QED BY <2>2, <2>3, GainsOne
<1>3. CASE n # m
  <2>1. InQueue("ready", ready', m) \subseteq InQueue("ready", ready, m)
    BY <1>0, <1>3, PutAddsPlace
  <2>2. Chances(m)' \subseteq Chances(m)
    BY <1>0, <1>1, <2>1 DEF Chances
  <2>3. Quiet(m)
    BY <1>0, <1>3 DEF TypeOK, Quiet
  <2> QED BY <2>2, <2>3, GainsNothing
<1> QED BY <1>2, <1>3

(* A copy comes back from the retry queue. *)
LEMMA RetryExpiresCounts ==
  ASSUME TypeOK, NEW c \in Copy, RetryExpires(c), NEW m \in Msgs
  PROVE  Gains(m) \/ Moves(m)
<1>0. /\ retrying[c] > 0 /\ retrying' = Take(retrying, c) /\ ready' = Put(ready, c)
      /\ UNCHANGED <<pc, held, link, published, done, repeats>>
      /\ ready \in [Copy -> Nat] /\ retrying \in [Copy -> Nat] /\ Quiet(m)
  BY DEF RetryExpires, task, history, TypeOK, Quiet
<1>1. InHand(m)' = InHand(m)
  BY <1>0 DEF InHand, MayHear, Handles, Connected
<1> DEFINE x == <<"retrying", c, retrying[c]>>
           y == <<"ready", c, ready[c] + 1>>
<1>2. CASE c.msg = m
  <2>1. /\ x \in InQueue("retrying", retrying, m)
        /\ InQueue("retrying", retrying', m) \subseteq InQueue("retrying", retrying, m) \ {x}
    BY <1>0, <1>2, TakeFreesPlace
  <2>2. InQueue("ready", ready', m) \subseteq InQueue("ready", ready, m) \cup {y}
    BY <1>0, <1>2, PutAddsPlace
  <2>3. /\ InQueue("ready", ready, m) \cap InQueue("retrying", retrying, m) = {}
        /\ InQueue("retrying", retrying, m) \cap InHand(m) = {}
    BY PlacesDiffer
  <2> HIDE DEF x, y
  <2>4. x \in Chances(m) /\ Chances(m)' \subseteq (Chances(m) \ {x}) \cup {y}
    BY <1>1, <2>1, <2>2, <2>3 DEF Chances
  <2> QED BY <1>0, <2>4, MovesOne
<1>3. CASE c.msg # m
  <2>1. InQueue("ready", ready', m) \subseteq InQueue("ready", ready, m)
    BY <1>0, <1>3, PutAddsPlace
  <2>2. InQueue("retrying", retrying', m) \subseteq InQueue("retrying", retrying, m)
    BY <1>0, TakeFreesPlace
  <2>3. Chances(m)' \subseteq Chances(m)
    BY <1>1, <2>1, <2>2 DEF Chances
  <2> QED BY <1>0, <2>3, GainsNothing
<1> QED BY <1>2, <1>3

(* A handler takes a copy. *)
LEMMA DeliverCounts ==
  ASSUME TypeOK, NEW s \in Slots, NEW c \in Copy, Deliver(s, c), NEW m \in Msgs
  PROVE  Gains(m) \/ Moves(m)
<1>0. /\ ready[c] > 0 /\ ready' = Take(ready, c) /\ ready \in [Copy -> Nat]
      /\ pc' = [pc EXCEPT ![s] = "begin"] /\ held' = [held EXCEPT ![s] = c]
      /\ UNCHANGED <<retrying, link, published, done, repeats>> /\ Quiet(m)
  BY DEF Deliver, history, TypeOK, Quiet
<1> DEFINE x == <<"ready", c, ready[c]>>
           y == <<"hand", s, 0>>
<1>1. \A r \in Slots : MayHear(r, m)' => MayHear(r, m) \/ (r = s /\ c.msg = m)
  BY <1>0 DEF TypeOK, MayHear, Handles, Connected
<1>2. CASE c.msg = m
  <2>1. x \in InQueue("ready", ready, m) /\ InQueue("ready", ready', m) \subseteq InQueue("ready", ready, m) \ {x}
    BY <1>0, <1>2, TakeFreesPlace
  <2>2. InHand(m)' \subseteq InHand(m) \cup {y}
    BY <1>1 DEF InHand
  <2>3. /\ InQueue("ready", ready, m) \cap InQueue("retrying", retrying, m) = {}
        /\ InQueue("ready", ready, m) \cap InHand(m) = {}
    BY PlacesDiffer
  <2> HIDE DEF x, y
  <2>4. x \in Chances(m) /\ Chances(m)' \subseteq (Chances(m) \ {x}) \cup {y}
    BY <1>0, <2>1, <2>2, <2>3 DEF Chances
  <2> QED BY <1>0, <2>4, MovesOne
<1>3. CASE c.msg # m
  <2>1. InQueue("ready", ready', m) \subseteq InQueue("ready", ready, m)
    BY <1>0, TakeFreesPlace
  <2>2. InHand(m)' \subseteq InHand(m)
    BY <1>1, <1>3 DEF InHand
  <2>3. Chances(m)' \subseteq Chances(m)
    BY <1>0, <2>1, <2>2 DEF Chances
  <2> QED BY <1>0, <2>3, GainsNothing
<1> QED BY <1>2, <1>3

(* markProcessed fails in the database: the copy will come back. *)
LEMMA MarkThrowsCounts ==
  ASSUME TypeOK, NEW s \in Slots, MarkProcessedThrows(s), NEW m \in Msgs
  PROVE  Gains(m)
<1>0. /\ pc[s] = "mark" /\ pc' = [pc EXCEPT ![s] = "failing"]
      /\ UNCHANGED <<held, link, ready, retrying, published, done>>
      /\ repeats' = [repeats EXCEPT ![held[s].msg] = @ + 1]
  BY DEF MarkProcessedThrows, Fail, Goto, queues
<1>1. \A r \in Slots : MayHear(r, m)' => MayHear(r, m) \/ (r = s /\ held[s].msg = m)
  BY <1>0 DEF TypeOK, MayHear, Handles, Connected
<1>2. CASE held[s].msg = m
  <2>1. InHand(m)' \subseteq InHand(m) \cup {<<"hand", s, 0>>}
    BY <1>1 DEF InHand
  <2>2. Chances(m)' \subseteq Chances(m) \cup {<<"hand", s, 0>>}
    BY <1>0, <2>1 DEF Chances
  <2>3. done'[m] = done[m] /\ published'[m] + repeats'[m] >= published[m] + repeats[m] + 1
    BY <1>0, <1>2 DEF TypeOK
  <2> QED BY <2>2, <2>3, GainsOne
<1>3. CASE held[s].msg # m
  <2>1. InHand(m)' \subseteq InHand(m)
    BY <1>1, <1>3 DEF InHand
  <2>2. Chances(m)' \subseteq Chances(m)
    BY <1>0, <2>1 DEF Chances
  <2>3. Quiet(m)
    BY <1>0, <1>3 DEF TypeOK, Quiet
  <2> QED BY <2>2, <2>3, GainsNothing
<1> QED BY <1>2, <1>3

(* Every step of a handler, whichever it is. *)
LEMMA HandlerCounts ==
  ASSUME TypeOK, NEW s \in Slots, HandleMessage(s), NEW m \in Msgs
  PROVE  Hears(m) \/ Gains(m) \/ Moves(m)
<1>0. Of(s) \in Workers /\ {"insert", "overwrite", "work", "mark", "ack", "failing", "forward"}
                            \subseteq PC \ {"idle", "begin"}
  BY Types DEF PC
<1>1. ASSUME FindsProcessed(s) \/ Ack(s) PROVE Gains(m) \/ Moves(m)
  <2>1. Finish(s) /\ pc[s] # "idle" /\ link' = link /\ ready' = ready /\ retrying' = retrying /\ Quiet(m)
    BY <1>1 DEF FindsProcessed, Ack, queues, history, Quiet
  <2> QED BY <2>1, LetsGoCounts
<1>2. ASSUME FindsBusy(s) PROVE Gains(m) \/ Moves(m)
  <2>1. /\ Finish(s) /\ pc[s] = "begin" /\ link' = link /\ ready' = Put(ready, held[s])
        /\ retrying' = retrying /\ Quiet(m)
    BY <1>2 DEF FindsBusy, history, Quiet
  <2>2. MayHear(s, held[s].msg)
    BY <2>1 DEF MayHear, Handles
  <2> QED BY <2>1, <2>2, LetsGoCounts
<1>3. ASSUME Forward(s) PROVE Gains(m) \/ Moves(m)
  <2>1. /\ Finish(s) /\ pc[s] = "forward" /\ link' = link /\ ready' = ready /\ Resend(held[s])
        /\ Quiet(m) /\ Connected(s)
    BY <1>3 DEF Forward, history, Quiet
  <2>2. MayHear(s, held[s].msg)
    BY <2>1 DEF MayHear, Handles
  <2> QED BY <2>1, <2>2, LetsGoCounts
<1>4. ASSUME FindsFree(s) PROVE Gains(m)
  <2>1. /\ pc[s] = "begin" /\ UNCHANGED <<held, link, ready, retrying>> /\ Quiet(m)
        /\ \/ pc' = [pc EXCEPT ![s] = "insert"]
           \/ pc' = [pc EXCEPT ![s] = "overwrite"]
    BY <1>4 DEF FindsFree, queues, history, Quiet
  <2> QED BY <1>0, <2>1, GoesOnCounts
<1>5. ASSUME Insert(s) \/ Overwrite(s) PROVE Gains(m)
  <2>1. /\ pc[s] \in {"insert", "overwrite"} /\ UNCHANGED <<held, link, ready, retrying>> /\ Quiet(m)
        /\ pc' = [pc EXCEPT ![s] = "work"]
    BY <1>5 DEF Insert, Overwrite, Claim, queues, history, Quiet
  <2> QED BY <1>0, <2>1, GoesOnCounts
<1>6. ASSUME AckThrows(s) PROVE Gains(m)
  <2>1. /\ pc[s] = "work" \/ (pc[s] = "ack" /\ ~Connected(s))
        /\ UNCHANGED <<held, link, ready, retrying>> /\ Quiet(m)
        /\ pc' = [pc EXCEPT ![s] = "failing"]
    BY <1>6 DEF AckThrows, Fail, Goto, queues, Quiet
  <2> QED BY <1>0, <2>1, GoesOnCounts
<1>7. ASSUME MarkProcessed(s) \/ MarkFailed(s) PROVE Gains(m)
  <2>1. /\ UNCHANGED <<held, link, ready, retrying>> /\ Quiet(m)
        /\ \/ pc[s] = "mark" /\ pc' = [pc EXCEPT ![s] = "ack"]
           \/ pc[s] = "failing" /\ pc' = [pc EXCEPT ![s] = "forward"]
    BY <1>7 DEF MarkProcessed, MarkFailed, Goto, queues, history, Quiet
  <2> QED BY <1>0, <2>1, GoesOnCounts
<1>8. ASSUME InsertCollides(s) \/ ChannelThrows(s) PROVE Gains(m)
  BY <1>0, <1>8, ExitCounts DEF InsertCollides, ChannelThrows
<1> QED
  BY <1>1, <1>2, <1>3, <1>4, <1>5, <1>6, <1>7, <1>8, HearsCounts DEF HandleMessage

(* Every step pays for what it adds. *)
LEMMA StepCounts ==
  ASSUME TypeOK, DownIsIdle, [Next]_vars, NEW m \in Msgs
  PROVE  Hears(m) \/ Gains(m) \/ Moves(m)
<1>1. ASSUME UNCHANGED <<ready, retrying, pc, held, link, published, done, repeats>> PROVE Gains(m)
  <2>1. Chances(m)' = Chances(m)
    BY <1>1 DEF Chances, InHand, MayHear, Handles, Connected
  <2>2. Quiet(m)
    BY <1>1 DEF Quiet
  <2> QED BY <2>1, <2>2, GainsNothing
<1>2. ASSUME NEW n \in Msgs, LockOverrun(n) \/ OrphanLockExpires(n) PROVE Gains(m)
  BY <1>1, <1>2 DEF LockOverrun, OrphanLockExpires, queues, task, history
<1>3. ASSUME NEW w \in Workers, Crash(w) PROVE Gains(m)
  BY <1>3, ExitCounts DEF Crash
<1>4. ASSUME NEW w \in Workers, Restart(w) PROVE Gains(m)
  <2>0. /\ link[w] = "down" /\ link' = [link EXCEPT ![w] = "open"]
        /\ UNCHANGED <<ready, retrying, pc, held, published, done, repeats>>
    BY <1>4 DEF Restart, queues, task, history
  <2>1. \A r \in Slots : pc[r] # "idle" => Of(r) # w
    BY <1>4, <2>0 DEF DownIsIdle
  <2>2. \A r \in Slots : MayHear(r, m)' => MayHear(r, m)
    BY <2>0, <2>1, Types DEF TypeOK, MayHear, Handles, Connected
  <2>3. InHand(m)' \subseteq InHand(m)
    BY <2>2 DEF InHand
  <2>4. Chances(m)' \subseteq Chances(m)
    BY <2>0, <2>3 DEF Chances
  <2>5. Quiet(m)
    BY <2>0 DEF Quiet
  <2> QED BY <2>4, <2>5, GainsNothing
<1>5. UNCHANGED vars => Gains(m)
  BY <1>1 DEF vars, queues, task, history
<1> QED
  BY <1>2, <1>3, <1>4, <1>5, PublishCounts, RetryExpiresCounts, DeliverCounts, HandlerCounts,
     CrashAfterResendCounts, MarkThrowsCounts, DisconnectCounts
  DEF Next, Receive

(* Handlers run only in processes that live. *)
LEMMA DownIsIdleStep ==
  ASSUME TypeOK, DownIsIdle, [Next]_vars
  PROVE  DownIsIdle'
<1>0. /\ pc \in [Slots -> PC] /\ link \in [Workers -> {"open", "closed", "down"}]
      /\ \A s \in Slots : Of(s) \in Workers
  BY Types DEF TypeOK
<1>1. ASSUME NEW s \in Slots, pc[s] # "idle" \/ Connected(s), link' = link,
             \A r \in Slots \ {s} : pc'[r] = pc[r]
      PROVE  DownIsIdle'
  <2>1. link[Of(s)] # "down"
    BY <1>1 DEF DownIsIdle, Connected
  <2> QED BY <1>1, <2>1 DEF DownIsIdle
<1>2. ASSUME NEW w \in Workers, Exit(w) PROVE DownIsIdle'
  <2>1. /\ \A s \in Slots : pc'[s] = IF Of(s) = w THEN "idle" ELSE pc[s]
        /\ \A s \in Slots : Of(s) # w => link'[Of(s)] = link[Of(s)]
    BY <1>0, <1>2 DEF Exit
  <2> QED BY <2>1 DEF DownIsIdle
<1>3. ASSUME NEW s \in Slots, HandleMessage(s) PROVE DownIsIdle'
  <2>1. ASSUME InsertCollides(s) \/ ChannelThrows(s) PROVE DownIsIdle'
    BY <1>0, <1>2, <2>1 DEF InsertCollides, ChannelThrows
  <2>2. ASSUME ~(InsertCollides(s) \/ ChannelThrows(s))
        PROVE  pc[s] # "idle" /\ link' = link /\ \A r \in Slots \ {s} : pc'[r] = pc[r]
    BY <1>0, <1>3, <2>2
    DEF HandleMessage, FindsProcessed, FindsBusy, FindsFree, Insert, Overwrite, Claim,
        ListenersReturn, MarkProcessed, Ack, AckThrows, MarkFailed, Forward,
        Fail, Finish, Goto
  <2> QED BY <1>1, <2>1, <2>2
<1>4. ASSUME NEW s \in Slots, NEW c \in Copy, Deliver(s, c) PROVE DownIsIdle'
  BY <1>0, <1>1, <1>4 DEF Deliver
<1>5. ASSUME NEW s \in Slots, MarkProcessedThrows(s) PROVE DownIsIdle'
  BY <1>0, <1>1, <1>5 DEF MarkProcessedThrows, Fail, Goto
<1>6. ASSUME NEW s \in Slots, CrashAfterResend(s) PROVE DownIsIdle'
  BY <1>0, <1>2, <1>6 DEF CrashAfterResend
<1>7. ASSUME NEW w \in Workers, Crash(w) \/ Disconnect(w) \/ Restart(w) PROVE DownIsIdle'
  <2>1. CASE Crash(w)
    BY <1>2, <2>1 DEF Crash
  <2>2. CASE Disconnect(w) \/ Restart(w)
    <3>1. pc' = pc /\ \A v \in Workers : link'[v] = "down" => link[v] = "down"
      BY <1>0, <2>2 DEF Disconnect, Restart, task
    <3> QED BY <1>0, <3>1 DEF DownIsIdle
  <2> QED BY <1>7, <2>1, <2>2
<1>8. ASSUME pc' = pc, link' = link PROVE DownIsIdle'
  BY <1>8 DEF DownIsIdle
<1>9. ASSUME NEW m \in Msgs, Publish(m) \/ LockOverrun(m) \/ OrphanLockExpires(m) PROVE DownIsIdle'
  BY <1>8, <1>9 DEF Publish, LockOverrun, OrphanLockExpires, task
<1>10. ASSUME NEW c \in Copy, RetryExpires(c) PROVE DownIsIdle'
  BY <1>8, <1>10 DEF RetryExpires, task
<1>11. UNCHANGED vars => DownIsIdle'
  BY <1>8 DEF vars, task
<1> QED
  BY <1>3, <1>4, <1>5, <1>6, <1>7, <1>9, <1>10, <1>11 DEF Next, Receive

(* At the start there is nothing to hear. *)
LEMMA CountInit == Init => DownIsIdle /\ PassesCounted
<1> SUFFICES ASSUME Init PROVE DownIsIdle /\ PassesCounted
  OBVIOUS
<1>1. DownIsIdle
  BY DEF Init, DownIsIdle
<1>2. ASSUME NEW m \in Msgs
      PROVE  IsFiniteSet(Chances(m)) /\ done[m] + Cardinality(Chances(m)) <= published[m] + repeats[m]
  <2>1. InQueue("ready", ready, m) = {} /\ InQueue("retrying", retrying, m) = {}
    BY DEF Init, InQueue
  <2>2. InHand(m) = {}
    BY DEF Init, InHand, MayHear, Handles
  <2>3. Chances(m) = {}
    BY <2>1, <2>2 DEF Chances
  <2>4. IsFiniteSet(Chances(m)) /\ Cardinality(Chances(m)) = 0
    BY <2>3, FS_EmptySet
  <2>5. done[m] = 0 /\ published[m] = 0 /\ repeats[m] = 0
    BY DEF Init
  <2> QED BY <2>4, <2>5
<1> QED BY <1>1, <1>2 DEF PassesCounted

(* The listeners are called on a message no more often than copies of it were *)
(* published or came back, for any number of copies, processes and faults. *)
THEOREM RepetitionHasCause == Spec => []RepeatsHaveCause
<1>1. CountInv /\ [Next]_vars => CountInv'
  <2> SUFFICES ASSUME CountInv, [Next]_vars PROVE CountInv'
    OBVIOUS
  <2>1. IInv' /\ TypeOK /\ TypeOK'
    BY StepInv DEF CountInv, IInv
  <2>2. DownIsIdle'
    BY <2>1, DownIsIdleStep DEF CountInv
  <2>3. ASSUME NEW m \in Msgs
        PROVE  /\ IsFiniteSet(Chances(m)')
               /\ done'[m] + Cardinality(Chances(m)') <= published'[m] + repeats'[m]
    <3>1. /\ IsFiniteSet(Chances(m))
          /\ done[m] + Cardinality(Chances(m)) <= published[m] + repeats[m]
      BY DEF CountInv, PassesCounted
    <3>2. Hears(m) \/ Gains(m) \/ Moves(m)
      BY <2>1, StepCounts DEF CountInv
    <3> QED BY <2>1, <3>1, <3>2, CountKept
  <2> QED BY <2>1, <2>2, <2>3 DEF CountInv, PassesCounted
<1>2. CountInv => RepeatsHaveCause
  <2> SUFFICES ASSUME CountInv, NEW m \in Msgs PROVE done[m] <= published[m] + repeats[m]
    BY DEF RepeatsHaveCause
  <2>1. /\ Cardinality(Chances(m)) \in Nat
        /\ done[m] + Cardinality(Chances(m)) <= published[m] + repeats[m]
    BY FS_CardinalityType DEF CountInv, PassesCounted
  <2>2. done[m] \in Nat /\ published[m] \in Nat /\ repeats[m] \in Nat
    BY DEF CountInv, IInv, TypeOK
  <2> QED BY <2>1, <2>2
<1>3. Init => CountInv
  BY InitInv, CountInit DEF CountInv
<1> QED BY <1>1, <1>2, <1>3, PTL DEF Spec
=============================================================================
