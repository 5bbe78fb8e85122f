------------------------- MODULE WindowClamps_proofs -------------------------
(***************************************************************************)
(* Proofs about WindowClamps, for any contexts, any keys of them and any   *)
(* capacity of the map: its type invariant, that an entry of the LRU map   *)
(* outlives the call that made it only if its return was missed, and that  *)
(* a context with a key of its own finds its own entries, each once.       *)
(***************************************************************************)
EXTENDS WindowClamps, SharedLemmas

\* An update of the LRU map leaves it within its capacity; the key it was
\* called with may be new, and entries may be gone.
LEMMA UpdateLruFacts ==
    ASSUME NEW k, NEW v, UpdateLru(k, v), IsFiniteSet(DOMAIN enters),
           Cardinality(DOMAIN enters) <= Capacity
    PROVE  /\ IsFiniteSet(DOMAIN enters')
           /\ Cardinality(DOMAIN enters') <= Capacity
           /\ DOMAIN enters' \subseteq DOMAIN enters \cup {k}
           /\ \A x \in DOMAIN enters' :
                 enters'[x] = IF x \in DOMAIN enters THEN enters[x] ELSE v
<1>0. Capacity \in Nat /\ Capacity > 0 /\ Cardinality(DOMAIN enters) \in Nat
  BY CapacityAssumption, FS_CardinalityType
<1>1. CASE HasRoom(enters, k, Capacity)
  <2>1. CASE k \in DOMAIN enters
    BY <1>1, <2>1 DEF UpdateLru, UpdateNoExist
  <2>2. CASE k \notin DOMAIN enters
    <3>1. enters' = [x \in DOMAIN enters \cup {k} |-> IF x = k THEN v ELSE enters[x]]
      BY <1>1, <2>2 DEF UpdateLru, UpdateNoExist, UpdateAny, Put
    <3>2. /\ IsFiniteSet(DOMAIN enters \cup {k})
          /\ Cardinality(DOMAIN enters \cup {k}) = Cardinality(DOMAIN enters) + 1
      BY <2>2, FS_AddElement
    <3>3. Cardinality(DOMAIN enters) < Capacity
      BY <1>1, <2>2 DEF HasRoom
    <3> QED
      BY <1>0, <2>2, <3>1, <3>2, <3>3
  <2> QED
    BY <2>1, <2>2
<1>2. CASE ~HasRoom(enters, k, Capacity)
  <2>1. PICK old \in DOMAIN enters : enters' = Put(DeleteElem(enters, old), k, v)
    BY <1>2 DEF UpdateLru
  <2>2. k \notin DOMAIN enters
    BY <1>2 DEF HasRoom
  <2> DEFINE rest == DOMAIN enters \ {old}
  <2>3. /\ DOMAIN enters' = rest \cup {k}
        /\ \A x \in rest : enters'[x] = enters[x]
        /\ enters'[k] = v
    BY <2>1, <2>2 DEF Put, DeleteElem, Restrict
  <2>4. IsFiniteSet(rest) /\ Cardinality(rest) = Cardinality(DOMAIN enters) - 1
    BY FS_RemoveElement
  <2>5. /\ IsFiniteSet(rest \cup {k})
        /\ Cardinality(rest \cup {k}) = Cardinality(rest) + 1
    BY <2>2, <2>4, FS_AddElement
  <2> QED
    BY <1>0, <2>2, <2>3, <2>4, <2>5
<1> QED
  BY <1>1, <1>2

\* A call that enters or leaves changes the number of those inside by one.
LEMMA InsideFacts ==
    ASSUME NEW x, IsFiniteSet(DOMAIN inside)
    PROVE  /\ Cardinality(DOMAIN inside) \in Nat
           /\ x \notin DOMAIN inside =>
                /\ IsFiniteSet(DOMAIN inside \cup {x})
                /\ Cardinality(DOMAIN inside \cup {x}) = Cardinality(DOMAIN inside) + 1
           /\ x \in DOMAIN inside =>
                /\ IsFiniteSet(DOMAIN inside \ {x})
                /\ Cardinality(DOMAIN inside \ {x}) = Cardinality(DOMAIN inside) - 1
  BY FS_AddElement, FS_RemoveElement, FS_CardinalityType

\* Leaving the function: the context is no longer inside.
LEMMA LeaveFacts ==
    ASSUME TypeOK, NEW x \in DOMAIN inside, Leave(x)
    PROVE  /\ DOMAIN inside' = DOMAIN inside \ {x}
           /\ \A y \in DOMAIN inside' : inside'[y] = inside[y]
           /\ Range(inside') \subseteq Numbers /\ inside[x] \in Numbers
           /\ low' \subseteq Numbers
  BY DEF Leave, DeleteElem, Restrict, TypeOK, Live, Range

\* One call fewer under way and at most one clamp more.
LEMMA LeaveCounted ==
    ASSUME CountedOnReturn, TypeOK, NEW x \in DOMAIN inside, Leave(x), calls' = calls,
           total' = total \/ total' = total + 1
    PROVE  CountedOnReturn' /\ total' \in 0..MaxCalls
<1>1. DOMAIN inside' = DOMAIN inside \ {x}
  BY LeaveFacts
<1>2. /\ Cardinality(DOMAIN inside) \in Nat
      /\ IsFiniteSet(DOMAIN inside')
      /\ Cardinality(DOMAIN inside') = Cardinality(DOMAIN inside) - 1
      /\ Cardinality(DOMAIN inside') \in Nat
  BY <1>1, InsideFacts, FS_CardinalityType DEF CountedOnReturn
<1>3. total \in Nat /\ calls \in Nat /\ calls <= MaxCalls /\ MaxCalls \in Nat
  BY BoundAssumption DEF TypeOK
<1> QED
  BY <1>2, <1>3 DEF CountedOnReturn

-----------------------------------------------------------------------------
LEMMA InitInv == Init => Inv
<1> SUFFICES ASSUME Init PROVE Inv
  OBVIOUS
<1> USE DEF Init
<1>1. /\ DOMAIN inside = {} /\ DOMAIN enters = {} /\ DOMAIN found = {}
      /\ IsFiniteSet({}) /\ Cardinality({}) = 0
  BY FS_EmptySet DEF EmptyMap
<1>2. TypeOK
  BY <1>1, CapacityAssumption, BoundAssumption DEF TypeOK, Live, Range, Numbers
<1>3. CountedOnReturn /\ Owned /\ Issued /\ FoundIsDeleted /\ OwnEntry
  BY <1>1 DEF CountedOnReturn, Owned, Issued, FoundIsDeleted, OwnEntry, Range
<1> QED
  BY <1>1, <1>2, <1>3 DEF Inv

LEMMA EnterStep ==
    ASSUME Inv, NEW x \in Contexts, Enter(x)
    PROVE  Inv'
<1> USE DEF Inv, Enter
<1>1. /\ calls \in Nat /\ calls + 1 \in Numbers /\ calls' = calls + 1
      /\ calls' \in 0..MaxCalls
  BY BoundAssumption DEF TypeOK, Numbers
<1>2. /\ IsFiniteSet(DOMAIN enters')
      /\ Cardinality(DOMAIN enters') <= Capacity
      /\ DOMAIN enters' \subseteq DOMAIN enters \cup {KeyOf[x]}
      /\ \A k \in DOMAIN enters' :
            enters'[k] = IF k \in DOMAIN enters THEN enters[k] ELSE calls + 1
  <2>1. CASE UpdateLru(KeyOf[x], calls + 1)
    BY <2>1, UpdateLruFacts DEF TypeOK
  <2>2. CASE enters' = enters
    BY <2>2 DEF TypeOK
  <2> QED
    BY <2>1, <2>2
<1>3. /\ DOMAIN inside' = DOMAIN inside \cup {x}
      /\ \A y \in DOMAIN inside : inside'[y] = inside[y]
      /\ inside'[x] = calls + 1
  BY DEF Put
<1>4. /\ DOMAIN found' = DOMAIN found
      /\ \A y \in DOMAIN found : found'[y] \subseteq found[y] \cup {calls + 1}
  BY DEF Reuse
<1>5. TypeOK'
  <2>1. DOMAIN inside' \subseteq Contexts /\ Live' \subseteq Numbers
    BY <1>1, <1>3 DEF TypeOK, Live, Range
  <2>2. DOMAIN enters' \subseteq Keys /\ Range(enters') \subseteq Numbers
    BY <1>1, <1>2 DEF TypeOK, Keys, Range
  <2>3. /\ DOMAIN found' \subseteq DOMAIN inside' /\ deleted' \subseteq DOMAIN found'
        /\ \A y \in DOMAIN found' : found'[y] \subseteq Numbers
    BY <1>1, <1>3, <1>4 DEF TypeOK
  <2> QED
    BY <1>1, <1>2, <2>1, <2>2, <2>3 DEF TypeOK
<1>6. CountedOnReturn'
  <2>1. /\ IsFiniteSet(DOMAIN inside)
        /\ Cardinality(DOMAIN inside) \in Nat
        /\ IsFiniteSet(DOMAIN inside')
        /\ Cardinality(DOMAIN inside') = Cardinality(DOMAIN inside) + 1
    BY <1>3, InsideFacts DEF CountedOnReturn
  <2>2. total \in Nat /\ total' = total /\ total + Cardinality(DOMAIN inside) <= calls
    BY DEF CountedOnReturn, TypeOK
  <2> QED
    BY <1>1, <2>1, <2>2 DEF CountedOnReturn
<1>7. x \notin deleted /\ x \notin DOMAIN found
  BY DEF TypeOK
<1>8. Owned'
  BY <1>2, <1>3, <1>7 DEF Owned
<1>9. Issued'
  BY <1>1, <1>2 DEF Issued, Range
<1>10. FoundIsDeleted'
  <2> SUFFICES ASSUME NEW e \in taken, e[1] \in Private, KeyOf[e[1]] \in DOMAIN enters',
                      enters'[KeyOf[e[1]]] = e[3]
               PROVE  e[1] \in DOMAIN found \ deleted
    BY <1>4 DEF FoundIsDeleted, Private
  <2>1. e[3] \in 1..calls
    BY DEF Issued
  <2>2. KeyOf[e[1]] \in DOMAIN enters
    BY <1>1, <1>2, <2>1
  <2> QED
    BY <1>2, <2>2 DEF FoundIsDeleted
<1>11. OwnEntry'
  BY DEF OwnEntry, Private
<1> QED
  BY <1>2, <1>5, <1>6, <1>8, <1>9, <1>10, <1>11

LEMMA ClampStep ==
    ASSUME Inv, NEW x \in Contexts, Clamp(x)
    PROVE  Inv'
<1> USE DEF Inv, Clamp
<1>1. inside[x] \in Numbers
  BY DEF TypeOK, Live, Range
<1>2. TypeOK'
  BY <1>1 DEF TypeOK, Live
<1> QED
  BY <1>2 DEF CountedOnReturn, Owned, Issued, FoundIsDeleted, OwnEntry, Private

\* The entry of a missed return stays, as that of a call that was missed.
LEMMA MissStep ==
    ASSUME Inv, NEW x \in Contexts, Miss(x)
    PROVE  Inv'
<1> USE DEF Inv, Miss
<1>1. /\ DOMAIN inside' = DOMAIN inside \ {x}
      /\ \A y \in DOMAIN inside' : inside'[y] = inside[y]
      /\ Range(inside') \subseteq Numbers /\ inside[x] \in Numbers
      /\ low' \subseteq Numbers
  BY LeaveFacts
<1>2. TypeOK'
  BY <1>1 DEF TypeOK, Live
<1>3. CountedOnReturn'
  BY LeaveCounted
<1>4. Owned'
  <2> SUFFICES ASSUME NEW k \in DOMAIN enters
               PROVE  \E y \in Contexts :
                         /\ KeyOf[y] = k
                         /\ \/ y \in DOMAIN inside' \ deleted /\ inside'[y] = enters[k]
                            \/ <<y, enters[k]>> \in missed'
    BY DEF Owned
  <2>1. PICK y \in Contexts :
           /\ KeyOf[y] = k
           /\ \/ y \in DOMAIN inside \ deleted /\ inside[y] = enters[k]
              \/ <<y, enters[k]>> \in missed
    BY DEF Owned
  <2> QED
    BY <1>1, <2>1
<1>5. Issued' /\ FoundIsDeleted'
  BY DEF Issued, FoundIsDeleted, Private
<1>6. OwnEntry'
  BY DEF OwnEntry, Private
<1> QED
  BY <1>2, <1>3, <1>4, <1>5, <1>6

\* The entry that is found was made by a call that is inside with the same key,
\* or by one that was missed, and nobody has found it before.
LEMMA FindStep ==
    ASSUME Inv, NEW x \in Contexts, Find(x)
    PROVE  Inv'
<1> USE DEF Inv, Find
<1>1. CASE KeyOf[x] \in DOMAIN enters
  <2> DEFINE n == enters[KeyOf[x]]
  <2>1. /\ n \in Numbers /\ inside[x] \in Numbers /\ inside' = inside
        /\ taken' = taken \cup {<<x, inside[x], n>>}
        /\ DOMAIN found' = DOMAIN found \cup {x}
        /\ \A y \in DOMAIN found' : found'[y] = IF y = x THEN {n} ELSE found[y]
    BY <1>1 DEF TypeOK, Live, Range, Put
  <2>2. TypeOK'
    <3>1. taken' \subseteq Contexts \X Numbers \X Numbers
      BY <2>1 DEF TypeOK
    <3>2. /\ DOMAIN found' \subseteq DOMAIN inside' /\ deleted' \subseteq DOMAIN found'
          /\ \A y \in DOMAIN found' : found'[y] \subseteq Numbers
      BY <2>1 DEF TypeOK
    <3> QED
      BY <2>1, <3>1, <3>2 DEF TypeOK, Live
  <2>3. x \in Private =>
          /\ n = inside[x] \/ <<x, n>> \in missed
          /\ \A e \in taken : e[1] = x => e[3] # n
    <3>1. x \in Private => n = inside[x] \/ <<x, n>> \in missed
      BY <1>1 DEF Owned, Private
    <3>2. ASSUME NEW e \in taken, x \in Private, e[1] = x PROVE e[3] # n
      BY <1>1, <3>2 DEF FoundIsDeleted
    <3> QED
      BY <3>1, <3>2
  <2>4. \A e \in taken' : e \in taken \/ e = <<x, inside[x], n>>
    BY <2>1
  <2>5. Private' = Private
    BY DEF Private
  <2>6. OwnEntry'
    <3> SUFFICES ASSUME NEW e \in taken', e[1] \in Private
                 PROVE  /\ e[3] = e[2] \/ <<e[1], e[3]>> \in missed
                        /\ \A f \in taken' : f[1] = e[1] /\ f[3] = e[3] => f = e
      BY <2>5 DEF OwnEntry
    <3>1. CASE e \in taken
      BY <2>3, <2>4, <3>1 DEF OwnEntry
    <3>2. CASE e = <<x, inside[x], n>>
      BY <2>3, <2>4, <3>2
    <3> QED
      BY <2>4, <3>1, <3>2
  <2>7. FoundIsDeleted'
    <3> SUFFICES ASSUME NEW e \in taken', e[1] \in Private, KeyOf[e[1]] \in DOMAIN enters,
                        enters[KeyOf[e[1]]] = e[3]
                 PROVE  e[1] \in DOMAIN found' \ deleted
      BY <2>5 DEF FoundIsDeleted
    <3>1. CASE e \in taken
      BY <2>1, <3>1 DEF FoundIsDeleted
    <3>2. CASE e = <<x, inside[x], n>>
      BY <2>1, <3>2 DEF TypeOK
    <3> QED
      BY <2>4, <3>1, <3>2
  <2>8. Issued'
    BY <1>1, <2>4 DEF Issued, Range
  <2>9. CountedOnReturn' /\ Owned'
    BY <2>1 DEF CountedOnReturn, Owned
  <2> QED
    BY <2>2, <2>6, <2>7, <2>8, <2>9
<1>2. CASE KeyOf[x] \notin DOMAIN enters
  <2>1. Leave(x) /\ found' = found /\ taken' = taken
    BY <1>2
  <2>2. /\ DOMAIN inside' = DOMAIN inside \ {x}
        /\ \A y \in DOMAIN inside' : inside'[y] = inside[y]
        /\ Range(inside') \subseteq Numbers
        /\ low' \subseteq Numbers
    BY <2>1, LeaveFacts
  <2>3. TypeOK'
    BY <2>1, <2>2 DEF TypeOK, Live
  <2>4. CountedOnReturn'
    BY <2>1, LeaveCounted
  <2>5. Owned'
    BY <1>2, <2>2 DEF Owned
  <2> QED
    BY <2>1, <2>3, <2>4, <2>5 DEF Issued, FoundIsDeleted, OwnEntry, Private
<1> QED
  BY <1>1, <1>2

LEMMA DeleteStep ==
    ASSUME Inv, NEW x \in Contexts, Delete(x)
    PROVE  Inv'
<1> USE DEF Inv, Delete
<1>1. /\ IsFiniteSet(DOMAIN enters')
      /\ Cardinality(DOMAIN enters') <= Capacity
      /\ DOMAIN enters' = DOMAIN enters \ {KeyOf[x]}
      /\ \A k \in DOMAIN enters' : enters'[k] = enters[k]
  BY CapacityAssumption, DeleteElemFacts DEF TypeOK
<1>2. TypeOK'
  BY <1>1 DEF TypeOK, Live, Range
<1>3. Owned'
  BY <1>1 DEF Owned
<1>4. Issued'
  BY <1>1 DEF Issued, Range
<1>5. FoundIsDeleted'
  <2> SUFFICES ASSUME NEW e \in taken, e[1] \in Private, KeyOf[e[1]] \in DOMAIN enters',
                      enters'[KeyOf[e[1]]] = e[3]
               PROVE  e[1] \in DOMAIN found \ deleted'
    BY DEF FoundIsDeleted, Private
  <2>1. e[1] # x
    BY <1>1
  <2> QED
    BY <1>1, <2>1 DEF FoundIsDeleted
<1> QED
  BY <1>1, <1>2, <1>3, <1>4, <1>5 DEF CountedOnReturn, OwnEntry, Private

LEMMA ExamineStep ==
    ASSUME Inv, NEW x \in Contexts, Examine(x)
    PROVE  Inv'
<1> USE DEF Inv, Examine
<1>1. x \in DOMAIN found /\ x \in DOMAIN inside
  BY DEF TypeOK
<1>2. /\ DOMAIN inside' = DOMAIN inside \ {x}
      /\ \A y \in DOMAIN inside' : inside'[y] = inside[y]
      /\ Range(inside') \subseteq Numbers
      /\ low' \subseteq Numbers
  BY <1>1, LeaveFacts
<1>3. /\ DOMAIN found' = DOMAIN found \ {x}
      /\ \A y \in DOMAIN found' : found'[y] = found[y]
  BY DEF DeleteElem, Restrict
<1>4. total' = total \/ total' = total + 1
  OBVIOUS
<1>5. CountedOnReturn' /\ total' \in 0..MaxCalls
  BY <1>1, <1>4, LeaveCounted
<1>6. TypeOK'
  BY <1>2, <1>3, <1>5 DEF TypeOK, Live
<1>7. Owned'
  BY <1>2 DEF Owned
<1>8. FoundIsDeleted'
  <2> SUFFICES ASSUME NEW e \in taken, e[1] \in Private, KeyOf[e[1]] \in DOMAIN enters,
                      enters[KeyOf[e[1]]] = e[3]
               PROVE  e[1] \in DOMAIN found' \ deleted'
    BY DEF FoundIsDeleted, Private
  <2>1. e[1] \in DOMAIN found \ deleted
    BY DEF FoundIsDeleted
  <2>2. e[1] # x
    BY <2>1
  <2> QED
    BY <1>3, <2>1, <2>2
<1> QED
  BY <1>5, <1>6, <1>7, <1>8 DEF Issued, OwnEntry, Private

LEMMA NextInv == Inv /\ [Next]_vars => Inv'
<1> SUFFICES ASSUME Inv, [Next]_vars PROVE Inv'
  OBVIOUS
<1>1. CASE Next
  BY <1>1, EnterStep, ClampStep, MissStep, FindStep, DeleteStep, ExamineStep DEF Next
<1>2. CASE UNCHANGED vars
  BY <1>2 DEF vars, Inv, TypeOK, Live, CountedOnReturn, Owned, Issued,
              FoundIsDeleted, OwnEntry, Private
<1> QED
  BY <1>1, <1>2

LEMMA Invariant == Spec => []Inv
  BY InitInv, NextInv, PTL DEF Spec

\* Type correctness of tcp-window-clamps: the LRU map stays within its
\* max_entries, and no more clamps are counted than calls were made.
THEOREM TypeCorrect == Spec => []TypeOK
  BY Invariant, PTL DEF Inv

\* An entry of the map outlives the call that made it only if the return of that
\* call was missed, whoever shares its key and whatever is evicted.
THEOREM NoStaleEntry == Spec => []EntriesAlive
<1>1. Inv => EntriesAlive
  <2> SUFFICES ASSUME Inv, NEW k \in DOMAIN enters
               PROVE  enters[k] \in Live \cup {m[2] : m \in missed}
    BY DEF EntriesAlive, Range
  <2>1. PICK x \in Contexts :
           \/ x \in DOMAIN inside \ deleted /\ inside[x] = enters[k]
           \/ <<x, enters[k]>> \in missed
    BY DEF Inv, Owned
  <2>2. CASE x \in DOMAIN inside \ deleted /\ inside[x] = enters[k]
    BY <2>2 DEF Live, Range
  <2>3. CASE <<x, enters[k]>> \in missed
    <3>1. <<x, enters[k]>>[2] = enters[k]
      OBVIOUS
    <3> QED
      BY <2>3, <3>1
  <2> QED
    BY <2>1, <2>2, <2>3
<1> QED
  BY <1>1, Invariant, PTL

\* A context with a key of its own finds the entry of its own call, or of one of
\* its calls whose return was missed, and no entry twice.
THEOREM FindsItsOwn == Spec => []OwnEntry
  BY Invariant, PTL DEF Inv

=============================================================================
