--------------------------- MODULE Exporter_proofs ---------------------------
(***************************************************************************)
(* Proofs about package exporter (exporter/): what is attached at start    *)
(* (Attach), the counters fed by a perf event array (PerfEventSink) and    *)
(* the scrape of a map (MapScrape), for every value of their constants.    *)
(***************************************************************************)
EXTENDS Attach, PerfEventSink, MapScrape, SharedLemmas, SequenceTheorems

-----------------------------------------------------------------------------
(***************************************************************************)
(* Attach: the type invariant, that a program reported as attached is one  *)
(* that runs on every CPU, and that none is attached twice.                *)
(***************************************************************************)

\* The names of the list that is attached.
LEMMA ListFacts ==
    ASSUME configs \in Lists
    PROVE  /\ Len(configs) \in Nat /\ DOMAIN configs = 1..Len(configs)
           /\ \A i \in 1..Len(configs) : configs[i] \in Names
           /\ Range(configs) = {configs[i] : i \in 1..Len(configs)}
<1>1. configs \in Seq(Range(configs))
  BY ListsAssumption
<1>2. Len(configs) \in Nat /\ DOMAIN configs = 1..Len(configs)
  BY <1>1
<1>3. Range(configs) = {configs[i] : i \in 1..Len(configs)}
  BY <1>2 DEF Range
<1> QED
  BY <1>2, <1>3 DEF Names

\* Configurations have no program in common.
LEMMA Disjoint ==
    ASSUME NEW m \in Names, NEW n \in Names, m # n, NEW p \in ProgramsOf[m]
    PROVE  p \notin ProgramsOf[n]
  BY ProgramsAssumption

LEMMA AttachInitInv == AttachInit => AttachInv
<1> SUFFICES ASSUME AttachInit PROVE AttachInv
  OBVIOUS
<1> USE DEF AttachInit
<1>1. Len(configs) \in Nat
  BY ListFacts
<1>2. AttachTypeOK
  BY <1>1 DEF AttachTypeOK, Nothing
<1>3. OneByOne
  BY <1>1 DEF OneByOne, Nothing
<1>4. UntouchedYet /\ OpenedSoFar /\ RecordsAreTrue /\ AttachedOnce
  BY DEF UntouchedYet, OpenedSoFar, RecordsAreTrue, AttachedOnce
<1> QED
  BY <1>2, <1>3, <1>4 DEF AttachInv

LEMMA LoadStep ==
    ASSUME AttachInv, Load
    PROVE  AttachInv'
<1> USE DEF AttachInv, Load
<1>0. /\ index \in Nat /\ Len(configs) \in Nat /\ index <= Len(configs) /\ index > 0
      /\ configs[index] \in Names
  BY ListFacts DEF AttachTypeOK, OneByOne
<1>1. CASE phase' = "exited" /\ UNCHANGED <<todo, attachments>>
  <2>1. AttachTypeOK' /\ OneByOne'
    BY <1>1 DEF AttachTypeOK, OneByOne
  <2>2. UntouchedYet' /\ OpenedSoFar' /\ AttachedOnce'
    BY <1>1 DEF UntouchedYet, OpenedSoFar, AttachedOnce, InHand
  <2>3. RecordsAreTrue'
    BY <1>1 DEF RecordsAreTrue, RunsEverywhere
  <2> QED
    BY <2>1, <2>2, <2>3
<1>2. CASE /\ configs[index] \notin modules
           /\ phase' = "attach"
           /\ todo' = ProgramsOf[configs[index]]
           /\ attachments' = Nothing
  <2>1. AttachTypeOK'
    BY <1>0, <1>2 DEF AttachTypeOK, Programs
  <2>2. OneByOne'
    BY <1>0, <1>2 DEF OneByOne, Nothing
  <2>3. UntouchedYet'
    <3>1. \A p \in ProgramsOf[configs[index]] : p \notin ProgramsIn(modules)
      BY <1>0, <1>2, Disjoint DEF ProgramsIn, AttachTypeOK
    <3>2. \A p \in Programs :
             p \in todo' \/ p \notin ProgramsIn(modules \cup InHand)'
                 => p \notin ProgramsIn(modules \cup InHand)
      BY <1>2, <3>1 DEF ProgramsIn, InHand
    <3> QED
      BY <3>2 DEF UntouchedYet
  <2>4. OpenedSoFar' /\ RecordsAreTrue' /\ AttachedOnce'
    BY <1>2 DEF OpenedSoFar, RecordsAreTrue, AttachedOnce, OneByOne, RunsEverywhere, Nothing
  <2> QED
    BY <2>1, <2>2, <2>3, <2>4
<1> QED
  BY <1>1, <1>2

\* The programs in hand are of no configuration that is done.
LEMMA HandFacts ==
    ASSUME AttachInv, phase = "attach", NEW p \in ProgramsOf[configs[index]]
    PROVE  /\ p \in Programs /\ p \notin ProgramsIn(modules)
           /\ p \in ProgramsIn(modules \cup InHand)
           /\ \A n \in modules : p \notin ProgramsOf[n]
<1>1. configs[index] \in Names /\ configs[index] \notin modules /\ modules \subseteq Names
  BY ListFacts DEF AttachInv, AttachTypeOK, OneByOne
<1> QED
  BY <1>1, Disjoint DEF Programs, ProgramsIn, InHand

LEMMA AttachGenericStep ==
    ASSUME AttachInv, AttachGeneric
    PROVE  AttachInv'
<1> USE DEF AttachInv, AttachGeneric
<1>1. PICK p \in todo \ PerfPrograms, ok \in BOOLEAN :
          /\ Record(p, ok)
          /\ links' = IF ok THEN [links EXCEPT ![p] = [c \in Cpus |-> @[c] + 1]] ELSE links
          /\ todo' = todo \ {p}
  OBVIOUS
<1>2. /\ p \in ProgramsOf[configs[index]] /\ p \in Programs
      /\ \A n \in modules : p \notin ProgramsOf[n]
      /\ p \in ProgramsIn(modules \cup InHand)
      /\ p \notin DOMAIN attachments /\ open.prog = {}
  BY HandFacts DEF OneByOne
<1>3. \A c \in Cpus : links[p][c] = 0
  BY <1>2 DEF UntouchedYet
<1>4. /\ links' \in [Programs -> [Cpus -> Nat]]
      /\ \A q \in Programs : q # p => links'[q] = links[q]
      /\ \A c \in Cpus : links'[p][c] = IF ok THEN 1 ELSE 0
  BY <1>1, <1>2, <1>3 DEF AttachTypeOK
<1>5. AttachTypeOK'
  BY <1>1, <1>4 DEF AttachTypeOK
<1>6. OneByOne'
  BY <1>1, <1>2 DEF OneByOne, Record
<1>7. UntouchedYet'
  BY <1>1, <1>2, <1>4 DEF UntouchedYet, InHand
<1>8. OpenedSoFar' /\ AttachedOnce'
  BY <1>2, <1>4 DEF OpenedSoFar, AttachedOnce
<1>9. RecordsAreTrue'
  <2>1. RunsEverywhere(p)' = ok
    <3>1. CASE ok
      BY <1>4, <3>1 DEF RunsEverywhere
    <3>2. CASE ~ok
      <4>1. RunsEverywhere(p)' = FALSE
        BY <1>4, <3>2, CpusAssumption DEF RunsEverywhere
      <4>2. ok = FALSE
        BY <3>2
      <4> QED
        BY <4>1, <4>2
    <3> QED
      BY <3>1, <3>2
  <2>2. \A q \in Programs : q # p => RunsEverywhere(q)' = RunsEverywhere(q)
    BY <1>4 DEF RunsEverywhere
  <2>3. /\ DOMAIN attachments' = DOMAIN attachments \cup {p}
        /\ attachments'[p] = ok
        /\ \A q \in DOMAIN attachments : attachments'[q] = attachments[q]
    BY <1>1, <1>2 DEF Record
  <2>4. DOMAIN attachments \subseteq Programs
    BY HandFacts DEF OneByOne
  <2>5. \A n \in modules : ProgramsOf[n] \subseteq Programs
    BY DEF AttachTypeOK, Programs
  <2> QED
    BY <1>2, <2>1, <2>2, <2>3, <2>4, <2>5 DEF RecordsAreTrue
<1> QED
  BY <1>5, <1>6, <1>7, <1>8, <1>9

LEMMA ParseSectionStep ==
    ASSUME AttachInv, ParseSection
    PROVE  AttachInv'
<1>1. PICK p \in todo \cap PerfPrograms :
          /\ todo' = todo \ {p}
          /\ \/ Record(p, FALSE) /\ UNCHANGED open
             \/ open' = [prog |-> {p}, cpus |-> Cpus] /\ UNCHANGED attachments
  BY DEF ParseSection
<1>2. /\ phase = "attach" /\ open.prog = {}
      /\ UNCHANGED <<configs, phase, index, modules, attachedProgs, links>>
  BY DEF ParseSection
<1>3. /\ p \in ProgramsOf[configs[index]] /\ p \in Programs
      /\ p \in ProgramsIn(modules \cup InHand)
      /\ p \notin DOMAIN attachments
      /\ attachments \in [ProgramsOf[configs[index]] \ todo -> BOOLEAN]
  BY <1>1, <1>2, HandFacts DEF AttachInv, OneByOne
<1>4. \A c \in Cpus : links[p][c] = 0
  BY <1>1, <1>3 DEF AttachInv, UntouchedYet
<1>5. \A q : RunsEverywhere(q)' = RunsEverywhere(q)
  BY <1>2 DEF RunsEverywhere
<1>6. UntouchedYet' /\ AttachedOnce'
  BY <1>1, <1>2 DEF AttachInv, UntouchedYet, AttachedOnce, InHand
<1>7. CASE Record(p, FALSE) /\ UNCHANGED open
  <2>1. /\ DOMAIN attachments' = DOMAIN attachments \cup {p}
        /\ attachments'[p] = FALSE
        /\ \A q \in DOMAIN attachments : attachments'[q] = attachments[q]
    BY <1>3, <1>7 DEF Record
  <2>2. attachments' \in [ProgramsOf[configs[index]] \ todo' -> BOOLEAN]
    <3> DEFINE D == ProgramsOf[configs[index]] \ todo'
    <3>1. DOMAIN attachments \cup {p} = D
      BY <1>1, <1>3
    <3>2. attachments' = [q \in D |-> IF q = p THEN FALSE ELSE attachments[q]]
      BY <1>7, <3>1 DEF Record
    <3>3. \A q \in D : q # p => attachments[q] \in BOOLEAN
      BY <1>1, <1>3
    <3> HIDE DEF D
    <3>4. attachments' \in [D -> BOOLEAN]
      BY <3>2, <3>3
    <3> QED
      BY <3>4 DEF D
  <2>3. AttachTypeOK'
    BY <1>1, <1>2, <1>7 DEF AttachInv, AttachTypeOK
  <2>4. OneByOne'
    <3>1. todo' \cup open'.prog = todo'
      BY <1>2, <1>7
    <3> QED
      BY <1>1, <1>2, <1>7, <2>2, <3>1 DEF AttachInv, OneByOne
  <2>5. RecordsAreTrue'
    <3>1. RunsEverywhere(p) = FALSE
      BY <1>4, CpusAssumption DEF RunsEverywhere
    <3>2. attachments'[p] = RunsEverywhere(p)'
      BY <1>5, <2>1, <3>1
    <3> QED
      BY <1>2, <1>5, <2>1, <3>2 DEF AttachInv, RecordsAreTrue
  <2> QED
    BY <1>2, <1>6, <1>7, <2>3, <2>4, <2>5 DEF AttachInv, OpenedSoFar
<1>8. CASE open' = [prog |-> {p}, cpus |-> Cpus] /\ UNCHANGED attachments
  <2>1. AttachTypeOK'
    BY <1>1, <1>2, <1>8 DEF AttachInv, AttachTypeOK
  <2>2. OneByOne'
    <3>1. ProgramsOf[configs[index]] \ (todo' \cup open'.prog)
            = ProgramsOf[configs[index]] \ todo
      BY <1>1, <1>8
    <3> QED
      BY <1>1, <1>2, <1>3, <1>8, <3>1 DEF AttachInv, OneByOne
  <2>3. OpenedSoFar'
    BY <1>2, <1>4, <1>8 DEF OpenedSoFar
  <2>4. RecordsAreTrue'
    BY <1>2, <1>5, <1>8 DEF AttachInv, RecordsAreTrue
  <2> QED
    BY <1>6, <2>1, <2>2, <2>3, <2>4 DEF AttachInv
<1> QED
  BY <1>1, <1>7, <1>8

LEMMA OpenOnCpuStep ==
    ASSUME AttachInv, OpenOnCpu
    PROVE  AttachInv'
<1> USE DEF AttachInv, OpenOnCpu
<1>1. PICK p \in open.prog, c \in open.cpus, ok \in BOOLEAN :
          /\ links' = IF ok THEN [links EXCEPT ![p][c] = @ + 1] ELSE links
          /\ IF ok /\ open.cpus # {c}
             THEN open' = [open EXCEPT !.cpus = @ \ {c}] /\ UNCHANGED attachments
             ELSE open' = [prog |-> {}, cpus |-> {}] /\ Record(p, ok)
  OBVIOUS
<1>2. /\ phase = "attach" /\ open.prog = {p} /\ p \notin todo
      /\ p \in ProgramsOf[configs[index]] /\ p \in Programs
      /\ p \in ProgramsIn(modules \cup InHand)
      /\ \A n \in modules : p \notin ProgramsOf[n]
      /\ p \notin DOMAIN attachments
  BY <1>1, HandFacts DEF OneByOne
<1>3. /\ open \in [prog : SUBSET PerfPrograms, cpus : SUBSET Cpus]
      /\ c \in Cpus /\ links[p][c] = 0
  BY <1>1 DEF AttachTypeOK, OpenedSoFar
<1>4. /\ links' \in [Programs -> [Cpus -> Nat]]
      /\ \A q \in Programs : q # p => links'[q] = links[q]
      /\ \A d \in Cpus : d # c => links'[p][d] = links[p][d]
      /\ links'[p][c] = IF ok THEN 1 ELSE 0
  BY <1>1, <1>2, <1>3 DEF AttachTypeOK
<1>5. AttachTypeOK'
  <2>1. open' \in [prog : SUBSET PerfPrograms, cpus : SUBSET Cpus]
    BY <1>1, <1>3
  <2> QED
    BY <1>4, <2>1 DEF AttachTypeOK
<1>6. UntouchedYet'
  BY <1>2, <1>4 DEF UntouchedYet, InHand
<1>7. AttachedOnce'
  BY <1>3, <1>4 DEF AttachedOnce
<1>8. \A q \in Programs : q # p => RunsEverywhere(q)' = RunsEverywhere(q)
  BY <1>4 DEF RunsEverywhere
<1>9. DOMAIN attachments \subseteq Programs
  BY <1>2, HandFacts DEF OneByOne
<1>10. \A n \in modules : ProgramsOf[n] \subseteq Programs
  BY DEF AttachTypeOK, Programs
<1>11. CASE ok /\ open.cpus # {c}
  <2>1. open'.prog = open.prog /\ open'.cpus = open.cpus \ {c} /\ attachments' = attachments
    BY <1>1, <1>3, <1>11
  <2>2. OneByOne'
    BY <2>1 DEF OneByOne
  <2>3. OpenedSoFar'
    BY <1>2, <1>3, <1>4, <1>11, <2>1 DEF OpenedSoFar
  <2>4. RecordsAreTrue'
    BY <1>2, <1>8, <1>9, <1>10, <2>1 DEF RecordsAreTrue
  <2> QED
    BY <1>5, <1>6, <1>7, <2>2, <2>3, <2>4
<1>12. CASE ~(ok /\ open.cpus # {c})
  <2>1. open' = [prog |-> {}, cpus |-> {}] /\ Record(p, ok)
    BY <1>1, <1>12
  <2>2. /\ DOMAIN attachments' = DOMAIN attachments \cup {p}
        /\ attachments'[p] = ok
        /\ \A q \in DOMAIN attachments : attachments'[q] = attachments[q]
    BY <1>2, <2>1 DEF Record
  <2>3. OneByOne'
    <3>1. attachments' \in [ProgramsOf[configs[index]] \ todo -> BOOLEAN]
      BY <1>1, <1>2, <2>1 DEF OneByOne, Record
    <3> QED
      BY <2>1, <3>1 DEF OneByOne
  <2>4. OpenedSoFar'
    BY <2>1 DEF OpenedSoFar
  <2>5. RunsEverywhere(p)' = ok
    <3>1. CASE ok
      BY <1>2, <1>4, <1>12, <3>1 DEF RunsEverywhere, OpenedSoFar
    <3>2. CASE ~ok
      <4>1. RunsEverywhere(p)' = FALSE
        BY <1>3, <1>4, <3>2 DEF RunsEverywhere
      <4>2. ok = FALSE
        BY <3>2
      <4> QED
        BY <4>1, <4>2
    <3> QED
      BY <3>1, <3>2
  <2>6. RecordsAreTrue'
    BY <1>2, <1>8, <1>9, <1>10, <2>2, <2>5 DEF RecordsAreTrue
  <2> QED
    BY <1>5, <1>6, <1>7, <2>3, <2>4, <2>6
<1> QED
  BY <1>11, <1>12

LEMMA KeepStep ==
    ASSUME AttachInv, Keep
    PROVE  AttachInv'
<1> USE DEF AttachInv, Keep
<1> DEFINE n == configs[index]
<1>0. /\ index \in Nat /\ Len(configs) \in Nat /\ index > 0 /\ index <= Len(configs)
      /\ n \in Names /\ n \notin modules
  BY ListFacts DEF AttachTypeOK, OneByOne
<1>1. attachments \in [ProgramsOf[n] -> BOOLEAN]
  <2>1. ProgramsOf[n] \ (todo \cup open.prog) = ProgramsOf[n]
    OBVIOUS
  <2> QED
    BY <2>1 DEF OneByOne
<1>2. /\ modules' = modules \cup {n}
      /\ DOMAIN attachedProgs' = modules'
      /\ attachedProgs'[n] = attachments
      /\ \A m \in modules : attachedProgs'[m] = attachedProgs[m]
  BY <1>0 DEF AttachTypeOK
<1>3. AttachTypeOK'
  BY <1>0, <1>1, <1>2 DEF AttachTypeOK
<1>4. OneByOne'
  <2>1. modules' = {configs[i] : i \in 1..index' - 1}
    BY <1>0, <1>2 DEF OneByOne
  <2> QED
    BY <2>1 DEF OneByOne
<1>5. UntouchedYet'
  <2>1. ProgramsIn(modules \cup InHand)' = ProgramsIn(modules \cup InHand)
    BY <1>2 DEF ProgramsIn, InHand
  <2> QED
    BY <2>1 DEF UntouchedYet
<1>6. RecordsAreTrue'
  BY <1>1, <1>2 DEF RecordsAreTrue, RunsEverywhere
<1> QED
  BY <1>3, <1>4, <1>5, <1>6 DEF OpenedSoFar, AttachedOnce

LEMMA ServeStep ==
    ASSUME AttachInv, Serve
    PROVE  AttachInv'
<1> USE DEF AttachInv, Serve
<1>1. index = Len(configs) + 1 /\ Len(configs) \in Nat
  BY ListFacts DEF AttachTypeOK, OneByOne
<1>2. modules = Range(configs)
  BY <1>1, ListFacts DEF OneByOne
<1>3. AttachTypeOK' /\ OneByOne'
  BY <1>1, <1>2 DEF AttachTypeOK, OneByOne
<1> QED
  BY <1>3 DEF UntouchedYet, OpenedSoFar, RecordsAreTrue, AttachedOnce, InHand, RunsEverywhere

LEMMA AttachNextInv == AttachInv /\ [AttachNext]_attachVars => AttachInv'
<1> SUFFICES ASSUME AttachInv, [AttachNext]_attachVars PROVE AttachInv'
  OBVIOUS
<1>1. CASE AttachNext
  BY <1>1, LoadStep, AttachGenericStep, ParseSectionStep, OpenOnCpuStep, KeepStep, ServeStep
  DEF AttachNext
<1>2. CASE UNCHANGED attachVars
  <2>1. AttachTypeOK' /\ OneByOne'
    BY <1>2 DEF attachVars, AttachInv, AttachTypeOK, OneByOne
  <2>2. UntouchedYet' /\ OpenedSoFar' /\ AttachedOnce'
    BY <1>2 DEF attachVars, AttachInv, UntouchedYet, OpenedSoFar, AttachedOnce, InHand
  <2>3. RecordsAreTrue'
    BY <1>2 DEF attachVars, AttachInv, RecordsAreTrue, RunsEverywhere
  <2> QED
    BY <2>1, <2>2, <2>3 DEF AttachInv
<1> QED
  BY <1>1, <1>2

LEMMA AttachInvariant == AttachSpec => []AttachInv
  BY AttachInitInv, AttachNextInv, PTL DEF AttachSpec

\* Type correctness; an exporter that serves has gone through every program of
\* every configuration.
THEOREM AttachTypeCorrect == AttachSpec => []AttachTypeOK
  BY AttachInvariant, PTL DEF AttachInv

\* What the exporter reports of a program is true: attached exactly if it runs on
\* every CPU.
THEOREM ReportsAreTrue == AttachSpec => []AttachedRuns
<1>1. AttachInv => AttachedRuns
  BY DEF AttachInv, AttachTypeOK, RecordsAreTrue, AttachedRuns, Reported, RunsEverywhere
<1> QED
  BY <1>1, AttachInvariant, PTL

\* No program is attached twice on one CPU.
THEOREM NoDoubleAttach == AttachSpec => []AttachedOnce
  BY AttachInvariant, PTL DEF AttachInv

-----------------------------------------------------------------------------
(***************************************************************************)
(* PerfEventSink: every event is accounted for, none is counted twice and  *)
(* scrapes only grow between flushes.  The numbers are sums over the ring, *)
(* the counterVecs and their labels; each action changes one or two of     *)
(* their terms.                                                            *)
(***************************************************************************)
\* The values of a sequence's elements, as w gives them.
Each(w, s) == [i \in DOMAIN s |-> w[s[i]]]

LEMMA EachFacts ==
    ASSUME NEW S, NEW s \in Seq(S), NEW w \in [S -> Nat]
    PROVE  Each(w, s) \in Seq(Int) /\ SumFunction(Each(w, s)) \in Nat
<1>1. Len(s) \in Nat /\ DOMAIN s = 1..Len(s) /\ \A i \in 1..Len(s) : w[s[i]] \in Nat
  OBVIOUS
<1>2. Each(w, s) \in Seq(Int)
  BY <1>1 DEF Each
<1>3. DOMAIN Each(w, s) = 1..Len(s) /\ \A i \in 1..Len(s) : Each(w, s)[i] \in Nat
  BY <1>1 DEF Each
<1>4. SumFunction(Each(w, s)) \in Nat
  BY <1>1, <1>3, IntervalFacts, SumNat DEF SumFunction
<1> QED
  BY <1>2, <1>4

LEMMA EachAppend ==
    ASSUME NEW S, NEW s \in Seq(S), NEW w \in [S -> Nat], NEW x \in S
    PROVE  SumFunction(Each(w, Append(s, x))) = SumFunction(Each(w, s)) + w[x]
<1>1. Each(w, Append(s, x)) = Append(Each(w, s), w[x])
  BY DEF Each
<1> QED
  BY <1>1, EachFacts, SumAppend

LEMMA EachTail ==
    ASSUME NEW S, NEW s \in Seq(S), NEW w \in [S -> Nat], s # <<>>
    PROVE  SumFunction(Each(w, s)) = w[Head(s)] + SumFunction(Each(w, Tail(s)))
<1>1. Tail(Each(w, s)) = Each(w, Tail(s)) /\ Head(Each(w, s)) = w[Head(s)]
  BY DEF Each
<1>2. Each(w, s) # <<>>
  BY DEF Each
<1> QED
  BY <1>1, <1>2, EachFacts, SumTail

-----------------------------------------------------------------------------
Weights == [rec \in Records(Nat) |-> Weight(rec)]
Ones(e) == [rec \in Records(Nat) |-> Of(rec, e)]

LEMMA RecordFacts ==
    /\ \A e \in Kinds : EventRecord(e) \in Records(Nat) /\ ~IsLost(EventRecord(e))
    /\ \A n \in Nat : LostRecord(n) \in Records(Nat) /\ IsLost(LostRecord(n))
    /\ \A rec \in Records(Nat) :
          /\ rec # NoRecord
          /\ IsLost(rec) => rec.lost \in Nat /\ rec = LostRecord(rec.lost)
          /\ ~IsLost(rec) => rec.event \in Kinds /\ rec = EventRecord(rec.event)
    /\ \A n \in Nat, e \in Kinds : LostRecord(n) # EventRecord(e)
<1>1. \A rec \in [event : Kinds] : DOMAIN rec = {"event"} /\ rec = [event |-> rec.event]
  OBVIOUS
<1>2. \A rec \in [lost : Nat] : DOMAIN rec = {"lost"} /\ rec = [lost |-> rec.lost]
  OBVIOUS
<1>3. DOMAIN NoRecord = {"none"}
  BY DEF NoRecord
<1> QED
  BY <1>1, <1>2, <1>3 DEF Records, EventRecord, LostRecord, IsLost

LEMMA WeightFacts ==
    /\ Weights \in [Records(Nat) -> Nat]
    /\ \A e \in Kinds : Weights[EventRecord(e)] = 1
    /\ \A n \in Nat : Weights[LostRecord(n)] = n
<1>1. \A n \in Nat : LostRecord(n).lost = n
  BY DEF LostRecord
<1> QED
  BY <1>1, RecordFacts DEF Weights, Weight

LEMMA OneFacts ==
    ASSUME NEW e \in Kinds
    PROVE  /\ Ones(e) \in [Records(Nat) -> Nat]
           /\ \A k \in Kinds : Ones(e)[EventRecord(k)] = IF k = e THEN 1 ELSE 0
           /\ \A n \in Nat : Ones(e)[LostRecord(n)] = 0
<1>1. \A k \in Kinds : EventRecord(k).event = k
  BY DEF EventRecord
<1> QED
  BY <1>1, RecordFacts DEF Ones, Of

\* What is on its way, in the terms of the lemmas above.
UnderwayIsSum ==
           /\ Underway = SumFunction(Each(Weights, ring))
                           + (IF polled = NoRecord THEN 0 ELSE Weights[polled])
                           + (IF receiver = Idle THEN 0 ELSE 1)
           /\ \A e \in Kinds :
                 UnderwayOf(e) = SumFunction(Each(Ones(e), ring))
                                   + (IF polled = NoRecord THEN 0 ELSE Ones(e)[polled])
                                   + (IF receiver # Idle /\ receiver.event = e THEN 1 ELSE 0)

LEMMA UnderwaySum == Shapes(Nat) => UnderwayIsSum
<1> SUFFICES ASSUME Shapes(Nat) PROVE UnderwayIsSum
  OBVIOUS
<1>1. ring \in Seq(Records(Nat)) /\ polled \in Records(Nat) \cup {NoRecord}
  BY DEF Shapes
<1>2. \A i \in DOMAIN ring : ring[i] \in Records(Nat)
  BY <1>1
<1>3. Each(Weights, ring) = [i \in DOMAIN ring |-> Weight(ring[i])]
  BY <1>2 DEF Each, Weights
<1>4. \A e \in Kinds : Each(Ones(e), ring) = [i \in DOMAIN ring |-> Of(ring[i], e)]
  BY <1>2 DEF Each, Ones
<1>5. \A e \in Kinds : Of(NoRecord, e) = 0
  BY RecordFacts DEF Of
<1> QED
  BY <1>1, <1>3, <1>4, <1>5 DEF UnderwayIsSum, Underway, UnderwayOf, Sum, Weights, Ones

LEMMA FiniteKinds == IsFiniteSet(Kinds)
<1>1. IsFiniteSet(EventLabels \cup {Skipped})
  BY KindsAssumption, FS_AddElement
<1>2. IsFiniteSet((EventLabels \cup {Skipped}) \cup {Undecodable})
  BY <1>1, FS_AddElement
<1>3. Kinds \subseteq (EventLabels \cup {Skipped}) \cup {Undecodable}
  BY KindsAssumption
<1> QED
  BY <1>2, <1>3, FS_Subset

\* The counters and the histories are natural numbers.
SinkNumbers ==
           /\ \A w \in [Records(Nat) -> Nat] : SumFunction(Each(w, ring)) \in Nat
           /\ \A l \in EventLabels : Counted(l) \in Nat
           /\ AllCounted \in Nat
           /\ Sum(written) \in Nat
           /\ Underway \in Nat /\ \A e \in Kinds : UnderwayOf(e) \in Nat

LEMMA NumberFacts == Shapes(Nat) => SinkNumbers
<1> SUFFICES ASSUME Shapes(Nat) PROVE SinkNumbers
  OBVIOUS
<1>1. ASSUME NEW w \in [Records(Nat) -> Nat] PROVE SumFunction(Each(w, ring)) \in Nat
  BY EachFacts DEF Shapes
<1>2. Epoch \in Nat /\ \A i \in 1..Epoch : vecs[i] \in [EventLabels -> Nat]
  BY DEF Shapes, Epoch
<1>3. ASSUME NEW l \in EventLabels PROVE Counted(l) \in Nat
  <2> DEFINE f == [i \in 1..Epoch |-> vecs[i][l]]
  <2>1. DOMAIN f = 1..Epoch /\ \A i \in 1..Epoch : f[i] \in Nat
    BY <1>2
  <2> HIDE DEF f
  <2>2. SumFunction(f) \in Nat
    BY <1>2, <2>1, IntervalFacts, SumNat DEF SumFunction
  <2> QED
    BY <2>2 DEF f, Counted, Sum
<1>4. AllCounted \in Nat
  <2> DEFINE f == [l \in EventLabels |-> Counted(l)]
  <2>1. DOMAIN f = EventLabels /\ \A l \in EventLabels : f[l] \in Nat
    BY <1>3
  <2> HIDE DEF f
  <2>2. SumFunction(f) \in Nat
    BY <2>1, KindsAssumption, SumNat DEF SumFunction
  <2> QED
    BY <2>2 DEF f, AllCounted, Sum
<1>5. Sum(written) \in Nat
  BY FiniteKinds, SumNat DEF Sum, SumFunction, Shapes
<1>6. Underway \in Nat /\ \A e \in Kinds : UnderwayOf(e) \in Nat
  <2>1. polled \in Records(Nat) \cup {NoRecord}
    BY DEF Shapes
  <2>2. polled # NoRecord => Weights[polled] \in Nat /\ \A e \in Kinds : Ones(e)[polled] \in Nat
    BY <2>1, WeightFacts, OneFacts
  <2> QED
    BY <1>1, <2>2, UnderwaySum, WeightFacts, OneFacts DEF UnderwayIsSum
<1> QED
  BY <1>1, <1>3, <1>4, <1>5, <1>6 DEF SinkNumbers

\* The same after a step.
LEMMA NextUnderwaySum == Shapes(Nat)' => UnderwayIsSum'
  BY UnderwaySum, PTL

LEMMA NextNumberFacts == Shapes(Nat)' => SinkNumbers'
  BY NumberFacts, PTL

LEMMA ConcatTwo ==
    ASSUME NEW S, NEW s \in Seq(S), NEW a \in S, NEW b \in S
    PROVE  s \o (<<a>> \o <<b>>) = Append(Append(s, a), b)
<1> DEFINE t == <<a>> \o <<b>>
<1>1. t \in Seq(S) /\ Len(t) = 2 /\ t[1] = a /\ t[2] = b
  OBVIOUS
<1> HIDE DEF t
<1>2. /\ s \o t \in Seq(S) /\ Len(s \o t) = Len(s) + 2
      /\ \A i \in 1..Len(s) + 2 : (s \o t)[i] = IF i <= Len(s) THEN s[i] ELSE t[i - Len(s)]
  <2>1. /\ s \o t \in Seq(S) /\ Len(s \o t) = Len(s) + Len(t)
        /\ \A i \in 1..Len(s) + Len(t) :
              (s \o t)[i] = IF i <= Len(s) THEN s[i] ELSE t[i - Len(s)]
    BY <1>1, ConcatProperties
  <2> QED
    BY <1>1, <2>1
<1>3. s \o t = Append(Append(s, a), b)
  BY <1>1, <1>2
<1> QED
  BY <1>3 DEF t

\* While no counterVec is added, the receiver and the scrape refer to the same.
LEMMA SameEpoch ==
    ASSUME Len(vecs') = Len(vecs)
    PROVE  Epoch' = Epoch /\ Receivers' = Receivers
  BY DEF Epoch, Receivers

\* What Write does to the ring, as any weight of the records sees it.
LEMMA WriteFacts ==
    ASSUME Shapes(Nat), NEW e \in Kinds, Write(e), NEW w \in [Records(Nat) -> Nat]
    PROVE  /\ ring' \in Seq(Records(Nat)) /\ Len(ring') <= RingSize
           /\ \/ ring' = ring /\ unreported' = unreported + 1
              \/ /\ unreported' = 0
                 /\ SumFunction(Each(w, ring'))
                      = SumFunction(Each(w, ring)) + w[EventRecord(e)]
                          + (IF unreported > 0 THEN w[LostRecord(unreported)] ELSE 0)
<1> DEFINE missed == LostRecord(unreported)
           event == EventRecord(e)
           new == (IF unreported > 0 THEN <<missed>> ELSE <<>>) \o <<event>>
<1>1. /\ ring \in Seq(Records(Nat)) /\ unreported \in Nat
      /\ missed \in Records(Nat) /\ event \in Records(Nat)
  BY RecordFacts DEF Shapes
<1>2. IF Len(ring) + Len(new) <= RingSize
      THEN ring' = ring \o new /\ unreported' = 0
      ELSE ring' = ring /\ unreported' = unreported + 1
  BY DEF Write
<1> HIDE DEF missed, event
<1>3. CASE ~(Len(ring) + Len(new) <= RingSize)
  BY <1>1, <1>2, <1>3 DEF Shapes
<1>4. CASE Len(ring) + Len(new) <= RingSize /\ unreported > 0
  <2>1. new = <<missed>> \o <<event>> /\ Len(new) = 2
    BY <1>4
  <2>2. ring' = Append(Append(ring, missed), event) /\ unreported' = 0
    <3>1. ring' = ring \o (<<missed>> \o <<event>>) /\ unreported' = 0
      BY <1>2, <1>4, <2>1
    <3> QED
      BY <1>1, <3>1, ConcatTwo
  <2>3. /\ Append(ring, missed) \in Seq(Records(Nat)) /\ ring' \in Seq(Records(Nat))
        /\ Len(ring') <= RingSize
    BY <1>1, <1>4, <2>1, <2>2, RingAssumption
  <2>4. /\ SumFunction(Each(w, Append(ring, missed))) = SumFunction(Each(w, ring)) + w[missed]
        /\ SumFunction(Each(w, ring')) = SumFunction(Each(w, Append(ring, missed))) + w[event]
    BY <1>1, <2>2, <2>3, EachAppend
  <2>5. w[missed] \in Nat /\ w[event] \in Nat /\ SumFunction(Each(w, ring)) \in Nat
    BY <1>1, NumberFacts DEF SinkNumbers
  <2> QED
    BY <1>4, <2>2, <2>3, <2>4, <2>5 DEF missed, event
<1>5. CASE Len(ring) + Len(new) <= RingSize /\ ~(unreported > 0)
  <2>1. new = <<event>>
    BY <1>5
  <2>2. ring' = Append(ring, event) /\ unreported' = 0
    BY <1>1, <1>2, <1>5, <2>1
  <2>3. ring' \in Seq(Records(Nat)) /\ Len(ring') <= RingSize
    BY <1>1, <1>5, <2>1, <2>2, RingAssumption
  <2>4. SumFunction(Each(w, ring')) = SumFunction(Each(w, ring)) + w[event]
    BY <1>1, <2>2, EachAppend
  <2>5. w[event] \in Nat /\ SumFunction(Each(w, ring)) \in Nat
    BY <1>1, NumberFacts DEF SinkNumbers
  <2> QED
    BY <1>5, <2>2, <2>3, <2>4, <2>5 DEF missed, event
<1> QED
  BY <1>3, <1>4, <1>5

LEMMA SinkInitInv == SinkInit => SinkInv
<1> SUFFICES ASSUME SinkInit PROVE SinkInv
  OBVIOUS
<1> USE DEF SinkInit
<1>1. EmptyVec \in [EventLabels -> Nat] /\ \A l \in EventLabels : EmptyVec[l] = 0
  BY DEF EmptyVec
<1>2. Epoch = 1 /\ vecs[1] = EmptyVec
  BY DEF Epoch
<1>3. Shapes(Nat)
  <2>1. scraped \in [epoch : 1..Epoch, counts : [EventLabels -> Nat]]
    BY <1>1, <1>2
  <2>2. ring \in Seq(Records(Nat)) /\ Len(ring) <= RingSize
    BY RingAssumption
  <2>3. vecs \in Seq([EventLabels -> Nat]) /\ vecs # <<>>
    BY <1>1
  <2> QED
    BY <2>1, <2>2, <2>3 DEF Shapes, Receivers
<1>4. Sum(written) = 0
  BY FiniteKinds, SumZero DEF Sum, SumFunction
<1>5. \A l \in EventLabels : Counted(l) = 0
  <2> SUFFICES ASSUME NEW l \in EventLabels PROVE Counted(l) = 0
    OBVIOUS
  <2> DEFINE f == [i \in 1..Epoch |-> vecs[i][l]]
  <2>0. Epoch \in Nat
    BY <1>2
  <2>1. DOMAIN f = 1..Epoch /\ \A i \in 1..Epoch : f[i] = 0
    BY <1>1, <1>2
  <2> HIDE DEF f
  <2>2. SumFunction(f) = 0
    BY <2>0, <2>1, IntervalFacts, SumZero DEF SumFunction
  <2> QED
    BY <2>2 DEF f, Counted, Sum
<1>6. AllCounted = 0
  <2> DEFINE f == [l \in EventLabels |-> Counted(l)]
  <2>1. DOMAIN f = EventLabels /\ \A l \in EventLabels : f[l] = 0
    BY <1>5
  <2> HIDE DEF f
  <2>2. SumFunction(f) = 0
    BY <2>1, KindsAssumption, SumZero DEF SumFunction
  <2> QED
    BY <2>2 DEF f, AllCounted, Sum
<1>7. ASSUME NEW w PROVE SumFunction(Each(w, ring)) = 0
  BY SumEmpty DEF Each, SumFunction
<1>8. Underway = 0 /\ \A e \in Kinds : UnderwayOf(e) = 0
  BY <1>3, <1>7, UnderwaySum DEF UnderwayIsSum
<1>9. EveryEventAccounted
  BY <1>4, <1>6, <1>8 DEF EveryEventAccounted
<1>10. KindsAccounted
  BY <1>5, <1>8 DEF KindsAccounted
<1>11. ScrapedIsOld
  BY <1>1, <1>2 DEF ScrapedIsOld
<1> QED
  BY <1>3, <1>4, <1>9, <1>10, <1>11, EventsAssumption DEF SinkInv

\* A step that touches neither the counters nor the scrape.
LEMMA CountersKept ==
    ASSUME vecs' = vecs
    PROVE  /\ \A l \in EventLabels : Counted(l)' = Counted(l)
           /\ AllCounted' = AllCounted
           /\ scraped' = scraped /\ ScrapedIsOld => ScrapedIsOld'
  BY DEF AllCounted, Counted, Epoch, ScrapedIsOld

LEMMA WriteStep ==
    ASSUME SinkInv, NEW e \in Kinds, Write(e)
    PROVE  SinkInv'
<1>0. Shapes(Nat) /\ EveryEventAccounted /\ KindsAccounted /\ ScrapedIsOld
  BY DEF SinkInv
<1>1. /\ UNCHANGED <<polled, receiver, vecs, dropCounter, scraped, crashed, skips>>
      /\ Sum(written) < MaxEvents /\ written' = [written EXCEPT ![e] = @ + 1]
  BY DEF Write
<1>2. /\ written \in [Kinds -> Nat] /\ written' \in [Kinds -> Nat]
      /\ \A k \in Kinds : written'[k] = written[k] + (IF k = e THEN 1 ELSE 0)
  BY <1>0, <1>1 DEF Shapes
<1>3. Sum(written)' = Sum(written) + 1
  <2>1. SumFunctionOnSet(written', Kinds)
          = SumFunctionOnSet(written, Kinds) - written[e] + written'[e]
    BY <1>2, FiniteKinds, SumUpdate
  <2>2. Sum(written) \in Nat /\ DOMAIN written = Kinds /\ DOMAIN written' = Kinds
    BY <1>0, <1>2, NumberFacts DEF SinkNumbers
  <2> QED
    BY <1>2, <2>1, <2>2 DEF Sum, SumFunction
<1>4. unreported' \in Nat
  BY <1>0 DEF Write, Shapes
<1>5. Shapes(Nat)'
  <2>1. ring' \in Seq(Records(Nat)) /\ Len(ring') <= RingSize
    BY <1>0, WriteFacts, WeightFacts
  <2> QED
    BY <1>0, <1>1, <1>2, <1>4, <2>1, SameEpoch DEF Shapes
<1>6. Underway' + unreported' = Underway + unreported + 1
  <2>1. \/ ring' = ring /\ unreported' = unreported + 1
        \/ /\ unreported' = 0
           /\ SumFunction(Each(Weights, ring'))
                = SumFunction(Each(Weights, ring)) + Weights[EventRecord(e)]
                    + (IF unreported > 0 THEN Weights[LostRecord(unreported)] ELSE 0)
    BY <1>0, WriteFacts, WeightFacts
  <2>2. unreported \in Nat /\ Weights[EventRecord(e)] = 1
        /\ Weights[LostRecord(unreported)] = unreported
    BY <1>0, WeightFacts DEF Shapes
  <2>3. SumFunction(Each(Weights, ring')) + unreported'
          = SumFunction(Each(Weights, ring)) + unreported + 1
    BY <1>0, <2>1, <2>2, NumberFacts, WeightFacts DEF SinkNumbers
  <2>4. /\ SumFunction(Each(Weights, ring')) \in Nat /\ SumFunction(Each(Weights, ring)) \in Nat
        /\ polled # NoRecord => Weights[polled] \in Nat
    BY <1>0, <1>5, EachFacts, WeightFacts DEF Shapes
  <2>5. Underway' = SumFunction(Each(Weights, ring'))
                      + (IF polled = NoRecord THEN 0 ELSE Weights[polled])
                      + (IF receiver = Idle THEN 0 ELSE 1)
    BY <1>1, <1>5, NextUnderwaySum DEF UnderwayIsSum
  <2> QED
    BY <1>0, <1>4, <2>2, <2>3, <2>4, <2>5, UnderwaySum DEF UnderwayIsSum
<1>7. ASSUME NEW k \in Kinds
      PROVE  UnderwayOf(k)' <= UnderwayOf(k) + (IF k = e THEN 1 ELSE 0)
  <2>1. \/ ring' = ring
        \/ SumFunction(Each(Ones(k), ring'))
             = SumFunction(Each(Ones(k), ring)) + Ones(k)[EventRecord(e)]
                 + (IF unreported > 0 THEN Ones(k)[LostRecord(unreported)] ELSE 0)
    BY <1>0, WriteFacts, OneFacts
  <2>2. /\ unreported \in Nat /\ Ones(k)[EventRecord(e)] = IF k = e THEN 1 ELSE 0
        /\ Ones(k)[LostRecord(unreported)] = 0
    BY <1>0, OneFacts DEF Shapes
  <2>3. /\ SumFunction(Each(Ones(k), ring')) \in Nat /\ SumFunction(Each(Ones(k), ring)) \in Nat
        /\ polled # NoRecord => Ones(k)[polled] \in Nat
    BY <1>0, <1>5, EachFacts, OneFacts DEF Shapes
  <2>4. SumFunction(Each(Ones(k), ring'))
          <= SumFunction(Each(Ones(k), ring)) + (IF k = e THEN 1 ELSE 0)
    BY <2>1, <2>2, <2>3
  <2>5. UnderwayOf(k)' = SumFunction(Each(Ones(k), ring'))
                           + (IF polled = NoRecord THEN 0 ELSE Ones(k)[polled])
                           + (IF receiver # Idle /\ receiver.event = k THEN 1 ELSE 0)
    BY <1>1, <1>5, NextUnderwaySum DEF UnderwayIsSum
  <2> QED
    BY <1>0, <2>3, <2>4, <2>5, UnderwaySum DEF UnderwayIsSum
<1>8. EveryEventAccounted'
  <2>1. AllCounted' = AllCounted
    BY <1>1, CountersKept
  <2>2. /\ Underway' \in Nat /\ Underway \in Nat /\ dropCounter \in Nat /\ skips \in Nat
        /\ AllCounted \in Nat /\ unreported \in Nat
    BY <1>0, <1>5, NumberFacts, NextNumberFacts DEF Shapes, SinkNumbers
  <2>3. dropCounter' = dropCounter /\ skips' = skips
    BY <1>1
  <2>4. Sum(written) = Underway + unreported + dropCounter + skips + AllCounted
    BY <1>0 DEF EveryEventAccounted
  <2>5. Sum(written)' = Underway' + unreported' + dropCounter' + skips' + AllCounted'
    <3>1. Sum(written)' = (Underway + unreported + dropCounter + skips + AllCounted) + 1
      BY <1>3, <2>4
    <3>2. Sum(written)' = (Underway + unreported + 1) + dropCounter + skips + AllCounted
      BY <2>2, <3>1
    <3>3. Sum(written)' = (Underway' + unreported') + dropCounter' + skips' + AllCounted'
      BY <1>6, <2>1, <2>3, <3>2
    <3> QED
      BY <3>3
  <2> QED
    BY <2>5 DEF EveryEventAccounted
<1>9. KindsAccounted'
  <2> SUFFICES ASSUME NEW l \in EventLabels \cap Kinds
               PROVE  Counted(l)' + UnderwayOf(l)' <= written'[l]
    BY DEF KindsAccounted
  <2>1. Counted(l)' = Counted(l) /\ Counted(l) + UnderwayOf(l) <= written[l]
    BY <1>0, <1>1, CountersKept DEF KindsAccounted
  <2>2. Counted(l) \in Nat /\ UnderwayOf(l) \in Nat /\ UnderwayOf(l)' \in Nat
    BY <1>0, <1>5, NumberFacts, NextNumberFacts DEF SinkNumbers
  <2> QED
    BY <1>2, <1>7, <2>1, <2>2
<1>10. Sum(written)' <= MaxEvents
  BY <1>0, <1>1, <1>3, EventsAssumption, NumberFacts DEF SinkNumbers
<1> QED
  BY <1>0, <1>1, <1>5, <1>8, <1>9, <1>10, CountersKept DEF SinkInv
\* A step that leaves the programs and the counters alone: events on their way
\* are moved, or settled as skipped or as dropped.
LEMMA MoveStep ==
    ASSUME SinkInv, Shapes(Nat)', UNCHANGED <<unreported, vecs, scraped, written>>,
           Underway + dropCounter + skips = Underway' + dropCounter' + skips',
           \A k \in EventLabels \cap Kinds : UnderwayOf(k)' <= UnderwayOf(k)
    PROVE  SinkInv'
<1>0. Shapes(Nat) /\ EveryEventAccounted /\ KindsAccounted /\ ScrapedIsOld
  BY DEF SinkInv
<1>1. Sum(written)' = Sum(written) /\ AllCounted' = AllCounted
  BY CountersKept
<1>2. EveryEventAccounted'
  <2>1. /\ Underway \in Nat /\ dropCounter \in Nat /\ skips \in Nat /\ unreported \in Nat
        /\ Underway' \in Nat /\ dropCounter' \in Nat /\ skips' \in Nat /\ AllCounted \in Nat
    BY <1>0, NumberFacts, NextNumberFacts DEF Shapes, SinkNumbers
  <2>2. Sum(written) = (Underway + dropCounter + skips) + (unreported + AllCounted)
    BY <1>0, <2>1 DEF EveryEventAccounted
  <2>3. Sum(written)' = (Underway' + dropCounter' + skips') + (unreported' + AllCounted')
    BY <1>1, <2>2
  <2>4. unreported' = unreported
    OBVIOUS
  <2>5. Sum(written)' = Underway' + unreported' + dropCounter' + skips' + AllCounted'
    BY <1>1, <2>1, <2>3, <2>4
  <2> QED
    BY <2>5 DEF EveryEventAccounted
<1>3. KindsAccounted'
  <2> SUFFICES ASSUME NEW l \in EventLabels \cap Kinds
               PROVE  Counted(l)' + UnderwayOf(l)' <= written'[l]
    BY DEF KindsAccounted
  <2>1. Counted(l)' = Counted(l) /\ Counted(l) + UnderwayOf(l) <= written[l]
    BY <1>0, CountersKept DEF KindsAccounted
  <2>2. Counted(l) \in Nat /\ UnderwayOf(l) \in Nat /\ UnderwayOf(l)' \in Nat /\ written[l] \in Nat
    BY <1>0, NumberFacts, NextNumberFacts DEF SinkNumbers, Shapes
  <2> QED
    BY <2>1, <2>2
<1>4. ScrapedIsOld'
  BY <1>0, CountersKept
<1> QED
  BY <1>1, <1>2, <1>3, <1>4 DEF SinkInv

LEMMA PollStep ==
    ASSUME SinkInv, Poll
    PROVE  SinkInv'
<1>0. Shapes(Nat)
  BY DEF SinkInv
<1>1. /\ polled = NoRecord /\ ring # <<>> /\ polled' = Head(ring) /\ ring' = Tail(ring)
      /\ UNCHANGED <<unreported, receiver, vecs, dropCounter, scraped, crashed, written, skips>>
  BY DEF Poll
<1>2. /\ polled' \in Records(Nat) /\ ring' \in Seq(Records(Nat))
      /\ Len(ring') <= RingSize
  BY <1>0, <1>1, RingAssumption DEF Shapes
<1>3. Shapes(Nat)'
  BY <1>0, <1>1, <1>2, SameEpoch DEF Shapes
<1>4. polled' # NoRecord
  BY <1>2, RecordFacts
<1>5. ASSUME NEW w \in [Records(Nat) -> Nat]
      PROVE  /\ SumFunction(Each(w, ring)) = w[polled'] + SumFunction(Each(w, ring'))
             /\ w[polled'] \in Nat /\ SumFunction(Each(w, ring')) \in Nat
  BY <1>0, <1>1, <1>2, EachTail, EachFacts DEF Shapes
<1>6. Underway' = Underway
  <2>1. Underway' = SumFunction(Each(Weights, ring')) + Weights[polled']
                      + (IF receiver = Idle THEN 0 ELSE 1)
    BY <1>1, <1>3, <1>4, NextUnderwaySum DEF UnderwayIsSum
  <2>2. Underway = SumFunction(Each(Weights, ring)) + (IF receiver = Idle THEN 0 ELSE 1)
    BY <1>0, <1>1, UnderwaySum, NumberFacts, WeightFacts DEF UnderwayIsSum, SinkNumbers
  <2> QED
    BY <1>5, <2>1, <2>2, WeightFacts
<1>7. ASSUME NEW k \in Kinds PROVE UnderwayOf(k)' = UnderwayOf(k)
  <2> DEFINE held == IF receiver # Idle /\ receiver.event = k THEN 1 ELSE 0
  <2>1. UnderwayOf(k)' = SumFunction(Each(Ones(k), ring')) + Ones(k)[polled'] + held
    BY <1>1, <1>3, <1>4, NextUnderwaySum DEF UnderwayIsSum
  <2>2. UnderwayOf(k) = SumFunction(Each(Ones(k), ring)) + held
    BY <1>0, <1>1, UnderwaySum, NumberFacts, OneFacts DEF UnderwayIsSum, SinkNumbers
  <2> QED
    BY <1>5, <2>1, <2>2, OneFacts
<1>8. \A k \in Kinds : UnderwayOf(k)' <= UnderwayOf(k)
  BY <1>0, <1>7, NumberFacts DEF SinkNumbers
<1> QED
  BY <1>1, <1>3, <1>6, <1>8, MoveStep

LEMMA ReceiveLostStep ==
    ASSUME SinkInv, ReceiveLost
    PROVE  SinkInv'
<1>0. Shapes(Nat)
  BY DEF SinkInv
<1>1. /\ polled # NoRecord /\ IsLost(polled) /\ polled' = NoRecord
      /\ dropCounter' = dropCounter + polled.lost
      /\ UNCHANGED <<ring, unreported, receiver, vecs, scraped, crashed, written, skips>>
  BY DEF ReceiveLost
<1>2. polled.lost \in Nat /\ polled = LostRecord(polled.lost)
  BY <1>0, <1>1, RecordFacts DEF Shapes
<1>3. Shapes(Nat)'
  BY <1>0, <1>1, <1>2, SameEpoch DEF Shapes
<1>4. Underway = Underway' + polled.lost
  <2> DEFINE held == IF receiver = Idle THEN 0 ELSE 1
  <2>1. Underway' = SumFunction(Each(Weights, ring)) + 0 + held
    BY <1>1, <1>3, NextUnderwaySum DEF UnderwayIsSum
  <2>2. Underway = SumFunction(Each(Weights, ring)) + polled.lost + held
    BY <1>0, <1>1, <1>2, UnderwaySum, WeightFacts DEF UnderwayIsSum
  <2>3. SumFunction(Each(Weights, ring)) \in Nat
    BY <1>0, NumberFacts, WeightFacts DEF SinkNumbers
  <2> QED
    BY <1>2, <2>1, <2>2, <2>3
<1>5. ASSUME NEW k \in Kinds PROVE UnderwayOf(k)' = UnderwayOf(k)
  <2> DEFINE held == IF receiver # Idle /\ receiver.event = k THEN 1 ELSE 0
  <2>1. UnderwayOf(k)' = SumFunction(Each(Ones(k), ring)) + 0 + held
    BY <1>1, <1>3, NextUnderwaySum DEF UnderwayIsSum
  <2>2. UnderwayOf(k) = SumFunction(Each(Ones(k), ring)) + 0 + held
    BY <1>0, <1>1, <1>2, UnderwaySum, OneFacts DEF UnderwayIsSum
  <2> QED
    BY <2>1, <2>2
<1>6. \A k \in Kinds : UnderwayOf(k)' <= UnderwayOf(k)
  BY <1>0, <1>5, NumberFacts DEF SinkNumbers
<1>7. Underway + dropCounter + skips = Underway' + dropCounter' + skips'
  <2>1. Underway' \in Nat /\ dropCounter \in Nat /\ skips \in Nat /\ skips' = skips
    BY <1>0, <1>1, <1>3, NextNumberFacts DEF Shapes, SinkNumbers
  <2> QED
    BY <1>1, <1>2, <1>4, <2>1
<1> QED
  BY <1>1, <1>3, <1>6, <1>7, MoveStep

LEMMA ReceiveStep ==
    ASSUME SinkInv, Receive
    PROVE  SinkInv'
<1>0. Shapes(Nat)
  BY DEF SinkInv
<1>1. /\ polled # NoRecord /\ ~IsLost(polled) /\ receiver = Idle /\ polled' = NoRecord
      /\ receiver' = [at |-> "decode", event |-> polled.event]
      /\ UNCHANGED <<ring, unreported, vecs, dropCounter, scraped, crashed, written, skips>>
  BY DEF Receive
<1>2. polled.event \in Kinds /\ polled = EventRecord(polled.event)
  BY <1>0, <1>1, RecordFacts DEF Shapes
<1>3. receiver' \in Receivers /\ receiver' # Idle /\ receiver'.event = polled.event
  BY <1>1, <1>2 DEF Receivers, Idle
<1>4. Shapes(Nat)'
  BY <1>0, <1>1, <1>3, SameEpoch DEF Shapes
<1>5. Underway' = Underway
  <2>1. Underway' = SumFunction(Each(Weights, ring)) + 0 + 1
    BY <1>1, <1>3, <1>4, NextUnderwaySum DEF UnderwayIsSum
  <2>2. Underway = SumFunction(Each(Weights, ring)) + 1 + 0
    BY <1>0, <1>1, <1>2, UnderwaySum, WeightFacts DEF UnderwayIsSum
  <2>3. SumFunction(Each(Weights, ring)) \in Nat
    BY <1>0, NumberFacts, WeightFacts DEF SinkNumbers
  <2> QED
    BY <2>1, <2>2, <2>3
<1>6. ASSUME NEW k \in Kinds PROVE UnderwayOf(k)' = UnderwayOf(k)
  <2> DEFINE one == IF polled.event = k THEN 1 ELSE 0
  <2>1. UnderwayOf(k)' = SumFunction(Each(Ones(k), ring)) + 0 + one
    BY <1>1, <1>3, <1>4, NextUnderwaySum DEF UnderwayIsSum
  <2>2. UnderwayOf(k) = SumFunction(Each(Ones(k), ring)) + one + 0
    BY <1>0, <1>1, <1>2, UnderwaySum, OneFacts DEF UnderwayIsSum
  <2>3. SumFunction(Each(Ones(k), ring)) \in Nat
    BY <1>0, NumberFacts, OneFacts DEF SinkNumbers
  <2> QED
    BY <2>1, <2>2, <2>3
<1>7. \A k \in Kinds : UnderwayOf(k)' <= UnderwayOf(k)
  BY <1>0, <1>6, NumberFacts DEF SinkNumbers
<1> QED
  BY <1>1, <1>4, <1>5, <1>7, MoveStep

LEMMA DecodeStep ==
    ASSUME SinkInv, Decode
    PROVE  SinkInv'
<1>0. Shapes(Nat)
  BY DEF SinkInv
<1>1. /\ receiver.at = "decode"
      /\ UNCHANGED <<ring, unreported, polled, vecs, dropCounter, scraped, written>>
  BY DEF Decode
<1>2. receiver \in [at : {"decode"}, event : Kinds] /\ receiver # Idle
  BY <1>0, <1>1 DEF Shapes, Receivers, Idle
<1>3. /\ Underway \in Nat /\ dropCounter \in Nat /\ skips \in Nat
      /\ SumFunction(Each(Weights, ring)) \in Nat
      /\ polled # NoRecord => Weights[polled] \in Nat
  BY <1>0, NumberFacts, WeightFacts DEF Shapes, SinkNumbers
<1>4. ASSUME NEW k \in Kinds
      PROVE  /\ UnderwayOf(k) \in Nat /\ SumFunction(Each(Ones(k), ring)) \in Nat
             /\ polled # NoRecord => Ones(k)[polled] \in Nat
  BY <1>0, NumberFacts, OneFacts DEF Shapes, SinkNumbers
<1>5. CASE receiver' = Idle /\ skips' = skips + 1 /\ UNCHANGED crashed
  <2>1. Shapes(Nat)'
    BY <1>0, <1>1, <1>5, SameEpoch DEF Shapes, Receivers
  <2>2. Underway = Underway' + 1
    <3> DEFINE sent == IF polled = NoRecord THEN 0 ELSE Weights[polled]
    <3>1. Underway' = SumFunction(Each(Weights, ring)) + sent + 0
      BY <1>1, <1>5, <2>1, NextUnderwaySum DEF UnderwayIsSum
    <3>2. Underway = SumFunction(Each(Weights, ring)) + sent + 1
      BY <1>0, <1>2, UnderwaySum DEF UnderwayIsSum
    <3> QED
      BY <1>3, <3>1, <3>2
  <2>3. ASSUME NEW k \in Kinds PROVE UnderwayOf(k)' <= UnderwayOf(k)
    <3> DEFINE sent == IF polled = NoRecord THEN 0 ELSE Ones(k)[polled]
    <3>1. UnderwayOf(k)' = SumFunction(Each(Ones(k), ring)) + sent + 0
      BY <1>1, <1>5, <2>1, NextUnderwaySum DEF UnderwayIsSum
    <3>2. UnderwayOf(k) = SumFunction(Each(Ones(k), ring)) + sent
                            + (IF receiver.event = k THEN 1 ELSE 0)
      BY <1>0, <1>2, UnderwaySum DEF UnderwayIsSum
    <3> QED
      BY <1>4, <3>1, <3>2
  <2>4. Underway + dropCounter + skips = Underway' + dropCounter' + skips'
    <3>1. Underway' \in Nat /\ dropCounter' = dropCounter
      BY <1>1, <2>1, NextNumberFacts DEF SinkNumbers
    <3> QED
      BY <1>3, <1>5, <2>2, <3>1
  <2> QED
    BY <1>1, <2>1, <2>3, <2>4, MoveStep
<1>6. CASE crashed' = TRUE /\ UNCHANGED <<receiver, skips>>
  <2>1. Shapes(Nat)'
    BY <1>0, <1>1, <1>6, SameEpoch DEF Shapes
  <2>2. Underway' = Underway /\ \A k \in Kinds : UnderwayOf(k)' = UnderwayOf(k)
    BY <1>1, <1>6 DEF Underway, UnderwayOf
  <2>3. \A k \in Kinds : UnderwayOf(k)' <= UnderwayOf(k)
    BY <1>4, <2>2
  <2> QED
    BY <1>1, <1>6, <2>1, <2>2, <2>3, MoveStep
<1>7. CASE /\ receiver.event \in Kinds \cap EventLabels
           /\ receiver' = [at |-> "inc", event |-> receiver.event, vec |-> Epoch]
           /\ UNCHANGED <<skips, crashed>>
  <2>1. Epoch \in 1..Epoch
    BY <1>0 DEF Shapes, Epoch
  <2>2. receiver' \in Receivers /\ receiver' # Idle /\ receiver'.event = receiver.event
    BY <1>7, <2>1 DEF Receivers, Idle
  <2>3. Shapes(Nat)'
    BY <1>0, <1>1, <1>7, <2>2, SameEpoch DEF Shapes
  <2>4. Underway' = Underway
    BY <1>0, <1>1, <1>2, <2>2, <2>3, UnderwaySum, NextUnderwaySum DEF UnderwayIsSum
  <2>5. \A k \in Kinds : UnderwayOf(k)' = UnderwayOf(k)
    BY <1>0, <1>1, <1>2, <2>2, <2>3, UnderwaySum, NextUnderwaySum DEF UnderwayIsSum
  <2>6. \A k \in Kinds : UnderwayOf(k)' <= UnderwayOf(k)
    BY <1>4, <2>5
  <2> QED
    BY <1>1, <1>7, <2>3, <2>4, <2>6, MoveStep
<1>8. receiver.event \in EventLabels \cup {Skipped, Undecodable} /\ receiver.event \in Kinds
  BY <1>2, KindsAssumption
<1> QED
  BY <1>5, <1>6, <1>7, <1>8, KindsAssumption DEF Decode

LEMMA IncStep ==
    ASSUME SinkInv, Inc
    PROVE  SinkInv'
<1> DEFINE e == receiver.event
           v == receiver.vec
<1>0. Shapes(Nat) /\ EveryEventAccounted /\ KindsAccounted /\ ScrapedIsOld
  BY DEF SinkInv
<1>1. /\ receiver.at = "inc" /\ receiver' = Idle
      /\ vecs' = [vecs EXCEPT ![v][e] = @ + 1]
      /\ UNCHANGED <<ring, unreported, polled, dropCounter, scraped, crashed, written, skips>>
  BY DEF Inc
<1>2. e \in Kinds \cap EventLabels /\ v \in 1..Epoch /\ receiver # Idle
  BY <1>0, <1>1 DEF Shapes, Receivers, Idle
<1>3. /\ Epoch \in Nat /\ DOMAIN vecs = 1..Epoch
      /\ \A i \in 1..Epoch : vecs[i] \in [EventLabels -> Nat]
  BY <1>0 DEF Shapes, Epoch
<1>4. /\ vecs' \in Seq([EventLabels -> Nat]) /\ Len(vecs') = Len(vecs) /\ vecs' # <<>>
      /\ \A i \in 1..Epoch : vecs'[i] \in [EventLabels -> Nat]
      /\ \A i \in 1..Epoch : \A l \in EventLabels :
            vecs'[i][l] = vecs[i][l] + (IF i = v /\ l = e THEN 1 ELSE 0)
  <2>1. vecs[v] \in [EventLabels -> Nat]
    BY <1>2, <1>3
  <2>2. vecs' = [vecs EXCEPT ![v] = [vecs[v] EXCEPT ![e] = @ + 1]]
    BY <1>1
  <2>3. [vecs[v] EXCEPT ![e] = @ + 1] \in [EventLabels -> Nat]
    BY <1>2, <2>1
  <2>4. vecs' \in Seq([EventLabels -> Nat]) /\ Len(vecs') = Len(vecs) /\ vecs' # <<>>
    BY <1>0, <1>2, <1>3, <2>2, <2>3 DEF Shapes, Epoch
  <2>5. \A i \in 1..Epoch : vecs'[i] = IF i = v THEN [vecs[v] EXCEPT ![e] = @ + 1] ELSE vecs[i]
    BY <1>2, <1>3, <2>2
  <2>6. \A l \in EventLabels :
           vecs'[v][l] = vecs[v][l] + (IF l = e THEN 1 ELSE 0)
    <3>1. vecs'[v] = [vecs[v] EXCEPT ![e] = @ + 1]
      BY <1>2, <2>5
    <3> QED
      BY <2>1, <3>1
  <2>7. \A i \in 1..Epoch : i # v => vecs'[i] = vecs[i]
    BY <2>5
  <2>8. \A i \in 1..Epoch : vecs'[i] \in [EventLabels -> Nat]
    BY <1>3, <2>3, <2>5
  <2> HIDE DEF e, v
  <2>9. \A i \in 1..Epoch : \A l \in EventLabels :
           vecs'[i][l] = vecs[i][l] + (IF i = v /\ l = e THEN 1 ELSE 0)
    <3> SUFFICES ASSUME NEW i \in 1..Epoch, NEW l \in EventLabels
                 PROVE  vecs'[i][l] = vecs[i][l] + (IF i = v /\ l = e THEN 1 ELSE 0)
      OBVIOUS
    <3>1. CASE i = v
      BY <2>6, <3>1
    <3>2. CASE i # v
      <4>1. vecs[i] \in [EventLabels -> Nat]
        BY <1>3
      <4>2. vecs[i][l] \in Nat
        BY <4>1
      <4>3. vecs'[i][l] = vecs[i][l]
        BY <2>7, <3>2
      <4> QED
        BY <3>2, <4>2, <4>3
    <3> QED
      BY <3>1, <3>2
  <2> QED
    BY <2>4, <2>8, <2>9
<1>5. Epoch' = Epoch /\ Receivers' = Receivers
  BY <1>4, SameEpoch
<1>6. Shapes(Nat)'
  BY <1>0, <1>1, <1>4, <1>5 DEF Shapes, Receivers
<1>7. ASSUME NEW l \in EventLabels
      PROVE  Counted(l)' = Counted(l) + (IF l = e THEN 1 ELSE 0)
  <2> DEFINE f == [i \in 1..Epoch |-> vecs[i][l]]
             g == [i \in 1..Epoch |-> vecs'[i][l]]
  <2>1. /\ DOMAIN f = 1..Epoch /\ DOMAIN g = 1..Epoch /\ IsFiniteSet(1..Epoch)
        /\ \A i \in 1..Epoch : f[i] \in Int /\ g[i] \in Int
        /\ \A i \in (1..Epoch) \ {v} : g[i] = f[i]
        /\ g[v] = f[v] + (IF l = e THEN 1 ELSE 0)
        /\ v \in 1..Epoch
    <3> HIDE DEF e, v
    <3> QED
      BY <1>2, <1>3, <1>4, IntervalFacts
  <2>2. Counted(l)' = SumFunction(g) /\ Counted(l) = SumFunction(f)
    BY <1>5 DEF Counted, Sum
  <2> HIDE DEF f, g, e, v
  <2>3. SumFunctionOnSet(g, 1..Epoch) = SumFunctionOnSet(f, 1..Epoch) - f[v] + g[v]
    <3> DEFINE S == 1..Epoch
    <3>1. /\ v \in S /\ IsFiniteSet(S)
          /\ \A x \in S : f[x] \in Int /\ g[x] \in Int
          /\ \A x \in S \ {v} : g[x] = f[x]
      BY <2>1
    <3> HIDE DEF S
    <3>2. SumFunctionOnSet(g, S) = SumFunctionOnSet(f, S) - f[v] + g[v]
      BY <3>1, SumUpdate
    <3> QED
      BY <3>2 DEF S
  <2>4. SumFunctionOnSet(f, 1..Epoch) \in Int
    BY <2>1, SumInt
  <2>5. SumFunction(g) = SumFunction(f) - f[v] + g[v] /\ SumFunction(f) \in Int
    BY <2>1, <2>3, <2>4 DEF SumFunction
  <2> QED
    BY <1>2, <2>1, <2>2, <2>5
<1>8. AllCounted' = AllCounted + 1
  <2> DEFINE f == [l \in EventLabels |-> Counted(l)]
             g == [l \in EventLabels |-> Counted(l)']
  <2>1. /\ DOMAIN f = EventLabels /\ DOMAIN g = EventLabels
        /\ \A l \in EventLabels : f[l] \in Int /\ g[l] \in Int
        /\ \A l \in EventLabels \ {e} : g[l] = f[l]
        /\ g[e] = f[e] + 1
    BY <1>0, <1>2, <1>7, NumberFacts DEF SinkNumbers
  <2>2. AllCounted' = SumFunction(g) /\ AllCounted = SumFunction(f)
    BY DEF AllCounted, Sum
  <2> HIDE DEF f, g
  <2>3. SumFunctionOnSet(g, EventLabels) = SumFunctionOnSet(f, EventLabels) - f[e] + g[e]
    BY <1>2, <2>1, KindsAssumption, SumUpdate
  <2>4. SumFunctionOnSet(f, EventLabels) \in Int
    BY <2>1, KindsAssumption, SumInt
  <2>5. SumFunction(g) = SumFunction(f) - f[e] + g[e] /\ SumFunction(f) \in Int
    BY <2>1, <2>3, <2>4 DEF SumFunction
  <2> QED
    BY <1>2, <2>1, <2>2, <2>5
<1>9. Underway = Underway' + 1
  <2> DEFINE sent == IF polled = NoRecord THEN 0 ELSE Weights[polled]
  <2>1. Underway' = SumFunction(Each(Weights, ring)) + sent + 0
    BY <1>1, <1>6, NextUnderwaySum DEF UnderwayIsSum
  <2>2. Underway = SumFunction(Each(Weights, ring)) + sent + 1
    BY <1>0, <1>2, UnderwaySum DEF UnderwayIsSum
  <2>3. SumFunction(Each(Weights, ring)) \in Nat /\ sent \in Nat
    BY <1>0, NumberFacts, WeightFacts DEF SinkNumbers, Shapes
  <2> QED
    BY <2>1, <2>2, <2>3
<1>10. ASSUME NEW k \in Kinds
       PROVE  UnderwayOf(k) = UnderwayOf(k)' + (IF k = e THEN 1 ELSE 0)
  <2> DEFINE sent == IF polled = NoRecord THEN 0 ELSE Ones(k)[polled]
  <2>1. UnderwayOf(k)' = SumFunction(Each(Ones(k), ring)) + sent + 0
    BY <1>1, <1>6, NextUnderwaySum DEF UnderwayIsSum
  <2>2. UnderwayOf(k) = SumFunction(Each(Ones(k), ring)) + sent + (IF k = e THEN 1 ELSE 0)
    BY <1>0, <1>2, UnderwaySum DEF UnderwayIsSum
  <2>3. SumFunction(Each(Ones(k), ring)) \in Nat /\ sent \in Nat
    BY <1>0, NumberFacts, OneFacts DEF SinkNumbers, Shapes
  <2> QED
    BY <2>1, <2>2, <2>3
<1>11. EveryEventAccounted'
  <2>1. /\ Underway' \in Nat /\ unreported \in Nat /\ dropCounter \in Nat /\ skips \in Nat
        /\ AllCounted \in Nat
    BY <1>0, <1>6, NumberFacts, NextNumberFacts DEF Shapes, SinkNumbers
  <2>2. Sum(written) = (Underway' + 1) + unreported + dropCounter + skips + AllCounted
    BY <1>0, <1>9 DEF EveryEventAccounted
  <2>3. Sum(written) = Underway' + unreported + dropCounter + skips + (AllCounted + 1)
    BY <2>1, <2>2
  <2>4. UNCHANGED <<unreported, dropCounter, skips, written>>
    BY <1>1
  <2>5. Sum(written)' = Underway' + unreported' + dropCounter' + skips' + AllCounted'
    BY <1>8, <2>3, <2>4
  <2> QED
    BY <2>5 DEF EveryEventAccounted
<1>12. KindsAccounted'
  <2> SUFFICES ASSUME NEW l \in EventLabels \cap Kinds
               PROVE  Counted(l)' + UnderwayOf(l)' <= written'[l]
    BY DEF KindsAccounted
  <2>1. Counted(l) + UnderwayOf(l) <= written[l] /\ written' = written
    BY <1>0, <1>1 DEF KindsAccounted
  <2>2. /\ Counted(l) \in Nat /\ UnderwayOf(l) \in Nat /\ UnderwayOf(l)' \in Nat
        /\ written[l] \in Nat
    BY <1>0, <1>6, NumberFacts, NextNumberFacts DEF SinkNumbers, Shapes
  <2> HIDE DEF e
  <2> QED
    BY <1>7, <1>10, <2>1, <2>2
<1>13. ScrapedIsOld'
  <2>1. scraped.epoch \in 1..Epoch /\ scraped' = scraped
    BY <1>0, <1>1 DEF Shapes
  <2>2. \A l \in EventLabels : scraped.counts[l] \in Nat
    BY <1>0 DEF Shapes
  <2>3. \A l \in EventLabels : vecs'[scraped.epoch][l] >= vecs[scraped.epoch][l]
    <3> SUFFICES ASSUME NEW l \in EventLabels
                 PROVE  vecs'[scraped.epoch][l] >= vecs[scraped.epoch][l]
      OBVIOUS
    <3> DEFINE i == scraped.epoch
    <3> HIDE DEF e, v, i
    <3>1. i \in 1..Epoch
      BY <2>1 DEF i
    <3>2. vecs'[i][l] = vecs[i][l] + (IF i = v /\ l = e THEN 1 ELSE 0)
      BY <1>4, <3>1
    <3>3. vecs[i] \in [EventLabels -> Nat]
      BY <1>3, <3>1
    <3>4. vecs[i][l] \in Nat
      BY <3>3
    <3>5. vecs'[i][l] >= vecs[i][l]
      BY <3>2, <3>4
    <3> QED
      BY <3>5 DEF i
  <2>4. \A l \in EventLabels : vecs'[scraped.epoch][l] \in Nat /\ vecs[scraped.epoch][l] \in Nat
    BY <1>3, <1>4, <2>1
  <2> QED
    BY <1>0, <2>1, <2>2, <2>3, <2>4 DEF ScrapedIsOld
<1>14. Sum(written)' <= MaxEvents
  BY <1>1 DEF SinkInv
<1> QED
  BY <1>6, <1>11, <1>12, <1>13, <1>14 DEF SinkInv

LEMMA FlushStep ==
    ASSUME SinkInv, Flush
    PROVE  SinkInv'
<1>0. Shapes(Nat) /\ EveryEventAccounted /\ KindsAccounted /\ ScrapedIsOld
  BY DEF SinkInv
<1>1. /\ vecs' = Append(vecs, EmptyVec)
      /\ UNCHANGED <<ring, unreported, polled, receiver, dropCounter, scraped, crashed,
                     written, skips>>
  BY DEF Flush
<1>2. EmptyVec \in [EventLabels -> Nat] /\ \A l \in EventLabels : EmptyVec[l] = 0
  BY DEF EmptyVec
<1>3. /\ vecs' \in Seq([EventLabels -> Nat]) /\ vecs' # <<>>
      /\ Epoch \in Nat /\ Epoch' = Epoch + 1
      /\ \A i \in 1..Epoch : vecs'[i] = vecs[i]
      /\ vecs'[Epoch + 1] = EmptyVec
  BY <1>0, <1>1, <1>2 DEF Shapes, Epoch
<1>4. 1..Epoch \subseteq 1..Epoch'
  BY <1>3
<1>5. Shapes(Nat)'
  <2>1. receiver' \in Receivers'
    BY <1>0, <1>1, <1>4 DEF Shapes, Receivers
  <2>2. scraped' \in [epoch : 1..Epoch', counts : [EventLabels -> Nat]]
    BY <1>0, <1>1, <1>4 DEF Shapes
  <2> QED
    BY <1>0, <1>1, <1>3, <2>1, <2>2 DEF Shapes
<1>6. ASSUME NEW l \in EventLabels PROVE Counted(l)' = Counted(l)
  <2> DEFINE f == [i \in 1..Epoch |-> vecs[i][l]]
             g == [i \in 1..Epoch' |-> vecs'[i][l]]
  <2>1. f \in Seq(Int)
    BY <1>0, <1>3 DEF Shapes, Epoch
  <2>2. g = Append(f, 0)
    BY <1>2, <1>3, <2>1
  <2>3. Counted(l)' = SumFunction(g) /\ Counted(l) = SumFunction(f)
    BY DEF Counted, Sum
  <2>4. Counted(l) \in Nat
    BY <1>0, NumberFacts DEF SinkNumbers
  <2> HIDE DEF f, g
  <2>5. SumFunction(g) = SumFunction(f) + 0
    BY <2>1, <2>2, SumAppend
  <2> QED
    BY <2>3, <2>4, <2>5
<1>7. AllCounted' = AllCounted
  BY <1>6 DEF AllCounted
<1>8. Underway' = Underway /\ \A k \in Kinds : UnderwayOf(k)' = UnderwayOf(k)
  BY <1>1 DEF Underway, UnderwayOf
<1>9. EveryEventAccounted' /\ KindsAccounted'
  BY <1>0, <1>1, <1>6, <1>7, <1>8 DEF EveryEventAccounted, KindsAccounted
<1>10. ScrapedIsOld'
  <2>1. scraped.epoch \in 1..Epoch /\ scraped' = scraped
    BY <1>0, <1>1 DEF Shapes
  <2> QED
    BY <1>0, <1>3, <2>1 DEF ScrapedIsOld
<1>11. Sum(written)' <= MaxEvents
  BY <1>1 DEF SinkInv
<1> QED
  BY <1>5, <1>9, <1>10, <1>11 DEF SinkInv

LEMMA CollectStep ==
    ASSUME SinkInv, Collect
    PROVE  SinkInv'
<1>0. Shapes(Nat) /\ EveryEventAccounted /\ KindsAccounted /\ ScrapedIsOld
  BY DEF SinkInv
<1>1. /\ scraped' = [epoch |-> Epoch, counts |-> vecs[Epoch]]
      /\ UNCHANGED <<ring, unreported, polled, receiver, vecs, dropCounter, crashed,
                     written, skips>>
  BY DEF Collect, Last, Epoch
<1>2. Epoch \in 1..Epoch /\ vecs[Epoch] \in [EventLabels -> Nat] /\ Epoch' = Epoch
  BY <1>0, <1>1 DEF Shapes, Epoch
<1>3. Shapes(Nat)'
  BY <1>0, <1>1, <1>2, SameEpoch DEF Shapes
<1>4. /\ Underway' = Underway /\ \A k \in Kinds : UnderwayOf(k)' = UnderwayOf(k)
      /\ AllCounted' = AllCounted /\ \A l \in EventLabels : Counted(l)' = Counted(l)
  BY <1>1, CountersKept DEF Underway, UnderwayOf
<1>5. EveryEventAccounted' /\ KindsAccounted'
  BY <1>0, <1>1, <1>4 DEF EveryEventAccounted, KindsAccounted
<1>6. ScrapedIsOld'
  <2>1. \A l \in EventLabels : vecs[Epoch][l] \in Nat
    BY <1>2
  <2> QED
    BY <1>1, <2>1 DEF ScrapedIsOld
<1>7. Sum(written)' <= MaxEvents
  BY <1>1 DEF SinkInv
<1> QED
  BY <1>3, <1>5, <1>6, <1>7 DEF SinkInv

LEMMA SinkNextInv == SinkInv /\ [SinkNext]_sinkVars => SinkInv'
<1> SUFFICES ASSUME SinkInv, [SinkNext]_sinkVars PROVE SinkInv'
  OBVIOUS
<1>1. CASE SinkNext
  BY <1>1, WriteStep, PollStep, ReceiveLostStep, ReceiveStep, DecodeStep, IncStep,
     FlushStep, CollectStep
  DEF SinkNext
<1>2. CASE UNCHANGED sinkVars
  <2>1. Shapes(Nat)' /\ ScrapedIsOld'
    BY <1>2, SameEpoch DEF sinkVars, SinkInv, Shapes, ScrapedIsOld
  <2>2. EveryEventAccounted' /\ KindsAccounted' /\ Sum(written)' <= MaxEvents
    BY <1>2, CountersKept
    DEF sinkVars, SinkInv, EveryEventAccounted, KindsAccounted, Underway, UnderwayOf
  <2> QED
    BY <2>1, <2>2 DEF SinkInv
<1> QED
  BY <1>1, <1>2

LEMMA SinkInvariant == SinkSpec => []SinkInv
  BY SinkInitInv, SinkNextInv, PTL DEF SinkSpec

\* Nothing that is counted exceeds the number of events written.
LEMMA SinkBounded == SinkInv => SinkTypeOK
<1> SUFFICES ASSUME SinkInv PROVE Shapes(0..MaxEvents)
  BY DEF SinkTypeOK
<1>0. Shapes(Nat) /\ Sum(written) <= MaxEvents /\ EveryEventAccounted /\ ScrapedIsOld
  BY DEF SinkInv
<1> DEFINE Bounded == 0..MaxEvents
           sent == IF polled = NoRecord THEN 0 ELSE Weights[polled]
           held == IF receiver = Idle THEN 0 ELSE 1
<1>1. /\ Sum(written) \in Nat /\ Underway \in Nat /\ AllCounted \in Nat
      /\ unreported \in Nat /\ dropCounter \in Nat /\ skips \in Nat /\ MaxEvents \in Nat
      /\ SumFunction(Each(Weights, ring)) \in Nat /\ sent \in Nat /\ held \in Nat
  BY <1>0, NumberFacts, WeightFacts, EventsAssumption DEF Shapes, SinkNumbers
<1>2. Underway = SumFunction(Each(Weights, ring)) + sent + held
  BY <1>0, UnderwaySum DEF UnderwayIsSum
<1> HIDE DEF Bounded, sent, held
<1>3. /\ Underway <= MaxEvents /\ AllCounted <= MaxEvents
      /\ unreported \in Bounded /\ dropCounter \in Bounded /\ skips \in Bounded
      /\ SumFunction(Each(Weights, ring)) <= MaxEvents /\ sent <= MaxEvents
  BY <1>0, <1>1, <1>2 DEF EveryEventAccounted, Bounded
<1>4. written \in [Kinds -> Bounded]
  <2>1. written \in [Kinds -> Nat] /\ Sum(written) = SumFunctionOnSet(written, Kinds)
    BY <1>0 DEF Shapes, Sum, SumFunction
  <2>2. \A k \in Kinds : written[k] <= Sum(written)
    BY <2>1, FiniteKinds, SumOfOne
  <2> QED
    BY <1>0, <1>1, <2>1, <2>2 DEF Bounded
<1>5. \A rec \in Records(Nat) : Weights[rec] <= MaxEvents => rec \in Records(Bounded)
  <2> SUFFICES ASSUME NEW rec \in Records(Nat), Weights[rec] <= MaxEvents
               PROVE  rec \in Records(Bounded)
    OBVIOUS
  <2>1. CASE IsLost(rec)
    <3>1. rec.lost \in Nat /\ rec = LostRecord(rec.lost) /\ Weights[rec] = rec.lost
      BY <2>1, RecordFacts, WeightFacts
    <3>2. rec.lost \in Bounded
      BY <1>1, <3>1 DEF Bounded
    <3> QED
      BY <3>1, <3>2 DEF Records, LostRecord
  <2>2. CASE ~IsLost(rec)
    BY <2>2, RecordFacts DEF Records, EventRecord
  <2> QED
    BY <2>1, <2>2
<1>6. polled \in Records(Bounded) \cup {NoRecord}
  BY <1>0, <1>3, <1>5 DEF Shapes, sent
<1>7. ring \in Seq(Records(Bounded))
  <2>1. /\ ring \in Seq(Records(Nat)) /\ Len(ring) \in Nat /\ DOMAIN ring = 1..Len(ring)
        /\ \A i \in 1..Len(ring) : ring[i] \in Records(Nat)
    BY <1>0 DEF Shapes
  <2>2. ASSUME NEW i \in 1..Len(ring) PROVE Weights[ring[i]] <= SumFunction(Each(Weights, ring))
    <3> DEFINE f == Each(Weights, ring)
               S == 1..Len(ring)
    <3>1. DOMAIN f = S /\ f[i] = Weights[ring[i]] /\ \A j \in S : f[j] \in Nat
      BY <2>1, WeightFacts DEF Each
    <3>2. IsFiniteSet(S) /\ i \in S
      BY <2>1, IntervalFacts
    <3> HIDE DEF f, S
    <3>3. f[i] <= SumFunction(f)
      BY <3>1, <3>2, SumOfOne DEF SumFunction
    <3> QED
      BY <3>1, <3>3 DEF f
  <2>3. ASSUME NEW i \in 1..Len(ring) PROVE ring[i] \in Records(Bounded)
    <3>1. Weights[ring[i]] \in Nat
      BY <2>1, WeightFacts
    <3>2. Weights[ring[i]] <= MaxEvents
      BY <1>1, <1>3, <2>2, <3>1
    <3> QED
      BY <1>5, <2>1, <3>2
  <2> QED
    BY <2>1, <2>3
<1>8. /\ Epoch \in Nat /\ DOMAIN vecs = 1..Epoch /\ vecs = [i \in 1..Epoch |-> vecs[i]]
      /\ \A i \in 1..Epoch : vecs[i] \in [EventLabels -> Nat]
  BY <1>0 DEF Shapes, Epoch
<1>9. ASSUME NEW i \in 1..Epoch, NEW l \in EventLabels PROVE vecs[i][l] \in Bounded
  <2>1. vecs[i][l] <= Counted(l)
    <3> DEFINE f == [j \in 1..Epoch |-> vecs[j][l]]
               S == 1..Epoch
    <3>1. DOMAIN f = S /\ f[i] = vecs[i][l] /\ \A j \in S : f[j] \in Nat
      BY <1>8
    <3>2. IsFiniteSet(S) /\ i \in S /\ Counted(l) = SumFunction(f)
      BY <1>8, IntervalFacts DEF Counted, Sum
    <3> HIDE DEF f, S
    <3> QED
      BY <3>1, <3>2, SumOfOne DEF SumFunction
  <2>2. Counted(l) <= AllCounted
    <3> DEFINE f == [k \in EventLabels |-> Counted(k)]
    <3>1. /\ DOMAIN f = EventLabels /\ f[l] = Counted(l) /\ AllCounted = SumFunction(f)
          /\ \A k \in EventLabels : f[k] \in Nat
      BY <1>0, NumberFacts DEF SinkNumbers, AllCounted, Sum
    <3> HIDE DEF f
    <3> QED
      BY <3>1, KindsAssumption, SumOfOne DEF SumFunction
  <2>3. vecs[i] \in [EventLabels -> Nat] /\ Counted(l) \in Nat
    BY <1>0, <1>8, NumberFacts DEF SinkNumbers
  <2>4. vecs[i][l] \in Nat
    BY <2>3
  <2> QED
    BY <1>1, <1>3, <2>1, <2>2, <2>3, <2>4 DEF Bounded
<1>10. vecs \in Seq([EventLabels -> Bounded])
  <2>1. \A i \in 1..Epoch : vecs[i] \in [EventLabels -> Bounded]
    BY <1>8, <1>9
  <2> QED
    BY <1>8, <2>1
<1>11. scraped \in [epoch : 1..Epoch, counts : [EventLabels -> Bounded]]
  <2>1. /\ scraped \in [epoch : 1..Epoch, counts : [EventLabels -> Nat]]
        /\ \A l \in EventLabels : scraped.counts[l] <= vecs[scraped.epoch][l]
    BY <1>0 DEF Shapes, ScrapedIsOld
  <2>2. \A l \in EventLabels : scraped.counts[l] \in Nat /\ vecs[scraped.epoch][l] \in Bounded
    BY <1>9, <2>1
  <2>3. \A l \in EventLabels : scraped.counts[l] \in Bounded
    BY <1>1, <2>1, <2>2 DEF Bounded
  <2> QED
    BY <2>1, <2>3
<1>12. Shapes(Bounded)
  BY <1>0, <1>3, <1>4, <1>6, <1>7, <1>10, <1>11 DEF Shapes
<1> QED
  BY <1>12 DEF Bounded

\* Type correctness of the perf event sink (perf_event_array.go): what is
\* counted, reported as lost, or skipped never exceeds what was written.
THEOREM SinkTypeCorrect == SinkSpec => []SinkTypeOK
  BY SinkInvariant, SinkBounded, PTL

\* Every event the programs wrote is on its way, counted, skipped or reported
\* as lost, in every order of the goroutines, the ticker and the scrapes
\* (perf_event_array.go).
THEOREM EventsAreAccounted == SinkSpec => []EveryEventAccounted
<1>1. SinkInv => EveryEventAccounted
  BY DEF SinkInv
<1> QED
  BY <1>1, SinkInvariant, PTL

\* No event is counted twice, or under the labels of another
\* (perf_event_array.go, WithLabelValues on the counterVec loaded before).
THEOREM NothingCountedTwice == SinkSpec => []CountedWasWritten
<1>1. SinkInv => CountedWasWritten
  <2> SUFFICES ASSUME SinkInv, NEW l \in EventLabels \cap Kinds
               PROVE  Counted(l) <= written[l]
    BY DEF CountedWasWritten
  <2>1. Counted(l) + UnderwayOf(l) <= written[l] /\ Shapes(Nat)
    BY DEF SinkInv, KindsAccounted
  <2>2. Counted(l) \in Nat /\ UnderwayOf(l) \in Nat /\ written[l] \in Nat
    BY <2>1, NumberFacts DEF SinkNumbers, Shapes
  <2> QED
    BY <2>1, <2>2
<1> QED
  BY <1>1, SinkInvariant, PTL

\* Between two flushes no scrape reports less than the one before
\* (perf_event_array.go, Collect).
THEOREM ScrapesOnlyGrow == SinkSpec => ScrapesGrow
<1>1. SinkInv /\ [SinkNext]_sinkVars =>
        [scraped'.epoch = scraped.epoch =>
           \A l \in EventLabels : scraped'.counts[l] >= scraped.counts[l]]_sinkVars
  <2> SUFFICES ASSUME SinkInv, [SinkNext]_sinkVars, scraped'.epoch = scraped.epoch,
                      NEW l \in EventLabels
               PROVE  scraped'.counts[l] >= scraped.counts[l]
    OBVIOUS
  <2>1. /\ scraped \in [epoch : 1..Epoch, counts : [EventLabels -> Nat]]
        /\ scraped.counts[l] <= vecs[scraped.epoch][l]
        /\ Epoch \in Nat /\ vecs[Epoch] \in [EventLabels -> Nat]
    BY DEF SinkInv, Shapes, ScrapedIsOld, Epoch
  <2>2. scraped.counts[l] \in Nat /\ vecs[Epoch][l] \in Nat
    BY <2>1
  <2>3. CASE Collect
    <3>1. scraped' = [epoch |-> Epoch, counts |-> vecs[Epoch]]
      BY <2>3 DEF Collect, Last, Epoch
    <3> QED
      BY <2>1, <2>2, <3>1
  <2>4. CASE UNCHANGED scraped
    BY <2>2, <2>4
  <2> QED
    BY <2>3, <2>4
    DEF SinkNext, sinkVars, Write, Poll, ReceiveLost, Receive, Decode, Inc, Flush
<1> QED
  BY <1>1, SinkInvariant, PTL DEF SinkSpec, ScrapesGrow

-----------------------------------------------------------------------------
(***************************************************************************)
(* MapScrape: what a scrape sends is neither more than was counted nor     *)
(* less than the map held.  Both follow from what the rows of a series are *)
(* worth compared with the keys the walk has passed (WalkSums).            *)
(***************************************************************************)
Rows == [labels : LabelSets, value : 0..MaxCount]

\* The keys are finitely many, and each has a position of its own.
LEMMA KeyFacts ==
    /\ IsFiniteSet(Keys)
    /\ \A l : IsFiniteSet(Joined(l)) /\ Joined(l) \subseteq Keys
    /\ DOMAIN Order = 1..Len(Order) /\ Len(Order) \in Nat
    /\ \A i \in DOMAIN Order : Order[i] \in Keys /\ Position(Order[i]) = i
    /\ \A k \in Keys : Position(k) \in DOMAIN Order /\ Order[Position(k)] = k
<1>1. Order \in Seq(Keys) /\ Len(Order) \in Nat /\ DOMAIN Order = 1..Len(Order)
  BY OrderAssumption
<1>2. Keys = {Order[i] : i \in 1..Len(Order)}
  BY <1>1 DEF Keys, Range
<1>3. \A k \in Keys : Position(k) \in DOMAIN Order /\ Order[Position(k)] = k
  BY <1>1, <1>2 DEF Position
<1>4. ASSUME NEW i \in DOMAIN Order PROVE Order[i] \in Keys /\ Position(Order[i]) = i
  <2>1. Order[i] \in Keys
    BY <1>1, <1>2
  <2>2. Position(Order[i]) \in DOMAIN Order /\ Order[Position(Order[i])] = Order[i]
    BY <1>3, <2>1
  <2> QED
    BY <2>1, <2>2, OrderAssumption DEF IsInjective
<1>5. IsFiniteSet(Keys)
  <2>1. Order \in Surjection(1..Len(Order), Keys)
    BY <1>1, <1>2 DEF Surjection
  <2> QED
    BY <1>1, <2>1, IntervalFacts, FS_Surjection
<1>6. \A l : Joined(l) \subseteq Keys
  BY DEF Joined
<1> QED
  BY <1>1, <1>3, <1>4, <1>5, <1>6, FS_Subset

LEMMA RowFacts ==
    ASSUME NEW rs \in Seq(Rows)
    PROVE  /\ Len(rs) \in Nat /\ DOMAIN rs = 1..Len(rs)
           /\ \A i \in 1..Len(rs) : rs[i] \in Rows
           /\ \A r \in Rows : r.value \in Nat /\ r.labels \in LabelSets
<1>1. \A r \in Rows : r.value \in Nat /\ r.labels \in LabelSets
  BY BoundsAssumption DEF Rows
<1>2. /\ Len(rs) \in Nat /\ DOMAIN rs = 1..Len(rs)
      /\ \A i \in 1..Len(rs) : rs[i] \in Rows
  OBVIOUS
<1> QED
  BY <1>1, <1>2

\* What one more row adds to the sum of a series.
LEMMA RowSumAppend ==
    ASSUME NEW rs \in Seq(Rows), NEW r \in Rows, NEW l
    PROVE  RowSum(Append(rs, r), l)
             = RowSum(rs, l) + (IF Join[r.labels] = Join[l] THEN r.value ELSE 0)
<1> DEFINE n == Len(rs)
           S == Series(rs, l)
           T == Series(Append(rs, r), l)
           f == [i \in S |-> rs[i].value]
           g == [i \in T |-> Append(rs, r)[i].value]
<1>1. /\ n \in Nat /\ DOMAIN rs = 1..n /\ DOMAIN Append(rs, r) = 1..n + 1
      /\ Append(rs, r)[n + 1] = r /\ \A i \in 1..n : Append(rs, r)[i] = rs[i]
      /\ \A i \in 1..n : rs[i].value \in Int
      /\ r.value \in Int
  BY RowFacts
<1>2. S \subseteq 1..n /\ T = S \cup (IF Join[r.labels] = Join[l] THEN {n + 1} ELSE {})
  BY <1>1 DEF Series
<1>3. IsFiniteSet(S) /\ n + 1 \notin S
  BY <1>1, <1>2, IntervalFacts, FS_Subset
<1>4. /\ DOMAIN f = S /\ DOMAIN g = T
      /\ \A i \in S : f[i] \in Int /\ g[i] = f[i]
      /\ n + 1 \in T => g[n + 1] = r.value
  BY <1>1, <1>2
<1>5. RowSum(rs, l) = SumFunctionOnSet(f, S) /\ RowSum(Append(rs, r), l) = SumFunctionOnSet(g, T)
  BY <1>4 DEF RowSum, SumFunction
<1> HIDE DEF S, T, f, g, n
<1>6. SumFunctionOnSet(g, S) = SumFunctionOnSet(f, S) /\ SumFunctionOnSet(f, S) \in Int
  BY <1>3, <1>4, SumSame, SumInt
<1>7. CASE Join[r.labels] = Join[l]
  <2>1. T = S \cup {n + 1}
    BY <1>2, <1>7
  <2>2. g[n + 1] = r.value
    BY <1>4, <2>1
  <2>3. \A x \in S \cup {n + 1} : g[x] \in Int
    BY <1>1, <1>4, <2>2
  <2>4. SumFunctionOnSet(g, S \cup {n + 1}) = g[n + 1] + SumFunctionOnSet(g, S)
    BY <1>3, <2>3, SumAdd
  <2> QED
    BY <1>1, <1>5, <1>6, <1>7, <2>1, <2>2, <2>4
<1>8. CASE Join[r.labels] # Join[l]
  BY <1>2, <1>5, <1>6, <1>8
<1> QED
  BY <1>7, <1>8

LEMMA RowSumNat ==
    ASSUME NEW rs \in Seq(Rows), NEW l
    PROVE  RowSum(rs, l) \in Nat
<1> DEFINE S == Series(rs, l)
           f == [i \in S |-> rs[i].value]
<1>1. /\ Len(rs) \in Nat /\ DOMAIN rs = 1..Len(rs)
      /\ \A i \in 1..Len(rs) : rs[i].value \in Nat
  BY RowFacts
<1>2. S \subseteq 1..Len(rs)
  BY <1>1 DEF Series
<1>3. IsFiniteSet(S)
  BY <1>1, <1>2, IntervalFacts, FS_Subset
<1>4. DOMAIN f = S /\ (\A i \in S : f[i] \in Nat) /\ RowSum(rs, l) = SumFunction(f)
  BY <1>1, <1>2 DEF RowSum
<1> HIDE DEF S, f
<1> QED
  BY <1>3, <1>4, SumNat DEF SumFunction

\* Label sets of the same text are one series.
LEMMA SameSeries ==
    ASSUME NEW rs, NEW l, NEW m, Join[l] = Join[m]
    PROVE  /\ Series(rs, l) = Series(rs, m)
           /\ RowSum(rs, l) = RowSum(rs, m) /\ Joined(l) = Joined(m)
  BY DEF Series, RowSum, Joined

\* A series has one first row, whose labels it is exported under.
LEMMA FirstRow ==
    ASSUME NEW rs \in Seq(Rows), NEW l
    PROVE  /\ Series(rs, l) # {} =>
                 \E m \in DOMAIN Aggregate(rs) :
                    /\ Join[m] = Join[l]
                    /\ \A o \in DOMAIN Aggregate(rs) : (Join[o] = Join[l]) = (o = m)
           /\ \A m \in DOMAIN Aggregate(rs) :
                 /\ Aggregate(rs)[m] = RowSum(rs, m)
                 /\ \E i \in DOMAIN rs : rs[i].labels = m
<1>1. DOMAIN Aggregate(rs) = {rs[i].labels : i \in FirstRows(rs)}
  BY DEF Aggregate
<1>2. \A m \in DOMAIN Aggregate(rs) :
         Aggregate(rs)[m] = RowSum(rs, m) /\ \E i \in DOMAIN rs : rs[i].labels = m
  BY <1>1 DEF Aggregate, FirstRows
<1>3. ASSUME Series(rs, l) # {}
      PROVE  \E m \in DOMAIN Aggregate(rs) :
                /\ Join[m] = Join[l]
                /\ \A o \in DOMAIN Aggregate(rs) : (Join[o] = Join[l]) = (o = m)
  <2>1. Series(rs, l) \subseteq Nat
    BY DEF Series
  <2>2. PICK i \in Series(rs, l) : \A j \in Series(rs, l) : i <= j
    BY <1>3, <2>1, LeastNumber
  <2>3. i \in DOMAIN rs /\ Join[rs[i].labels] = Join[l]
    BY DEF Series
  <2>4. i \in FirstRows(rs)
    BY <2>2, <2>3, SameSeries DEF FirstRows
  <2>5. ASSUME NEW j \in FirstRows(rs), Join[rs[j].labels] = Join[l] PROVE j = i
    <3>1. j \in Series(rs, l) /\ \A x \in Series(rs, l) : j <= x
      BY <2>5, SameSeries DEF FirstRows, Series
    <3> QED
      BY <2>1, <2>2, <3>1
  <2> QED
    BY <1>1, <2>3, <2>4, <2>5
<1> QED
  BY <1>2, <1>3

-----------------------------------------------------------------------------
LEMMA ScrapeInitInv == Init => ScrapeInv
<1> SUFFICES ASSUME Init PROVE ScrapeInv
  OBVIOUS
<1> USE DEF Init
<1>1. /\ admitted = {} /\ count = [k \in Keys |-> 0] /\ lost = [k \in Keys |-> 0]
  BY DEF Kernel!Init
<1>2. TypeOK
  <2>1. Cardinality(admitted) <= Capacity
    BY <1>1, FS_EmptySet, BoundsAssumption
  <2>2. /\ count \in [Keys -> 0..MaxCount] /\ made \in [Keys -> 0..MaxCount]
        /\ lost \in [Keys -> 0..MaxLost] /\ floor \in [Keys -> 0..MaxCount]
    BY <1>1, BoundsAssumption
  <2>3. rows \in Seq([labels : LabelSets, value : 0..MaxCount]) /\ Len(rows) <= MaxRows
    BY BoundsAssumption
  <2>4. DOMAIN exported = {}
    OBVIOUS
  <2> QED
    BY <1>1, <2>1, <2>2, <2>3, <2>4 DEF TypeOK
<1>3. KeysOrdered
  <2>1. SumFunction(lost) = 0
    BY <1>1, KeyFacts, SumZero DEF SumFunction
  <2> QED
    BY <1>1, <2>1, BoundsAssumption DEF KeysOrdered
<1>4. WalkSums /\ WalkStable /\ ExportedIsOld
  <2>1. DOMAIN rows = {} /\ DOMAIN exported = {}
    OBVIOUS
  <2> QED
    BY <2>1 DEF WalkSums, WalkStable, ExportedIsOld
<1> QED
  BY <1>2, <1>3, <1>4 DEF ScrapeInv

\* While the map is only read or the walk does not move, the sums stay bounded
\* if the bounds move apart.
LEMMA WalkSumsKept ==
    ASSUME TypeOK, WalkSums, UNCHANGED <<scrape, cursor, rows, rewound>>,
           floor' \in [Keys -> Nat], made' \in [Keys -> Nat],
           \A k \in Keys : floor'[k] <= floor[k] /\ made[k] <= made'[k]
    PROVE  WalkSums'
<1> SUFFICES ASSUME scrape # "idle", NEW l \in LabelSets
             PROVE  /\ SumFunctionOnSet(floor', Joined(l) \cap Passed) <= RowSum(rows, l)
                    /\ ~rewound => RowSum(rows, l)
                                     <= SumFunctionOnSet(made', Joined(l) \cap Passed)
  BY DEF WalkSums, Passed
<1> DEFINE S == Joined(l) \cap Passed
<1>1. IsFiniteSet(S) /\ S \subseteq Keys
  BY KeyFacts, FS_Subset
<1>2. \A k \in S : /\ floor[k] \in Nat /\ floor'[k] \in Nat /\ made[k] \in Nat /\ made'[k] \in Nat
                   /\ floor'[k] <= floor[k] /\ made[k] <= made'[k]
  BY <1>1, BoundsAssumption DEF TypeOK
<1>3. /\ SumFunctionOnSet(floor, S) <= RowSum(rows, l)
      /\ ~rewound => RowSum(rows, l) <= SumFunctionOnSet(made, S)
  BY DEF WalkSums
<1>4. RowSum(rows, l) \in Nat
  BY RowSumNat DEF TypeOK, Rows
<1> HIDE DEF S
<1>5. SumFunctionOnSet(floor', S) <= SumFunctionOnSet(floor, S)
  BY <1>1, <1>2, SumMonotone
<1>6. SumFunctionOnSet(made, S) <= SumFunctionOnSet(made', S)
  BY <1>1, <1>2, SumMonotone
<1>7. /\ SumFunctionOnSet(floor, S) \in Nat /\ SumFunctionOnSet(floor', S) \in Nat
      /\ SumFunctionOnSet(made, S) \in Nat /\ SumFunctionOnSet(made', S) \in Nat
  BY <1>1, <1>2, SumNat
<1>8. /\ SumFunctionOnSet(floor', S) <= RowSum(rows, l)
      /\ ~rewound => RowSum(rows, l) <= SumFunctionOnSet(made', S)
  BY <1>3, <1>4, <1>5, <1>6, <1>7
<1> QED
  BY <1>8 DEF S

LEMMA SameCardinality == \A S : Kernel!Cardinality(S) = Cardinality(S)
  BY Zenon DEF Cardinality, Kernel!Cardinality

\* What the programs do to the map.
LEMMA IncrementFacts ==
    ASSUME TypeOK, KeysOrdered, NEW k \in Keys, Increment(k)
    PROVE  /\ admitted \subseteq admitted' /\ admitted' \subseteq Keys
           /\ Cardinality(admitted') <= Capacity
           /\ count' \in [Keys -> 0..MaxCount] /\ made' \in [Keys -> 0..MaxCount]
           /\ lost' \in [Keys -> 0..MaxLost] /\ KeysOrdered'
           /\ \A j \in Keys : count[j] <= count'[j] /\ made[j] <= made'[j]
<1>0. /\ count \in [Keys -> 0..MaxCount] /\ made \in [Keys -> 0..MaxCount]
      /\ lost \in [Keys -> 0..MaxLost]
      /\ \A j \in Keys : /\ count[j] \in Nat /\ made[j] \in Nat /\ lost[j] \in Nat
                         /\ floor[j] \in Nat
      /\ admitted \subseteq Keys /\ IsFiniteSet(admitted) /\ Cardinality(admitted) \in Nat
  BY KeyFacts, FS_Subset, FS_CardinalityType, BoundsAssumption DEF TypeOK
<1>1. floor' = floor /\ lru' = lru /\ made[k] < MaxCount
  BY DEF Increment, scrapeVars
<1>2. CASE Kernel!Admit(k) /\ UNCHANGED made
  <2>1. /\ admitted' = admitted \cup {k} /\ k \notin admitted
        /\ Cardinality(admitted) < Capacity /\ UNCHANGED <<count, lost, made>>
    BY <1>2, SameCardinality DEF Kernel!Admit
  <2>2. Cardinality(admitted') = Cardinality(admitted) + 1
    BY <1>0, <2>1, FS_AddElement
  <2>3. KeysOrdered'
    BY <1>1, <2>1 DEF KeysOrdered
  <2> QED
    BY <1>0, <2>1, <2>2, <2>3, BoundsAssumption DEF TypeOK
<1>3. CASE Kernel!Count(k, 1) /\ made' = [made EXCEPT ![k] = @ + 1]
  <2>1. /\ k \in admitted /\ count' = [count EXCEPT ![k] = @ + 1]
        /\ UNCHANGED <<admitted, lost>>
    BY <1>3 DEF Kernel!Count
  <2>2. /\ count[k] <= made[k]
        /\ \A j \in Keys : count'[j] = count[j] + (IF j = k THEN 1 ELSE 0)
        /\ \A j \in Keys : made'[j] = made[j] + (IF j = k THEN 1 ELSE 0)
        /\ DOMAIN count' = Keys /\ DOMAIN made' = Keys
    BY <1>0, <1>3, <2>1 DEF KeysOrdered
  <2>3. count' \in [Keys -> 0..MaxCount] /\ made' \in [Keys -> 0..MaxCount]
    BY <1>0, <1>1, <1>3, <2>1, <2>2, BoundsAssumption
  <2>4. KeysOrdered'
    BY <1>0, <1>1, <2>1, <2>2 DEF KeysOrdered
  <2> QED
    BY <1>0, <2>1, <2>2, <2>3, <2>4 DEF TypeOK
<1>4. CASE ~lru /\ SumFunction(lost) < MaxLost /\ Kernel!Lose(k, 1) /\ UNCHANGED made
  <2>1. /\ lost' = [lost EXCEPT ![k] = @ + 1] /\ UNCHANGED <<admitted, count, made>>
    BY <1>4 DEF Kernel!Lose
  <2>2. /\ DOMAIN lost = Keys /\ DOMAIN lost' = Keys
        /\ \A j \in Keys : lost'[j] = lost[j] + (IF j = k THEN 1 ELSE 0)
    BY <1>0, <2>1
  <2>3. SumFunction(lost') = SumFunction(lost) + 1 /\ SumFunction(lost) \in Nat
    <3>1. \A j \in Keys : lost[j] \in Int /\ lost'[j] \in Int
      BY <1>0, <2>2
    <3>2. \A j \in Keys \ {k} : lost'[j] = lost[j]
      BY <1>0, <2>2
    <3>3. SumFunctionOnSet(lost', Keys) = SumFunctionOnSet(lost, Keys) - lost[k] + lost'[k]
      BY <3>1, <3>2, KeyFacts, SumUpdate
    <3>4. SumFunctionOnSet(lost, Keys) \in Nat
      BY <1>0, KeyFacts, SumNat
    <3> QED
      BY <1>0, <2>2, <3>3, <3>4 DEF SumFunction
  <2>4. SumFunction(lost') <= MaxLost
    BY <1>4, <2>3, BoundsAssumption
  <2>5. lost' \in [Keys -> 0..MaxLost]
    <3>1. \A j \in Keys : lost'[j] \in Nat
      BY <1>0, <2>2
    <3>2. \A j \in Keys : lost'[j] <= SumFunctionOnSet(lost', Keys)
      BY <3>1, KeyFacts, SumOfOne
    <3>3. SumFunctionOnSet(lost', Keys) <= MaxLost /\ SumFunctionOnSet(lost', Keys) \in Nat
      BY <2>2, <2>3, <2>4 DEF SumFunction
    <3>4. \A j \in Keys : lost'[j] \in 0..MaxLost
      BY <3>1, <3>2, <3>3, BoundsAssumption
    <3>5. lost' = [j \in Keys |-> lost'[j]]
      BY <1>0, <2>1
    <3> QED
      BY <3>4, <3>5
  <2>6. KeysOrdered'
    BY <1>1, <2>1, <2>4 DEF KeysOrdered
  <2> QED
    BY <1>0, <2>1, <2>5, <2>6 DEF TypeOK
<1> QED
  BY <1>2, <1>3, <1>4 DEF Increment

LEMMA IncrementStep ==
    ASSUME ScrapeInv, NEW k \in Keys, Increment(k)
    PROVE  ScrapeInv'
<1>0. TypeOK /\ KeysOrdered /\ WalkSums /\ WalkStable /\ ExportedIsOld
  BY DEF ScrapeInv
<1>1. UNCHANGED <<lru, scrape, cursor, rows, rewound, floor, exported>>
  BY DEF Increment, scrapeVars
<1>2. /\ admitted \subseteq admitted' /\ admitted' \subseteq Keys
      /\ Cardinality(admitted') <= Capacity
      /\ count' \in [Keys -> 0..MaxCount] /\ made' \in [Keys -> 0..MaxCount]
      /\ lost' \in [Keys -> 0..MaxLost] /\ KeysOrdered'
      /\ \A j \in Keys : count[j] <= count'[j] /\ made[j] <= made'[j]
  BY <1>0, IncrementFacts
<1>3. TypeOK'
  BY <1>0, <1>1, <1>2 DEF TypeOK
<1>4. WalkSums'
  <2>1. /\ floor' \in [Keys -> Nat] /\ made' \in [Keys -> Nat]
        /\ \A j \in Keys : floor'[j] <= floor[j]
    BY <1>0, <1>1, <1>2, BoundsAssumption DEF TypeOK
  <2> QED
    BY <1>0, <1>1, <1>2, <2>1, WalkSumsKept
<1>5. WalkStable'
  BY <1>0, <1>1, <1>2 DEF WalkStable
<1>6. ExportedIsOld'
  <2> SUFFICES ASSUME ~lru, NEW l \in DOMAIN exported
               PROVE  /\ exported[l] <= Total(IF scrape = "idle" THEN count' ELSE floor, l)
                      /\ Joined(l) \cap admitted' # {}
                      /\ scrape # "idle" =>
                           Series(rows, l) # {} \/ (Joined(l) \cap admitted') \ Passed # {}
    BY <1>1 DEF ExportedIsOld, Passed
  <2>1. /\ exported[l] <= Total(IF scrape = "idle" THEN count ELSE floor, l)
        /\ Joined(l) \cap admitted # {} /\ exported[l] \in Nat
        /\ scrape # "idle" =>
             Series(rows, l) # {} \/ (Joined(l) \cap admitted) \ Passed # {}
    BY <1>0 DEF ExportedIsOld, TypeOK
  <2>2. Total(count, l) <= Total(count', l) /\ Total(count, l) \in Nat /\ Total(count', l) \in Nat
    <3>1. IsFiniteSet(Joined(l)) /\ Joined(l) \subseteq Keys
      BY KeyFacts
    <3>2. \A j \in Joined(l) : count[j] \in Nat /\ count'[j] \in Nat /\ count[j] <= count'[j]
      BY <1>0, <1>2, <3>1, BoundsAssumption DEF TypeOK
    <3>3. SumFunctionOnSet(count, Joined(l)) <= SumFunctionOnSet(count', Joined(l))
      BY <3>1, <3>2, SumMonotone
    <3> QED
      BY <3>1, <3>2, <3>3, SumNat DEF Total
  <2>3. exported[l] <= Total(IF scrape = "idle" THEN count' ELSE floor, l)
    BY <2>1, <2>2
  <2> QED
    BY <1>2, <2>1, <2>3
<1> QED
  BY <1>2, <1>3, <1>4, <1>5, <1>6 DEF ScrapeInv

LEMMA EvictStep ==
    ASSUME ScrapeInv, NEW k \in Keys, Evict(k)
    PROVE  ScrapeInv'
<1>0. TypeOK /\ KeysOrdered /\ WalkSums
  BY DEF ScrapeInv
<1>1. /\ lru /\ k \in admitted /\ admitted' = admitted \ {k}
      /\ count' = [count EXCEPT ![k] = 0] /\ floor' = [floor EXCEPT ![k] = 0]
      /\ UNCHANGED <<lru, lost, made, scrape, cursor, rows, rewound, exported>>
  BY DEF Evict
<1>2. /\ IsFiniteSet(admitted) /\ Cardinality(admitted) \in Nat
      /\ \A j \in Keys : count[j] \in Nat /\ made[j] \in Nat /\ floor[j] \in Nat
      /\ count \in [Keys -> 0..MaxCount] /\ floor \in [Keys -> 0..MaxCount]
  BY <1>0, KeyFacts, FS_Subset, FS_CardinalityType, BoundsAssumption DEF TypeOK
<1>3. /\ \A j \in Keys : count'[j] = (IF j = k THEN 0 ELSE count[j])
                         /\ floor'[j] = (IF j = k THEN 0 ELSE floor[j])
      /\ count' \in [Keys -> 0..MaxCount] /\ floor' \in [Keys -> 0..MaxCount]
  BY <1>1, <1>2, BoundsAssumption
<1>4. TypeOK'
  <2>1. Cardinality(admitted') <= Capacity
    <3>1. Cardinality(admitted') = Cardinality(admitted) - 1
      BY <1>1, <1>2, FS_RemoveElement
    <3> QED
      BY <1>0, <1>2, <3>1, BoundsAssumption DEF TypeOK
  <2> QED
    BY <1>0, <1>1, <1>3, <2>1 DEF TypeOK
<1>5. KeysOrdered'
  BY <1>0, <1>1, <1>2, <1>3 DEF KeysOrdered
<1>6. WalkSums'
  <2>1. /\ floor' \in [Keys -> Nat] /\ made' \in [Keys -> Nat]
        /\ \A j \in Keys : floor'[j] <= floor[j] /\ made[j] <= made'[j]
    BY <1>0, <1>1, <1>2, <1>3, BoundsAssumption DEF TypeOK
  <2> QED
    BY <1>0, <1>1, <2>1, WalkSumsKept
<1>7. WalkStable' /\ ExportedIsOld'
  BY <1>1 DEF WalkStable, ExportedIsOld
<1> QED
  BY <1>4, <1>5, <1>6, <1>7 DEF ScrapeInv

LEMMA FloorBelowCount ==
    ASSUME TypeOK, KeysOrdered, NEW l
    PROVE  /\ Total(floor, l) <= Total(count, l)
           /\ Total(floor, l) \in Nat /\ Total(count, l) \in Nat
<1>1. IsFiniteSet(Joined(l)) /\ Joined(l) \subseteq Keys
  BY KeyFacts
<1>2. \A j \in Joined(l) : floor[j] \in Nat /\ count[j] \in Nat /\ floor[j] <= count[j]
  BY <1>1, BoundsAssumption DEF TypeOK, KeysOrdered
<1>3. SumFunctionOnSet(floor, Joined(l)) <= SumFunctionOnSet(count, Joined(l))
  BY <1>1, <1>2, SumMonotone
<1> QED
  BY <1>1, <1>2, <1>3, SumNat DEF Total

LEMMA BeginStep ==
    ASSUME ScrapeInv, Begin
    PROVE  ScrapeInv'
<1>0. TypeOK /\ KeysOrdered /\ WalkStable /\ ExportedIsOld
  BY DEF ScrapeInv
<1>1. /\ scrape = "idle" /\ scrape' = "next" /\ cursor' = <<>> /\ rows' = <<>>
      /\ rewound' = FALSE /\ floor' = count
      /\ UNCHANGED <<lru, admitted, count, lost, made, exported>>
  BY DEF Begin, kernelVars
<1>2. Passed' = {} /\ DOMAIN rows' = {} /\ \A l : Series(rows', l) = {}
  BY <1>1 DEF Passed, Series
<1>3. TypeOK'
  <2>1. rows' \in Seq([labels : LabelSets, value : 0..MaxCount]) /\ Len(rows') <= MaxRows
    BY <1>1, BoundsAssumption
  <2>2. floor' \in [Keys -> 0..MaxCount]
    BY <1>0, <1>1 DEF TypeOK
  <2> QED
    BY <1>0, <1>1, <2>1, <2>2 DEF TypeOK
<1>4. KeysOrdered'
  BY <1>0, <1>1, BoundsAssumption DEF KeysOrdered, TypeOK
<1>5. WalkSums'
  <2> SUFFICES ASSUME NEW l \in LabelSets
               PROVE  /\ SumFunctionOnSet(floor', Joined(l) \cap Passed') <= RowSum(rows', l)
                      /\ RowSum(rows', l) <= SumFunctionOnSet(made', Joined(l) \cap Passed')
    BY DEF WalkSums
  <2>1. RowSum(rows', l) = 0
    <3>1. DOMAIN [i \in Series(rows', l) |-> rows'[i].value] = {}
      BY <1>2
    <3> QED
      BY <3>1, SumEmpty DEF RowSum, SumFunction
  <2>2. Joined(l) \cap Passed' = {}
    BY <1>2
  <2> QED
    BY <2>1, <2>2, SumEmpty
<1>6. WalkStable'
  BY <1>1, <1>2 DEF WalkStable
<1>7. ExportedIsOld'
  BY <1>0, <1>1, <1>2 DEF ExportedIsOld, Total
<1> QED
  BY <1>3, <1>4, <1>5, <1>6, <1>7 DEF ScrapeInv

\* The walk moves on: a key it is done with from now on held nothing that has
\* to be reported and, unless it begins again, none is left behind.
LEMMA WalkSumsMoved ==
    ASSUME TypeOK, WalkSums, scrape # "idle", UNCHANGED <<rows, floor, made>>,
           \A j \in Passed' \ Passed : LabelsOf[j] = Skip \/ floor[j] = 0,
           ~rewound' => ~rewound /\ Passed \subseteq Passed',
           Passed' \subseteq Keys
    PROVE  WalkSums'
<1> SUFFICES ASSUME NEW l \in LabelSets
             PROVE  /\ SumFunctionOnSet(floor, Joined(l) \cap Passed') <= RowSum(rows, l)
                    /\ ~rewound' => RowSum(rows, l)
                                      <= SumFunctionOnSet(made, Joined(l) \cap Passed')
  BY DEF WalkSums
<1> DEFINE A == Joined(l) \cap Passed'
           B == Joined(l) \cap Passed
<1>1. IsFiniteSet(Keys) /\ A \in SUBSET Keys /\ B \in SUBSET Keys
  BY KeyFacts
<1>2. \A j \in Keys : floor[j] \in Nat /\ made[j] \in Nat
  BY BoundsAssumption DEF TypeOK
<1>3. \A j \in A \ B : floor[j] = 0
  BY DEF Joined
<1>4. ~rewound' => B \subseteq A
  OBVIOUS
<1>5. /\ SumFunctionOnSet(floor, B) <= RowSum(rows, l)
      /\ ~rewound => RowSum(rows, l) <= SumFunctionOnSet(made, B)
  BY DEF WalkSums
<1>6. RowSum(rows, l) \in Nat
  BY RowSumNat DEF TypeOK, Rows
<1> HIDE DEF A, B
<1>7. SumFunctionOnSet(floor, A) <= SumFunctionOnSet(floor, B)
  BY <1>1, <1>2, <1>3, SumWithin
<1>8. ~rewound' => SumFunctionOnSet(made, B) <= SumFunctionOnSet(made, A)
  <2>1. IsFiniteSet(A)
    BY <1>1, FS_Subset
  <2> QED
    BY <1>1, <1>2, <1>4, <2>1, SumOfPart
<1>9. /\ SumFunctionOnSet(floor, A) \in Nat /\ SumFunctionOnSet(floor, B) \in Nat
      /\ SumFunctionOnSet(made, A) \in Nat /\ SumFunctionOnSet(made, B) \in Nat
  <2>1. IsFiniteSet(A) /\ IsFiniteSet(B)
    BY <1>1, FS_Subset
  <2>2. \A j \in A \cup B : floor[j] \in Nat /\ made[j] \in Nat
    BY <1>1, <1>2
  <2> QED
    BY <2>1, <2>2, SumNat
<1>10. /\ SumFunctionOnSet(floor, A) <= RowSum(rows, l)
       /\ ~rewound' => RowSum(rows, l) <= SumFunctionOnSet(made, A)
  BY <1>5, <1>6, <1>7, <1>8, <1>9
<1> QED
  BY <1>10 DEF A

\* What follows the walk is what the map holds and the walk has not passed.
LEMMA FollowingFacts ==
    ASSUME TypeOK, scrape = "next"
    PROVE  /\ Following \subseteq DOMAIN Order /\ \A i \in Following : Order[i] \in admitted
           /\ \A k \in admitted : Position(k) \notin Following => k \in Passed
           /\ ~Rewinds => \A i \in Following : \A k \in Passed : Position(k) < i
<1>1. /\ DOMAIN Order \subseteq Nat \ {0} /\ admitted \subseteq Keys
      /\ \A i \in DOMAIN Order : Order[i] \in Keys /\ Position(Order[i]) = i
      /\ \A k \in Keys : Position(k) \in DOMAIN Order /\ Order[Position(k)] = k
  BY KeyFacts DEF TypeOK
<1>2. cursor # <<>> => Head(cursor) \in Keys
  BY DEF TypeOK
<1>3. Passed = {k \in Keys : cursor # <<>> /\ (\/ Position(k) < Position(Head(cursor))
                                              \/ k = Head(cursor))}
  BY DEF Passed
<1>4. CASE cursor # <<>> /\ Head(cursor) \in admitted
  <2>1. Following = {i \in DOMAIN Order : i > Position(Head(cursor)) /\ Order[i] \in admitted}
    BY <1>4 DEF Following
  <2>2. ASSUME NEW k \in admitted, Position(k) \notin Following PROVE k \in Passed
    <3>1. ~(Position(k) > Position(Head(cursor)))
      BY <1>1, <2>1, <2>2
    <3>2. Position(k) < Position(Head(cursor)) \/ Position(k) = Position(Head(cursor))
      BY <1>1, <1>4, <3>1
    <3> QED
      BY <1>1, <1>3, <1>4, <3>2
  <2>3. ASSUME NEW i \in Following, NEW k \in Passed PROVE Position(k) < i
    BY <1>1, <1>2, <1>3, <1>4, <2>1
  <2> QED
    BY <2>1, <2>2, <2>3
<1>5. CASE ~(cursor # <<>> /\ Head(cursor) \in admitted)
  <2>1. Following = {i \in DOMAIN Order : i > 0 /\ Order[i] \in admitted}
    BY <1>5 DEF Following
  <2>2. \A k \in admitted : Position(k) \in Following
    BY <1>1, <2>1
  <2>3. ~Rewinds => Passed = {}
    BY <1>3, <1>5 DEF Rewinds
  <2> QED
    BY <2>1, <2>2, <2>3
<1> QED
  BY <1>4, <1>5

LEMMA NextKeyStep ==
    ASSUME ScrapeInv, NextKey
    PROVE  ScrapeInv'
<1>0. TypeOK /\ KeysOrdered /\ WalkSums /\ WalkStable /\ ExportedIsOld
  BY DEF ScrapeInv
<1> DEFINE q == CHOOSE i \in Following : \A j \in Following : i <= j
           k == Order[q]
<1>1. /\ scrape = "next" /\ Following # {} /\ Len(rows) < MaxRows
      /\ cursor' = <<k>>
      /\ scrape' \in IF LabelsOf[k] = Skip THEN {"next"} ELSE {"read", "idle"}
      /\ rewound' = (rewound \/ Rewinds)
      /\ UNCHANGED <<lru, admitted, count, lost, made, rows, floor, exported>>
  BY DEF NextKey, kernelVars
<1>2. /\ DOMAIN Order \subseteq Nat \ {0} /\ admitted \subseteq Keys
      /\ \A i \in DOMAIN Order : Order[i] \in Keys /\ Position(Order[i]) = i
      /\ \A j \in Keys : Position(j) \in DOMAIN Order /\ Order[Position(j)] = j
  BY <1>0, KeyFacts DEF TypeOK
<1>3. /\ Following \subseteq DOMAIN Order /\ \A i \in Following : Order[i] \in admitted
      /\ \A j \in admitted : Position(j) \notin Following => j \in Passed
      /\ ~Rewinds => \A i \in Following : \A j \in Passed : Position(j) < i
  BY <1>0, <1>1, FollowingFacts
<1>4. q \in Following /\ \A j \in Following : q <= j
  BY <1>1, <1>2, <1>3, LeastNumber
<1>5. k \in admitted /\ k \in Keys /\ Position(k) = q /\ q \in Nat
  BY <1>2, <1>3, <1>4
<1>6. cursor' # <<>> /\ Head(cursor') = k
  BY <1>1
<1> HIDE DEF q, k
<1>7. Passed' = {j \in Keys : Position(j) < q \/ (scrape' = "next" /\ j = k)}
  BY <1>1, <1>5, <1>6 DEF Passed
<1>8. TypeOK'
  <2>1. cursor' \in {<<>>} \cup {<<j>> : j \in Keys}
    BY <1>1, <1>5
  <2>2. scrape' \in {"idle", "next", "read", "emit"} /\ rewound' \in BOOLEAN
    BY <1>0, <1>1 DEF TypeOK, Rewinds
  <2>3. scrape' = "read" =>
           cursor' # <<>> /\ LabelsOf[Head(cursor')] # Skip /\ Len(rows') < MaxRows
    BY <1>1, <1>6
  <2> QED
    BY <1>0, <1>1, <2>1, <2>2, <2>3 DEF TypeOK
<1>9. KeysOrdered'
  BY <1>0, <1>1 DEF KeysOrdered
<1>10. WalkSums'
  <2>1. ASSUME NEW j \in Passed' \ Passed PROVE LabelsOf[j] = Skip \/ floor[j] = 0
    <3>1. j \in Keys /\ (Position(j) < q \/ (scrape' = "next" /\ j = k))
      BY <1>7
    <3>2. CASE Position(j) < q
      <4>1. Position(j) \notin Following
        BY <1>2, <1>4, <1>5, <3>1, <3>2
      <4>2. j \notin admitted
        BY <1>3, <2>1, <4>1
      <4>3. floor[j] <= count[j] /\ count[j] = 0 /\ floor[j] \in Nat
        BY <1>0, <3>1, <4>2, BoundsAssumption DEF KeysOrdered, TypeOK
      <4> QED
        BY <4>3
    <3>3. CASE scrape' = "next" /\ j = k
      BY <1>1, <3>3
    <3> QED
      BY <3>1, <3>2, <3>3
  <2>2. ~rewound' => ~rewound /\ Passed \subseteq Passed'
    <3>1. Passed \subseteq Keys
      BY DEF Passed
    <3> QED
      BY <1>1, <1>3, <1>4, <1>7, <3>1
  <2>3. Passed' \subseteq Keys
    BY <1>7
  <2> QED
    BY <1>0, <1>1, <2>1, <2>2, <2>3, WalkSumsMoved
<1>11. WalkStable'
  BY <1>0, <1>1, <1>5, <1>6 DEF WalkStable, Rewinds
<1>12. ExportedIsOld'
  <2> SUFFICES ASSUME ~lru, NEW l \in DOMAIN exported
               PROVE  /\ exported[l] <= Total(IF scrape' = "idle" THEN count ELSE floor, l)
                      /\ Joined(l) \cap admitted # {}
                      /\ scrape' # "idle" =>
                           Series(rows, l) # {} \/ (Joined(l) \cap admitted) \ Passed' # {}
    BY <1>1 DEF ExportedIsOld
  <2>1. /\ exported[l] <= Total(floor, l) /\ Joined(l) \cap admitted # {}
        /\ exported[l] \in Nat
        /\ Series(rows, l) # {} \/ (Joined(l) \cap admitted) \ Passed # {}
    BY <1>0, <1>1 DEF ExportedIsOld, TypeOK
  <2>2. Total(floor, l) <= Total(count, l) /\ Total(floor, l) \in Nat /\ Total(count, l) \in Nat
    BY <1>0, FloorBelowCount
  <2>3. ASSUME NEW j \in (Joined(l) \cap admitted) \ Passed, scrape' # "idle" PROVE j \notin Passed'
    <3>1. Position(j) \in Following /\ j \in Keys /\ LabelsOf[j] # Skip
      BY <1>3, <2>3, KeyFacts DEF Joined
    <3>2. ~(Position(j) < q)
      BY <1>2, <1>4, <1>5, <3>1
    <3>3. scrape' = "next" => j # k
      BY <1>1, <3>1
    <3> QED
      BY <1>7, <3>2, <3>3
  <2>4. exported[l] <= Total(IF scrape' = "idle" THEN count ELSE floor, l)
    BY <2>1, <2>2
  <2> QED
    BY <2>1, <2>3, <2>4
<1> QED
  BY <1>8, <1>9, <1>10, <1>11, <1>12 DEF ScrapeInv

LEMMA ReadValueStep ==
    ASSUME ScrapeInv, ReadValue
    PROVE  ScrapeInv'
<1>0. TypeOK /\ KeysOrdered /\ WalkSums /\ WalkStable /\ ExportedIsOld
  BY DEF ScrapeInv
<1> DEFINE k == Head(cursor)
           r == [labels |-> LabelsOf[k], value |-> count[k]]
<1>1. /\ scrape = "read"
      /\ UNCHANGED <<lru, admitted, count, lost, made, cursor, rewound, floor, exported>>
  BY DEF ReadValue, kernelVars
<1>2. KeysOrdered'
  BY <1>0, <1>1 DEF KeysOrdered
<1>3. CASE k \notin admitted
  <2>1. scrape' = "idle" /\ rows' = rows
    BY <1>3 DEF ReadValue
  <2>2. TypeOK'
    BY <1>0, <1>1, <2>1 DEF TypeOK
  <2>3. WalkSums'
    BY <2>1 DEF WalkSums
  <2>4. WalkStable'
    BY <1>0, <1>1, <2>1 DEF WalkStable
  <2>5. ExportedIsOld'
    <3> SUFFICES ASSUME ~lru, NEW l \in DOMAIN exported
                 PROVE  exported[l] <= Total(count, l) /\ Joined(l) \cap admitted # {}
      BY <1>1, <2>1 DEF ExportedIsOld
    <3>1. exported[l] <= Total(floor, l) /\ Joined(l) \cap admitted # {} /\ exported[l] \in Nat
      BY <1>0, <1>1 DEF ExportedIsOld, TypeOK
    <3> QED
      BY <1>0, <3>1, FloorBelowCount
  <2> QED
    BY <1>2, <2>2, <2>3, <2>4, <2>5 DEF ScrapeInv
<1>4. CASE k \in admitted
  <2>1. scrape' = "next" /\ rows' = Append(rows, r)
    BY <1>4 DEF ReadValue
  <2>2. /\ k \in Keys /\ cursor # <<>> /\ LabelsOf[k] # Skip /\ Len(rows) < MaxRows
        /\ rows \in Seq(Rows) /\ count[k] \in 0..MaxCount
    BY <1>0, <1>1, <1>4 DEF TypeOK, Rows
  <2>3. r \in Rows /\ r.labels = LabelsOf[k] /\ r.value = count[k]
    BY <2>2 DEF Rows, LabelSets
  <2> HIDE DEF r, k
  <2>4. TypeOK'
    <3>1. rows' \in Seq(Rows)
      BY <2>1, <2>2, <2>3
    <3>2. Len(rows') <= MaxRows
      BY <2>1, <2>2, BoundsAssumption
    <3> QED
      BY <1>0, <1>1, <2>1, <3>1, <3>2 DEF TypeOK, Rows
  <2>5. Passed' = Passed \cup {k} /\ k \notin Passed /\ Passed \subseteq Keys
    <3>1. Passed = {j \in Keys : Position(j) < Position(k)}
      BY <1>1, <2>2 DEF Passed, k
    <3>2. Passed' = {j \in Keys : Position(j) < Position(k) \/ j = k}
      BY <1>1, <2>1, <2>2 DEF Passed, k
    <3>3. Position(k) \in Nat
      BY <2>2, KeyFacts
    <3> QED
      BY <2>2, <3>1, <3>2, <3>3
  <2>6. WalkSums'
    <3> SUFFICES ASSUME NEW l \in LabelSets
                 PROVE  /\ SumFunctionOnSet(floor, Joined(l) \cap Passed') <= RowSum(rows', l)
                        /\ ~rewound => RowSum(rows', l)
                                         <= SumFunctionOnSet(made, Joined(l) \cap Passed')
      BY <1>1 DEF WalkSums
    <3> DEFINE S == Joined(l) \cap Passed
    <3>1. /\ SumFunctionOnSet(floor, S) <= RowSum(rows, l)
          /\ ~rewound => RowSum(rows, l) <= SumFunctionOnSet(made, S)
      BY <1>0, <1>1 DEF WalkSums
    <3>2. IsFiniteSet(S) /\ S \subseteq Keys /\ k \notin S
      BY <2>5, KeyFacts, FS_Subset
    <3>3. /\ \A j \in S \cup {k} : floor[j] \in Nat /\ made[j] \in Nat
          /\ floor[k] <= count[k] /\ count[k] <= made[k] /\ count[k] \in Nat
      BY <1>0, <2>2, <3>2, BoundsAssumption DEF TypeOK, KeysOrdered
    <3>4. RowSum(rows, l) \in Nat
      BY <2>2, RowSumNat
    <3>5. RowSum(rows', l) = RowSum(rows, l)
                               + (IF Join[LabelsOf[k]] = Join[l] THEN count[k] ELSE 0)
      BY <2>1, <2>2, <2>3, RowSumAppend
    <3>6. k \in Joined(l) <=> Join[LabelsOf[k]] = Join[l]
      BY <2>2 DEF Joined
    <3>7. Joined(l) \cap Passed' = S \cup (IF Join[LabelsOf[k]] = Join[l] THEN {k} ELSE {})
      BY <2>5, <3>6
    <3> HIDE DEF S
    <3>8. /\ SumFunctionOnSet(floor, S) \in Nat /\ SumFunctionOnSet(made, S) \in Nat
          /\ SumFunctionOnSet(floor, S \cup {k}) = floor[k] + SumFunctionOnSet(floor, S)
          /\ SumFunctionOnSet(made, S \cup {k}) = made[k] + SumFunctionOnSet(made, S)
      <4>1. \A j \in S \cup {k} : floor[j] \in Int /\ made[j] \in Int
        BY <3>3
      <4> QED
        BY <3>2, <3>3, <4>1, SumNat, SumAdd
    <3>9. CASE Join[LabelsOf[k]] = Join[l]
      <4>1. RowSum(rows', l) = RowSum(rows, l) + count[k] /\ Joined(l) \cap Passed' = S \cup {k}
        BY <3>5, <3>7, <3>9
      <4>2. /\ SumFunctionOnSet(floor, S \cup {k}) <= RowSum(rows, l) + count[k]
            /\ ~rewound => RowSum(rows, l) + count[k] <= SumFunctionOnSet(made, S \cup {k})
        BY <3>1, <3>3, <3>4, <3>8
      <4> QED
        BY <4>1, <4>2
    <3>10. CASE Join[LabelsOf[k]] # Join[l]
      <4>1. RowSum(rows', l) = RowSum(rows, l) /\ Joined(l) \cap Passed' = S
        BY <3>4, <3>5, <3>7, <3>10
      <4> QED
        BY <3>1, <4>1
    <3> QED
      BY <3>9, <3>10
  <2>7. /\ DOMAIN rows' = DOMAIN rows \cup {Len(rows) + 1} /\ rows'[Len(rows) + 1] = r
        /\ \A i \in DOMAIN rows : rows'[i] = rows[i]
    BY <2>1, <2>2, <2>3
  <2>8. WalkStable'
    <3> SUFFICES ASSUME ~lru, NEW i \in DOMAIN rows'
                 PROVE  \E j \in admitted : LabelsOf[j] = rows'[i].labels
      BY <1>0, <1>1 DEF WalkStable
    <3> QED
      BY <1>0, <1>4, <2>3, <2>7 DEF WalkStable
  <2>9. ExportedIsOld'
    <3> SUFFICES ASSUME ~lru, NEW l \in DOMAIN exported
                 PROVE  Series(rows', l) # {} \/ (Joined(l) \cap admitted) \ Passed' # {}
      BY <1>0, <1>1, <2>1 DEF ExportedIsOld
    <3>1. Series(rows, l) # {} \/ (Joined(l) \cap admitted) \ Passed # {}
      BY <1>0, <1>1 DEF ExportedIsOld
    <3>2. Series(rows, l) \subseteq Series(rows', l)
      BY <2>7 DEF Series
    <3>3. k \in Joined(l) => Len(rows) + 1 \in Series(rows', l)
      BY <2>3, <2>7 DEF Series, Joined
    <3> QED
      BY <2>5, <3>1, <3>2, <3>3
  <2> QED
    BY <1>2, <2>4, <2>6, <2>8, <2>9 DEF ScrapeInv
<1> QED
  BY <1>3, <1>4

LEMMA EndOfMapStep ==
    ASSUME ScrapeInv, EndOfMap
    PROVE  ScrapeInv'
<1>0. TypeOK /\ KeysOrdered /\ WalkSums /\ WalkStable /\ ExportedIsOld
  BY DEF ScrapeInv
<1>1. /\ scrape = "next" /\ Following = {} /\ scrape' = "emit"
      /\ UNCHANGED <<lru, admitted, count, lost, made, cursor, rows, rewound, floor, exported>>
  BY DEF EndOfMap, kernelVars
<1>2. Passed' = Keys /\ Passed \subseteq Keys
  BY <1>1 DEF Passed
<1>3. \A j \in admitted : j \in Passed
  BY <1>0, <1>1, FollowingFacts
<1>4. TypeOK' /\ KeysOrdered' /\ WalkStable'
  BY <1>0, <1>1 DEF TypeOK, KeysOrdered, WalkStable
<1>5. WalkSums'
  <2>1. ASSUME NEW j \in Passed' \ Passed PROVE floor[j] = 0
    <3>1. floor[j] <= count[j] /\ count[j] = 0 /\ floor[j] \in Nat
      BY <1>0, <1>2, <1>3, <2>1, BoundsAssumption DEF KeysOrdered, TypeOK
    <3> QED
      BY <3>1
  <2> QED
    BY <1>0, <1>1, <1>2, <2>1, WalkSumsMoved
<1>6. ExportedIsOld'
  BY <1>0, <1>1, <1>3 DEF ExportedIsOld
<1> QED
  BY <1>4, <1>5, <1>6 DEF ScrapeInv

\* What the sums are worth once the whole map has been walked.
LEMMA WalkedFacts ==
    ASSUME TypeOK, WalkSums, scrape = "emit", NEW l \in LabelSets
    PROVE  /\ rows \in Seq(Rows) /\ RowSum(rows, l) \in Nat
           /\ Total(floor, l) <= RowSum(rows, l)
           /\ ~rewound => RowSum(rows, l) <= Total(made, l)
<1>1. Joined(l) \cap Passed = Joined(l)
  BY KeyFacts DEF Passed
<1>2. rows \in Seq(Rows)
  BY DEF TypeOK, Rows
<1> QED
  BY <1>1, <1>2, RowSumNat DEF WalkSums, Total

LEMMA AggregateFacts ==
    ASSUME TypeOK
    PROVE  /\ rows \in Seq(Rows) /\ DOMAIN Aggregate(rows) \subseteq LabelSets
           /\ \A l \in DOMAIN Aggregate(rows) :
                 /\ Aggregate(rows)[l] = RowSum(rows, l) /\ RowSum(rows, l) \in Nat
                 /\ \E i \in DOMAIN rows : rows[i].labels = l
<1>1. rows \in Seq(Rows)
  BY DEF TypeOK, Rows
<1> QED
  BY <1>1, FirstRow, RowFacts, RowSumNat

LEMMA EmitStep ==
    ASSUME ScrapeInv, Emit
    PROVE  ScrapeInv'
<1>0. TypeOK /\ KeysOrdered /\ WalkSums /\ WalkStable /\ ExportedIsOld
  BY DEF ScrapeInv
<1>1. /\ scrape = "emit" /\ scrape' = "idle" /\ exported' = Aggregate(rows)
      /\ UNCHANGED <<lru, admitted, count, lost, made, cursor, rows, rewound, floor>>
  BY DEF Emit, kernelVars
<1>2. /\ rows \in Seq(Rows) /\ DOMAIN Aggregate(rows) \subseteq LabelSets
      /\ \A l \in DOMAIN Aggregate(rows) :
            /\ Aggregate(rows)[l] = RowSum(rows, l) /\ RowSum(rows, l) \in Nat
            /\ \E i \in DOMAIN rows : rows[i].labels = l
  BY <1>0, AggregateFacts
<1>3. TypeOK'
  BY <1>0, <1>1, <1>2 DEF TypeOK
<1>4. KeysOrdered' /\ WalkSums' /\ WalkStable'
  BY <1>0, <1>1 DEF KeysOrdered, WalkSums, WalkStable
<1>5. ExportedIsOld'
  <2> SUFFICES ASSUME ~lru, NEW l \in DOMAIN Aggregate(rows)
               PROVE  /\ Aggregate(rows)[l] <= Total(count, l)
                      /\ Joined(l) \cap admitted # {}
    BY <1>1 DEF ExportedIsOld
  <2>1. RowSum(rows, l) <= Total(made, l)
    BY <1>0, <1>1, <1>2, WalkedFacts DEF WalkStable
  <2>2. Total(made, l) = Total(count, l)
    <3>1. IsFiniteSet(Joined(l)) /\ Joined(l) \subseteq Keys
      BY KeyFacts
    <3>2. \A j \in Joined(l) : count[j] \in Int /\ made[j] = count[j]
      BY <1>0, <3>1, BoundsAssumption DEF KeysOrdered, TypeOK
    <3> QED
      BY <3>1, <3>2, SumSame DEF Total
  <2>3. PICK j \in admitted : LabelsOf[j] = l
    BY <1>0, <1>2 DEF WalkStable
  <2>4. j \in Joined(l)
    BY <1>0, <1>2, <2>3 DEF Joined, LabelSets, TypeOK
  <2> QED
    BY <1>2, <2>1, <2>2, <2>3, <2>4
<1> QED
  BY <1>3, <1>4, <1>5 DEF ScrapeInv

LEMMA ScrapeNextInv == ScrapeInv /\ [Next]_vars => ScrapeInv'
<1> SUFFICES ASSUME ScrapeInv, [Next]_vars PROVE ScrapeInv'
  OBVIOUS
<1>1. CASE Next
  BY <1>1, BeginStep, NextKeyStep, ReadValueStep, EndOfMapStep, EmitStep, IncrementStep,
     EvictStep
  DEF Next, Exporter
<1>2. CASE UNCHANGED vars
  <2>1. Passed' = Passed
    BY <1>2 DEF vars, Passed
  <2> QED
    BY <1>2, <2>1
    DEF vars, ScrapeInv, TypeOK, KeysOrdered, WalkSums, WalkStable, ExportedIsOld
<1> QED
  BY <1>1, <1>2

LEMMA ScrapeInvariant == Spec => []ScrapeInv
  BY ScrapeInitInv, ScrapeNextInv, PTL DEF Spec

\* Type correctness of the map and of the scrape (exporter.go, mapValues).
THEOREM ScrapeTypeCorrect == Spec => []TypeOK
<1>1. ScrapeInv => TypeOK
  BY DEF ScrapeInv
<1> QED
  BY <1>1, ScrapeInvariant, PTL

\* A scrape whose walk did not begin again never sends more than the programs
\* counted, whatever they count and evict between the system calls
\* (exporter.go, mapValues and aggregateMapValues).
THEOREM NeverMoreThanCounted == Spec => []NeverInflated
<1>1. ScrapeInv => NeverInflated
  <2> SUFFICES ASSUME ScrapeInv, scrape = "emit", ~rewound, NEW l \in DOMAIN Aggregate(rows)
               PROVE  Aggregate(rows)[l] <= Total(made, l)
    BY DEF NeverInflated
  <2>1. TypeOK /\ WalkSums
    BY DEF ScrapeInv
  <2> QED
    BY <2>1, AggregateFacts, WalkedFacts
<1> QED
  BY <1>1, ScrapeInvariant, PTL

\* A scrape reports every counter the map held all the time, with at least its
\* value at the beginning and in one series only, also after a walk that began
\* again (exporter.go, mapValues and aggregateMapValues).
THEOREM EveryCounterReported == Spec => []NothingMissed
<1>1. ScrapeInv => NothingMissed
  <2> SUFFICES ASSUME ScrapeInv, scrape = "emit", NEW l \in LabelSets, Total(floor, l) > 0
               PROVE  \E m \in DOMAIN Aggregate(rows) :
                         /\ Aggregate(rows)[m] >= Total(floor, l)
                         /\ \A n \in DOMAIN Aggregate(rows) : (Join[n] = Join[l]) = (n = m)
    BY DEF NothingMissed
  <2>1. TypeOK /\ KeysOrdered /\ WalkSums
    BY DEF ScrapeInv
  <2>2. /\ rows \in Seq(Rows) /\ RowSum(rows, l) \in Nat
        /\ Total(floor, l) <= RowSum(rows, l) /\ Total(floor, l) \in Nat
    BY <2>1, WalkedFacts, FloorBelowCount
  <2>3. Series(rows, l) # {}
    <3> SUFFICES ASSUME Series(rows, l) = {} PROVE FALSE
      OBVIOUS
    <3>1. DOMAIN [i \in Series(rows, l) |-> rows[i].value] = {}
      OBVIOUS
    <3>2. RowSum(rows, l) = 0
      BY <3>1, SumEmpty DEF RowSum, SumFunction
    <3> QED
      BY <2>2, <3>2
  <2>4. PICK m \in DOMAIN Aggregate(rows) :
            /\ Join[m] = Join[l]
            /\ \A n \in DOMAIN Aggregate(rows) : (Join[n] = Join[l]) = (n = m)
    BY <2>2, <2>3, FirstRow
  <2>5. Aggregate(rows)[m] = RowSum(rows, l)
    <3>1. RowSum(rows, m) = RowSum(rows, l)
      BY <2>4, SameSeries
    <3> QED
      BY <2>1, <3>1, AggregateFacts
  <2>6. Aggregate(rows)[m] >= Total(floor, l)
    BY <2>2, <2>5
  <2> QED
    BY <2>4, <2>6
<1> QED
  BY <1>1, ScrapeInvariant, PTL

\* From one scrape of a map without evictions to the next no series disappears
\* or goes down (exporter.go, aggregateMapValues; a counter of Prometheus).
THEOREM CountersOnlyGrow == Spec => SeriesNeverDecrease
<1>1. ScrapeInv /\ [Next]_vars =>
        [~lru => \A l \in DOMAIN exported :
                    \E m \in DOMAIN exported' : /\ Join[m] = Join[l]
                                               /\ exported'[m] >= exported[l]]_vars
  <2> SUFFICES ASSUME ScrapeInv, [Next]_vars, ~lru, NEW l \in DOMAIN exported
               PROVE  \E m \in DOMAIN exported' : /\ Join[m] = Join[l]
                                                 /\ exported'[m] >= exported[l]
    OBVIOUS
  <2>1. TypeOK /\ KeysOrdered /\ WalkSums /\ ExportedIsOld
    BY DEF ScrapeInv
  <2>2. exported[l] \in Nat /\ l \in LabelSets
    BY <2>1 DEF TypeOK
  <2>3. CASE Emit
    <3>1. scrape = "emit" /\ exported' = Aggregate(rows)
      BY <2>3 DEF Emit
    <3>2. /\ exported[l] <= Total(floor, l)
          /\ Series(rows, l) # {} \/ (Joined(l) \cap admitted) \ Passed # {}
      BY <2>1, <3>1 DEF ExportedIsOld
    <3>3. Series(rows, l) # {}
      BY <2>1, <3>1, <3>2 DEF Passed, TypeOK
    <3>4. /\ rows \in Seq(Rows) /\ RowSum(rows, l) \in Nat
          /\ Total(floor, l) <= RowSum(rows, l) /\ Total(floor, l) \in Nat
      BY <2>1, <2>2, <3>1, WalkedFacts, FloorBelowCount
    <3>5. PICK m \in DOMAIN Aggregate(rows) : Join[m] = Join[l]
      BY <3>3, <3>4, FirstRow
    <3>6. Aggregate(rows)[m] = RowSum(rows, l)
      <4>1. RowSum(rows, m) = RowSum(rows, l)
        BY <3>5, SameSeries
      <4> QED
        BY <2>1, <4>1, AggregateFacts
    <3>7. Aggregate(rows)[m] >= exported[l]
      BY <2>2, <3>2, <3>4, <3>6
    <3> QED
      BY <3>1, <3>5, <3>7
  <2>4. CASE UNCHANGED exported
    BY <2>2, <2>4
  <2> QED
    BY <2>3, <2>4
    DEF Next, Exporter, vars, scrapeVars, Begin, NextKey, ReadValue, EndOfMap, Increment, Evict
<1> QED
  BY <1>1, ScrapeInvariant, PTL DEF Spec, SeriesNeverDecrease

=============================================================================
