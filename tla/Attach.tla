------------------------------- MODULE Attach -------------------------------
(***************************************************************************)
(* How the exporter starts (exporter/exporter.go, Attach; attach.go;       *)
(* perf_event.go) and what it then knows about the programs, which is what *)
(* its scrapes report.  The configurations are loaded one after the        *)
(* other and every program of a configuration is attached: a perf event    *)
(* program by opening an event and attaching it on one CPU after the       *)
(* other, any other program by libbpf at once.  Any call into libbpf or    *)
(* the kernel may fail.  A link that was made stays, for nothing in the    *)
(* exporter destroys one.                                                  *)
(***************************************************************************)
EXTENDS Naturals, FiniteSets, Sequences, Functions

CONSTANTS
    Lists,          \* the lists --config.names may give
    ProgramsOf,     \* programs in the object file of a name
    PerfPrograms,   \* those in a perf_event/ section
    Cpus

Names == UNION {Range(l) : l \in Lists}
Programs == UNION {ProgramsOf[n] : n \in Names}

ASSUME ListsAssumption == \A l \in Lists : l \in Seq(Range(l))
ASSUME CpusAssumption == Cpus # {}
ASSUME ProgramsAssumption ==
    /\ PerfPrograms \subseteq Programs
    /\ \A m, n \in Names : m # n => ProgramsOf[m] \cap ProgramsOf[n] = {}

VARIABLES
    configs,      \* the names in --config.names, in order, never changed
    phase,        \* of Attach, then of the process
    index,        \* the configuration in hand
    todo,         \* its programs that are left
    open,         \* the perf event program in hand and its CPUs left
    attachments,  \* program -> BOOLEAN, of the configuration in hand
    modules,      \* e.modules: names attached
    attachedProgs,\* e.attachedProgs: name -> program -> BOOLEAN
    links         \* links the kernel holds, by program and CPU

attachVars ==
    <<configs, phase, index, todo, open, attachments, modules, attachedProgs, links>>

Nothing == [x \in {} |-> FALSE]

AttachInit ==
    /\ configs \in Lists
    /\ phase = "load"
    /\ index = 1
    /\ todo = {}
    /\ open = [prog |-> {}, cpus |-> {}]
    /\ attachments = Nothing
    /\ modules = {}
    /\ attachedProgs = [n \in {} |-> Nothing]
    /\ links = [p \in Programs |-> [c \in Cpus |-> 0]]

Record(p, ok) ==
    attachments' = [q \in DOMAIN attachments \cup {p} |->
                       IF q = p THEN ok ELSE attachments[q]]

-----------------------------------------------------------------------------
\* Mutant of Load: a name that was attached before is not refused.
LoadTwice ==
    /\ phase = "load"
    /\ index <= Len(configs)
    /\ phase' = "attach"
    /\ todo' = ProgramsOf[configs[index]]
    /\ attachments' = Nothing
    /\ UNCHANGED <<configs, index, open, modules, attachedProgs, links>>

\* A second configuration of a name, and an error of libbpf, of the kernel or
\* of /proc/kallsyms, end the process.
Load ==
    /\ phase = "load"
    /\ index <= Len(configs)
    /\ \/ phase' = "exited" /\ UNCHANGED <<todo, attachments>>
       \/ /\ configs[index] \notin modules
          /\ phase' = "attach"
          /\ todo' = ProgramsOf[configs[index]]
          /\ attachments' = Nothing
    /\ UNCHANGED <<configs, index, open, modules, attachedProgs, links>>

\* Mutant of AttachGeneric: the first failure ends the loop.
AttachGenericStops ==
    /\ phase = "attach" /\ open.prog = {}
    /\ \E p \in todo \ PerfPrograms, ok \in BOOLEAN :
          /\ Record(p, ok)
          /\ links' = IF ok THEN [links EXCEPT ![p] = [c \in Cpus |-> @[c] + 1]] ELSE links
          /\ todo' = IF ok THEN todo \ {p} ELSE {}
    /\ UNCHANGED <<configs, phase, index, open, modules, attachedProgs>>

\* prog.AttachGeneric of a program libbpf attaches itself.
AttachGeneric ==
    /\ phase = "attach" /\ open.prog = {}
    /\ \E p \in todo \ PerfPrograms, ok \in BOOLEAN :
          /\ Record(p, ok)
          /\ links' = IF ok THEN [links EXCEPT ![p] = [c \in Cpus |-> @[c] + 1]] ELSE links
          /\ todo' = todo \ {p}
    /\ UNCHANGED <<configs, phase, index, open, modules, attachedProgs>>

\* attachPerfEvent begins; the section may be refused, or the CPUs unknown.
ParseSection ==
    /\ phase = "attach" /\ open.prog = {}
    /\ \E p \in todo \cap PerfPrograms :
          /\ todo' = todo \ {p}
          /\ \/ Record(p, FALSE) /\ UNCHANGED open
             \/ open' = [prog |-> {p}, cpus |-> Cpus] /\ UNCHANGED attachments
    /\ UNCHANGED <<configs, phase, index, modules, attachedProgs, links>>

\* Mutant of OpenOnCpu: a CPU that fails is passed over.
OpenOnCpuSkips ==
    /\ \E p \in open.prog, c \in open.cpus, ok \in BOOLEAN :
          /\ links' = IF ok THEN [links EXCEPT ![p][c] = @ + 1] ELSE links
          /\ IF open.cpus = {c}
             THEN /\ Record(p, TRUE)
                  /\ open' = [prog |-> {}, cpus |-> {}]
             ELSE open' = [open EXCEPT !.cpus = @ \ {c}] /\ UNCHANGED attachments
    /\ UNCHANGED <<configs, phase, index, todo, modules, attachedProgs>>

\* One turn of the loop over the CPUs.  A failure gives up the program, and
\* the links of the CPUs before with it.
OpenOnCpu ==
    /\ \E p \in open.prog, c \in open.cpus, ok \in BOOLEAN :
          /\ links' = IF ok THEN [links EXCEPT ![p][c] = @ + 1] ELSE links
          /\ IF ok /\ open.cpus # {c}
             THEN open' = [open EXCEPT !.cpus = @ \ {c}] /\ UNCHANGED attachments
             ELSE open' = [prog |-> {}, cpus |-> {}] /\ Record(p, ok)
    /\ UNCHANGED <<configs, phase, index, todo, modules, attachedProgs>>

\* The configuration is done.
Keep ==
    /\ phase = "attach" /\ open.prog = {} /\ todo = {}
    /\ phase' = "load"
    /\ index' = index + 1
    /\ modules' = modules \cup {configs[index]}
    /\ attachedProgs' = [n \in DOMAIN attachedProgs \cup {configs[index]} |->
                            IF n = configs[index] THEN attachments ELSE attachedProgs[n]]
    /\ UNCHANGED <<configs, todo, open, attachments, links>>

Serve ==
    /\ phase = "load"
    /\ index > Len(configs)
    /\ phase' = "serving"
    /\ UNCHANGED <<configs, index, todo, open, attachments, modules, attachedProgs, links>>

AttachNext ==
    Load \/ AttachGeneric \/ ParseSection \/ OpenOnCpu \/ Keep \/ Serve

AttachSpec == AttachInit /\ [][AttachNext]_attachVars

-----------------------------------------------------------------------------
\* Type invariant; a process that serves has attached every program of every
\* configuration or knows that it failed (exporter.go, Attach).
AttachTypeOK ==
    /\ phase \in {"load", "attach", "serving", "exited"}
    /\ index \in 1..Len(configs) + 1
    /\ todo \subseteq Programs
    /\ open \in [prog : SUBSET PerfPrograms, cpus : SUBSET Cpus]
    /\ modules \subseteq Names
    /\ DOMAIN attachedProgs = modules
    /\ \A n \in modules : attachedProgs[n] \in [ProgramsOf[n] -> BOOLEAN]
    /\ links \in [Programs -> [Cpus -> Nat]]
    /\ phase = "serving" => modules = Range(configs)

Reported(p, value) == \E n \in modules : p \in DOMAIN attachedProgs[n]
                                           /\ attachedProgs[n][p] = value

\* A program is reported as attached exactly if it runs on every CPU, whatever
\* failed for other programs and other CPUs.  (One that failed on a later CPU
\* is reported as not attached and still runs on those before.)
AttachedRuns ==
    \A p \in Programs, value \in BOOLEAN :
        Reported(p, value) => value = (\A c \in Cpus : links[p][c] > 0)

\* No program is attached twice, so that no event is counted twice, even when
\* a name is given twice in --config.names.
AttachedOnce == \A p \in Programs, c \in Cpus : links[p][c] <= 1

-----------------------------------------------------------------------------
\* The inductive strengthening.  RunsEverywhere is what attached means.
RunsEverywhere(p) == \A c \in Cpus : links[p][c] > 0

\* The configuration in hand, its programs, and those that are done.
InHand == IF phase = "attach" THEN {configs[index]} ELSE {}
ProgramsIn(names) == UNION {ProgramsOf[n] : n \in names}

OneByOne ==
    /\ configs \in Lists
    /\ modules = {configs[i] : i \in 1..index - 1}
    /\ phase = "serving" => index = Len(configs) + 1
    /\ phase = "attach" =>
          /\ index <= Len(configs) /\ configs[index] \notin modules
          /\ todo \subseteq ProgramsOf[configs[index]]
          /\ open.prog = {} \/ \E p \in ProgramsOf[configs[index]] \ todo : open.prog = {p}
          /\ attachments \in [ProgramsOf[configs[index]] \ (todo \cup open.prog) -> BOOLEAN]
    /\ phase # "attach" => open.prog = {} /\ todo = {}

\* A program whose turn has not come has no link.
UntouchedYet ==
    \A p \in Programs :
        p \in todo \/ p \notin ProgramsIn(modules \cup InHand)
            => \A c \in Cpus : links[p][c] = 0

OpenedSoFar ==
    \A p \in open.prog, c \in Cpus : links[p][c] = IF c \in open.cpus THEN 0 ELSE 1

RecordsAreTrue ==
    /\ phase = "attach" =>
          \A p \in DOMAIN attachments : attachments[p] = RunsEverywhere(p)
    /\ \A n \in modules : \A p \in ProgramsOf[n] :
          attachedProgs[n][p] = RunsEverywhere(p)

AttachInv ==
    /\ AttachTypeOK
    /\ OneByOne
    /\ UntouchedYet
    /\ OpenedSoFar
    /\ RecordsAreTrue
    /\ AttachedOnce

=============================================================================
