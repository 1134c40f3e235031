------------------------------- MODULE Grading -------------------------------
(***************************************************************************)
(* How a program is graded: in a worker of the page (JavaScript), by the   *)
(* local server, and in the browser's .NET runtime (C#).  A JavaScript     *)
(* program runs before its checks, a C# program after them.  What a page   *)
(* makes of the grades differs between the editions.                       *)
(*                                                                         *)
(* Values are atoms, arrays and objects of two levels; the keys of an      *)
(* object have an order, and undefined may be the value of one.            *)
(***************************************************************************)
EXTENDS Naturals, Sequences

CONSTANTS Atoms, Keys           \* of the values compared

ASSUME GradingAssumption == {"0", "undefined"} \subseteq Atoms

VARIABLES program, tests,       \* what is run; per check, the expected value
          runtime,              \* of .NET, in the browser
          graded                \* per runner, its result

gradingVars == <<program, tests, runtime, graded>>

-----------------------------------------------------------------------------
\* Values.

Atom(a) == [kind |-> "atom", atom |-> a, items |-> << >>, fields |-> << >>]
Arr(items) == [kind |-> "array", atom |-> "none", items |-> items, fields |-> << >>]
Obj(fields) == [kind |-> "object", atom |-> "none", items |-> << >>, fields |-> fields]
Field(k, v) == [key |-> k, value |-> v]

UpTo2(S) == {<< >>} \cup {<<a>> : a \in S} \cup {<<a, b>> : a, b \in S}
Objects(S) == {Obj(f) : f \in {g \in UpTo2({Field(k, v) : k \in Keys, v \in S}) :
                                  Len(g) = 2 => g[1].key # g[2].key}}

Scalars == {Atom(a) : a \in Atoms}
Inner == {Atom(a) : a \in Atoms \ {"null"}}
           \cup {Obj(<<Field(k, Atom(a))>>) : k \in Keys, a \in {"0", "undefined"}}
Values == Scalars \cup {Arr(s) : s \in UpTo2(Inner)} \cup Objects(Inner)

DefinedFields(v) == SelectSeq(v.fields, LAMBDA f : f.value # Atom("undefined"))
KeysOf(fields) == {fields[i].key : i \in DOMAIN fields}
At(fields, k) == fields[CHOOSE i \in DOMAIN fields : fields[i].key = k].value

RECURSIVE StructuralEqualUncounted(_, _)

\* Mutant: fields that were not expected do not count.
StructuralEqualUncounted(a, b) ==
    LET x == DefinedFields(a) IN
    /\ a.kind = b.kind
    /\ CASE a.kind = "atom" -> a.atom = b.atom
         [] a.kind = "array" ->
            /\ Len(a.items) = Len(b.items)
            /\ \A i \in DOMAIN a.items : StructuralEqualUncounted(a.items[i], b.items[i])
         [] OTHER ->
            \A i \in DOMAIN x : /\ x[i].key \in KeysOf(b.fields)
                                /\ StructuralEqualUncounted(x[i].value, At(b.fields, x[i].key))

RECURSIVE StructuralEqual(_, _)

\* structuralEqual(), of deep-equal.mjs and its two copies
StructuralEqual(a, b) ==
    LET x == DefinedFields(a)
        y == DefinedFields(b)
    IN
    /\ a.kind = b.kind
    /\ CASE a.kind = "atom" -> a.atom = b.atom
         [] a.kind = "array" ->
            /\ Len(a.items) = Len(b.items)
            /\ \A i \in DOMAIN a.items : StructuralEqual(a.items[i], b.items[i])
         [] OTHER ->
            /\ Len(x) = Len(y)
            /\ \A i \in DOMAIN x : /\ x[i].key \in KeysOf(b.fields)
                                   /\ StructuralEqual(x[i].value, At(b.fields, x[i].key))

RECURSIVE Meaning(_)

\* What a value means: an array is a list, an object a set of fields, and a field
\* that is undefined is none.
Meaning(v) ==
    [kind |-> v.kind, atom |-> v.atom,
     items |-> [i \in DOMAIN v.items |-> Meaning(v.items[i])],
     fields |-> {<<f.key, Meaning(f.value)>> :
                   f \in {v.fields[i] : i \in DOMAIN v.fields} \ {g \in
                         {v.fields[i] : i \in DOMAIN v.fields} : g.value = Atom("undefined")}}]

-----------------------------------------------------------------------------
\* Programs.

\* answer: what becomes of a check.  "mute": it throws without a message.
\* "glued": its value is printed behind an output that did not end its line.
\* "alien": its value cannot be sent out of the worker.
Answer == [is: {"value", "throws", "mute", "exits", "hangs", "glued", "alien"}, of: Values]
Value(v) == [is |-> "value", of |-> v]
Without(is) == [is |-> is, of |-> Atom("undefined")]

\* ending: how the learner's own statements end.  "answers": with a list that is
\* taken for what the checks answered (JavaScript); returned: the list.
Endings == {"clean", "throws", "returns", "hangs"}

TwoChecks == <<Atom("0"), Obj(<<Field(CHOOSE k \in Keys : TRUE, Atom("0"))>>)>>
AnswersTo(i, lang) ==
    {Value(TwoChecks[i]), Value(Arr(<<TwoChecks[i]>>)), Without("throws"), Without("mute"), Without("hangs")}
      \cup IF lang = "js" THEN {Without("alien")} ELSE {Without("exits"), Without("glued")}

Lists == {<<Value(TwoChecks[1])>>}
           \cup {<<a, b>> : a \in {Value(TwoChecks[1]), Without("alien")},
                            b \in {Value(TwoChecks[1]), Value(TwoChecks[2]), Without("throws")}}

Comparisons == {[lang |-> "js", compiles |-> TRUE, answers |-> <<Value(v)>>, ending |-> "clean",
                 returned |-> << >>] : v \in Values}
Submissions ==
    UNION {{[lang |-> lang, compiles |-> c, answers |-> <<a, b>>, ending |-> ending, returned |-> << >>] :
              c \in BOOLEAN, a \in AnswersTo(1, lang), b \in AnswersTo(2, lang), ending \in Endings} :
            lang \in {"js", "cs"}}
      \cup {[lang |-> "js", compiles |-> TRUE, answers |-> <<a, b>>, ending |-> "answers", returned |-> l] :
              a \in AnswersTo(1, "js"), b \in AnswersTo(2, "js"), l \in Lists}
PlainRuns == {[lang |-> lang, compiles |-> c, answers |-> << >>, ending |-> ending, returned |-> << >>] :
                lang \in {"js", "cs"}, c \in BOOLEAN, ending \in Endings}

GradingInit ==
    /\ \/ program \in Comparisons /\ tests \in {<<v>> : v \in Values \ {Atom("undefined")}}
       \/ program \in Submissions /\ tests = TwoChecks
       \/ program \in PlainRuns /\ tests = << >>
    /\ runtime = "none"
    /\ graded = [r \in {"worker", "loopback", "wasm"} |-> [is |-> "none", checks |-> << >>]]

-----------------------------------------------------------------------------
\* Grades.  is: "unloaded" without a runtime; checks: those that were heard of.

Grade(i, answer) == [check |-> i,
                     passed |-> answer.is # "throws" /\ StructuralEqual(answer.of, tests[i])]
Graded(is, checks) == [is |-> is, checks |-> checks]
Gives(r, result) == graded' = [graded EXCEPT ![r] = result]

EndsBy(ending) == program.ending = ending

\* What a worker takes for the answers of the checks: theirs, or what the program
\* returned before they ran.
Stand == IF EndsBy("answers") THEN program.returned ELSE program.answers

\* It says nothing of the checks when it is killed, when the program threw before
\* them or returned anything but a list of as many answers, or when one of the
\* answers cannot be sent.
SaysNothing ==
    \/ ~program.compiles \/ EndsBy("throws") \/ EndsBy("hangs")
    \/ EndsBy("returns") /\ tests # << >>
    \/ Len(Stand) # Len(tests)
    \/ \E i \in DOMAIN tests : Stand[i].is \in {"hangs", "alien"}

\* onmessage of the worker, and what the page makes of it
RunWorker ==
    /\ program.lang = "js" /\ graded["worker"].is = "none"
    /\ Gives("worker",
         IF SaysNothing
         THEN Graded("error", << >>)
         ELSE Graded("ran", [i \in DOMAIN tests |-> Grade(i, Stand[i])]))
    /\ UNCHANGED <<program, tests, runtime>>

\* The checks a C# program comes to, one after another.
Reached == {i \in DOMAIN tests : \A j \in 1 .. i - 1 : program.answers[j].is \notin {"exits", "hangs"}}
Stops(is) == \E i \in Reached : program.answers[i].is = is
Hangs == Stops("hangs") \/ (EndsBy("hangs") /\ ~Stops("exits"))

\* The marked lines of its output, in order.
Marked == SelectSeq([i \in DOMAIN tests |-> i],
                    LAMBDA i : i \in Reached /\ program.answers[i].is \in {"value", "throws", "mute"})

\* gradeCsharpOutput(), and its twin in executeCSharp(): lines that are missing
\* are an error as well.
GradeOutput(lines, failed) ==
    Graded(IF failed \/ Len(lines) # Len(tests) THEN "error" ELSE "ran",
           [n \in DOMAIN lines |-> Grade(lines[n], program.answers[lines[n]])])

\* executeCSharp(); a program that hangs is killed.
RunLoopback ==
    /\ program.lang = "cs" /\ graded["loopback"].is = "none"
    /\ Gives("loopback",
         IF ~program.compiles THEN Graded("error", << >>)
         ELSE GradeOutput(Marked, Hangs \/ (EndsBy("throws") /\ ~Stops("exits"))))
    /\ UNCHANGED <<program, tests, runtime>>

\* loadCsWasmRunner(): loaded once; a load that failed is tried again by the next
\* run.
LoadRuntime ==
    /\ program.lang = "cs" /\ runtime # "ready"
    /\ \/ runtime' = "ready" /\ UNCHANGED graded
       \/ runtime' = "failed" /\ Gives("wasm", Graded("unloaded", << >>))
    /\ UNCHANGED <<program, tests>>

\* Interop.CompileAndRun(), of a program that ends: its errors or, beside the marked
\* lines it printed, whether its own statements threw.
CompileAndRun ==
    [compileError |-> ~program.compiles,
     runtimeError |-> program.compiles /\ EndsBy("throws"),
     printed |-> IF program.compiles THEN Marked ELSE << >>]

\* run() of the hook.  A program that hangs takes the page with it, and what
\* ending the process means there is the runtime's.
RunWasm ==
    /\ program.lang = "cs" /\ runtime = "ready"
    /\ program.compiles => ~Hangs /\ ~Stops("exits")
    /\ Gives("wasm",
         IF CompileAndRun.compileError THEN Graded("error", << >>)
         ELSE GradeOutput(CompileAndRun.printed, CompileAndRun.runtimeError))
    /\ UNCHANGED <<program, tests, runtime>>

GradingNext == RunWorker \/ RunLoopback \/ LoadRuntime \/ RunWasm

GradingSpec == GradingInit /\ [][GradingNext]_gradingVars

-----------------------------------------------------------------------------
\* The pages.

AllPassed(g) == Len(g.checks) = Len(tests) /\ \A i \in DOMAIN g.checks : g.checks[i].passed

\* runCode() of the static edition, on a check of a lesson
SolvedHere(g) == tests # << >> /\ g.is = "ran" /\ AllPassed(g)

\* check() of the web edition: an error beside the grades does not count.
SolvedOnTheWeb(g) == tests # << >> /\ g.is # "none" /\ AllPassed(g)

-----------------------------------------------------------------------------

GradingTypeOK ==
    /\ runtime \in {"none", "failed", "ready"}
    /\ \A r \in DOMAIN graded : graded[r].is \in {"none", "ran", "error", "unloaded"}
    /\ \A i \in DOMAIN program.answers : program.answers[i] \in Answer

IsRight(answer, i) == answer.is = "value" /\ Meaning(answer.of) = Meaning(tests[i])

\* The checks of the program are right ...
Right == \A i \in DOMAIN tests : IsRight(program.answers[i], i)

\* ... or it answered in their place, with what was expected of them.
StandsIn ==
    /\ EndsBy("answers") /\ Len(program.returned) = Len(tests)
    /\ \A i \in DOMAIN tests : IsRight(program.returned[i], i)

\* A lesson is solved, in either edition and with any runner, only by a program
\* that compiles and whose every check ends with a value that means what was
\* expected of it; or by a JavaScript program that returns those values itself
\* before its checks run, which the worker cannot tell from theirs.
SolvedIsRight == \A r \in DOMAIN graded :
    SolvedHere(graded[r]) \/ SolvedOnTheWeb(graded[r]) =>
        program.compiles /\ (Right \/ (r = "worker" /\ StandsIn))

\* A right program that ends is told so, and a program is told so only if it is one
\* or answers in its place.  (A program that returns leaves JavaScript's checks behind, C#'s
\* come first.  A C# check whose line is glued to an output that did not end its own
\* is not heard of, and is not right here.)
RightIsHeard ==
    LET ends == EndsBy("clean") \/ (EndsBy("returns") /\ (program.lang = "cs" \/ tests = << >>)) IN
    \A r \in {"worker", "loopback"} : graded[r].is # "none" =>
        (graded[r].is = "ran" /\ AllPassed(graded[r])
            <=> program.compiles /\ (StandsIn \/ (Right /\ ends)))

\* The local server and the browser's runtime grade alike.
GradesAgree ==
    graded["loopback"].is # "none" /\ graded["wasm"].is \in {"ran", "error"} =>
        graded["wasm"] = graded["loopback"]

\* What a program is graded, by each runner and in either edition, is what it does.
GradesAreTrue == GradingTypeOK /\ SolvedIsRight /\ RightIsHeard /\ GradesAgree
=============================================================================
