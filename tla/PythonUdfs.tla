------------------------------ MODULE PythonUdfs ------------------------------
(***************************************************************************)
(* Calls of Python functions (backend/engine/semantic/python_udf_runtime):   *)
(* each call starts an interpreter, hands it a request through one pipe and *)
(* reads its answer from another, after a preflight of the function's       *)
(* packages that is cached per interpreter.  Queries evaluate on several    *)
(* threads of one process, and a forked child inherits whatever pipe ends   *)
(* the process holds at that moment: they are not close-on-exec.            *)
(*                                                                         *)
(* An invocation is one step per group of system calls between which        *)
(* another thread may fork.  What a body computes is abstracted to whether  *)
(* it returned or raised; a package is spelled by its letters.              *)
(***************************************************************************)
EXTENDS Naturals, Sequences, FiniteSets, SequencesExt, TLC

CONSTANTS
    UdfThreads,   \* evaluations in progress at once
    UdfPackages,  \* function -> its OPTIONS(packages), spellings in order
    OnHost,       \* packages the host's python3 can import
    Provisions,   \* sets of packages somebody may provision the venv with
    MaxUdfOps     \* bound: calls and provisionings

UdfFunctions == DOMAIN UdfPackages
Packages == UNION {Range(UdfPackages[f]) : f \in UdfFunctions}
Engine == "engine"

ASSUME UdfAssumption == MaxUdfOps \in Nat /\ {OnHost} \cup Provisions \subseteq SUBSET Packages

VARIABLES
    udf,        \* thread -> [pc, fn, python, script, answer]
    child,      \* thread -> its child: "none", "started" or "exited"
    wrote,      \* thread -> what the child left in its stdout
    inWrite,    \* thread -> processes holding the write end of its child's stdin
    inRead,     \* thread -> processes holding the read end of it
    outWrite,   \* thread -> processes holding the write end of its child's stdout
    shared,     \* history: another child was forked while this call's pipes were open
    preflights, \* package_preflight_cache: key -> [ok, missing, had]
    venv,       \* the managed venv: [made, has]
    udfEngine,  \* "up" or "down"
    udfOps

udfVars == <<udf, child, wrote, inWrite, inRead, outWrite, shared, preflights, venv,
             udfEngine, udfOps>>

-------------------------------------------------------------------------------

NoAnswer == [kind |-> "none"]
InternalError == [kind |-> "internal"]
IdleCall == [pc |-> "idle", fn |-> "", python |-> "", script |-> "", answer |-> NoAnswer]

\* ResolvePythonInterpreterPath, with BIGQUERY_EMULATOR_PYTHON unset.
ResolvePythonInterpreterPath == IF venv.made THEN "venv" ELSE "python3"

Importable(python) == IF python = "venv" THEN venv.has ELSE OnHost

\* A dotted name makes find_spec import its parent.
Dotted(p) == "." \in Range(p)

Parent(p) == SubSeq(p, 1, SelectInSeq(p, LAMBDA c : c = ".") - 1)

\* kPackagePreflightRunner: the first package that cannot be found; a parent
\* that cannot be imported raises, and nothing catches it.
PreflightRun(python, packages) ==
    LET have == Importable(python)
        i == SelectInSeq(packages, LAMBDA p : p \notin have)
    IN  IF i = 0 THEN [kind |-> "ok", had |-> have]
        ELSE IF Dotted(packages[i]) /\ Parent(packages[i]) \notin have THEN NoAnswer
        ELSE [kind |-> "missing", package |-> packages[i], had |-> have]

\* The separator is the C string "\0", which is empty: the names run together.
PackagePreflightCacheKey(python, packages) == <<python>> \o FlattenSeq(packages)

KeyOf(c) == PackagePreflightCacheKey(c.python, UdfPackages[c.fn])

\* Two functions whose different package lists are spelled alike.
SpelledAlike(f) ==
    \E g \in UdfFunctions : /\ UdfPackages[g] # UdfPackages[f]
                         /\ FlattenSeq(UdfPackages[g]) = FlattenSeq(UdfPackages[f])

-------------------------------------------------------------------------------

UdfInit ==
    /\ udf = [t \in UdfThreads |-> IdleCall]
    /\ child = [t \in UdfThreads |-> "none"]
    /\ wrote = [t \in UdfThreads |-> NoAnswer]
    /\ inWrite = [t \in UdfThreads |-> {}]
    /\ inRead = [t \in UdfThreads |-> {}]
    /\ outWrite = [t \in UdfThreads |-> {}]
    /\ shared = [t \in UdfThreads |-> FALSE]
    /\ preflights = [k \in {} |-> NoAnswer]
    /\ venv = [made |-> FALSE, has |-> {}]
    /\ udfEngine = "up"
    /\ udfOps = 0

udfPipes == <<inWrite, inRead, outWrite>>

UdfAt(t, pc) == udfEngine = "up" /\ udf[t].pc = pc

UdfGoTo(t, pc) == udf' = [udf EXCEPT ![t].pc = pc]

UdfReturn(t, a) == udf' = [udf EXCEPT ![t].pc = "idle", ![t].answer = a]

\* EvalPythonUdfCall up to the preflight's look into the cache.
EvalPythonUdfCall(t, f) ==
    LET c == [pc |-> "pipe", fn |-> f, python |-> ResolvePythonInterpreterPath,
              script |-> "run", answer |-> NoAnswer]
    IN  /\ UdfAt(t, "idle") /\ udfOps < MaxUdfOps
        /\ udfOps' = udfOps + 1
        /\ udf' = [udf EXCEPT ![t] =
               IF UdfPackages[f] = <<>> THEN c
               ELSE IF KeyOf(c) \notin DOMAIN preflights THEN [c EXCEPT !.script = "preflight"]
               ELSE IF preflights[KeyOf(c)].kind = "ok" THEN c
               ELSE [c EXCEPT !.pc = "idle", !.answer = preflights[KeyOf(c)]]]
        /\ UNCHANGED <<child, wrote, udfPipes, shared, preflights, venv, udfEngine>>

\* InvokePythonScript: pipe() twice, or the error; a first pipe it leaves open
\* is nobody's to wait for.
MakePipes(t) ==
    /\ UdfAt(t, "pipe")
    /\ \/ /\ UdfGoTo(t, "fork")
          /\ inWrite' = [inWrite EXCEPT ![t] = {Engine}]
          /\ inRead' = [inRead EXCEPT ![t] = {Engine}]
          /\ outWrite' = [outWrite EXCEPT ![t] = {Engine}]
          /\ shared' = [shared EXCEPT ![t] = FALSE]
       \/ /\ UdfReturn(t, InternalError)
          /\ UNCHANGED <<udfPipes, shared>>
    /\ UNCHANGED <<child, wrote, preflights, venv, udfEngine, udfOps>>

\* What the child of t holds of a pipe after its dup2 and its four closes.
Inherits(t, u, ends, own) ==
    IF u = t THEN ends[u] \cup own
    ELSE ends[u] \cup (IF Engine \in ends[u] THEN {t} ELSE {})

\* Mutant: the child leaves the write end of its own stdin open.
ForkKeepingStdin(t) ==
    /\ UdfAt(t, "fork")
    /\ UdfGoTo(t, "parent")
    /\ child' = [child EXCEPT ![t] = "started"]
    /\ inWrite' = [u \in UdfThreads |-> Inherits(t, u, inWrite, {t})]
    /\ inRead' = [u \in UdfThreads |-> Inherits(t, u, inRead, {t})]
    /\ outWrite' = [u \in UdfThreads |-> Inherits(t, u, outWrite, {t})]
    /\ shared' = [u \in UdfThreads |-> shared[u] \/ (u # t /\ Engine \in inWrite[u])]
    /\ UNCHANGED <<wrote, preflights, venv, udfEngine, udfOps>>

\* fork(): the child keeps its two ends, and every end of the other calls'
\* pipes that the engine has open.
Fork(t) ==
    /\ UdfAt(t, "fork")
    /\ \/ /\ UdfGoTo(t, "parent")
          /\ child' = [child EXCEPT ![t] = "started"]
          /\ inWrite' = [u \in UdfThreads |-> Inherits(t, u, inWrite, {})]
          /\ inRead' = [u \in UdfThreads |-> Inherits(t, u, inRead, {t})]
          /\ outWrite' = [u \in UdfThreads |-> Inherits(t, u, outWrite, {t})]
          /\ shared' = [u \in UdfThreads |-> shared[u] \/ (u # t /\ Engine \in inWrite[u])]
          /\ UNCHANGED wrote
       \/ /\ UdfReturn(t, InternalError)
          /\ inWrite' = [inWrite EXCEPT ![t] = @ \ {Engine}]
          /\ inRead' = [inRead EXCEPT ![t] = @ \ {Engine}]
          /\ outWrite' = [outWrite EXCEPT ![t] = @ \ {Engine}]
          /\ UNCHANGED <<child, wrote, shared>>
    /\ UNCHANGED <<preflights, venv, udfEngine, udfOps>>

\* The parent closes the ends it does not use.
ParentCloses(t) ==
    /\ UdfAt(t, "parent")
    /\ UdfGoTo(t, "write")
    /\ inRead' = [inRead EXCEPT ![t] = @ \ {Engine}]
    /\ outWrite' = [outWrite EXCEPT ![t] = @ \ {Engine}]
    /\ UNCHANGED <<child, wrote, inWrite, shared, preflights, venv, udfEngine, udfOps>>

\* The request, of at most a pipe's capacity, is written and the stdin closed.  With no reader left write()
\* fails, or raises SIGPIPE, whose disposition nothing in the engine sets.
WriteRequest(t) ==
    /\ UdfAt(t, "write")
    /\ inWrite' = [inWrite EXCEPT ![t] = @ \ {Engine}]
    /\ \/ inRead[t] # {} /\ UdfGoTo(t, "read") /\ UNCHANGED udfEngine
       \/ inRead[t] = {} /\ UdfGoTo(t, "reap") /\ UNCHANGED udfEngine
       \/ inRead[t] = {} /\ udfEngine' = "down" /\ UNCHANGED udf
    /\ UNCHANGED <<child, wrote, inRead, outWrite, shared, preflights, venv, udfOps>>

\* After a failed write: waitpid, and the error.
ReapFailed(t) ==
    /\ UdfAt(t, "reap") /\ child[t] = "exited"
    /\ UdfReturn(t, InternalError)
    /\ child' = [child EXCEPT ![t] = "none"]
    /\ UNCHANGED <<wrote, udfPipes, shared, preflights, venv, udfEngine, udfOps>>

\* A child that ends lets go of every end it holds.
Exit(t, a) ==
    /\ child' = [child EXCEPT ![t] = "exited"]
    /\ wrote' = [wrote EXCEPT ![t] = a]
    /\ inWrite' = [u \in UdfThreads |-> inWrite[u] \ {t}]
    /\ inRead' = [u \in UdfThreads |-> inRead[u] \ {t}]
    /\ outWrite' = [u \in UdfThreads |-> outWrite[u] \ {t}]

\* The runner reads its stdin to the end, evaluates, answers and exits.
ChildAnswers(t) ==
    /\ udfEngine = "up" /\ child[t] = "started" /\ inWrite[t] = {}
    /\ \E a \in IF udf[t].script = "preflight"
                THEN {PreflightRun(udf[t].python, UdfPackages[udf[t].fn])}
                ELSE {[kind |-> "raised"]}
                     \cup (IF Range(UdfPackages[udf[t].fn]) \subseteq Importable(udf[t].python)
                           THEN {[kind |-> "value"]} ELSE {}) :
          Exit(t, a)
    /\ UNCHANGED <<udf, shared, preflights, venv, udfEngine, udfOps>>

\* execlp fails, or the interpreter is killed: an exit without output.
ChildDies(t) ==
    /\ udfEngine = "up" /\ child[t] = "started"
    /\ Exit(t, NoAnswer)
    /\ UNCHANGED <<udf, shared, preflights, venv, udfEngine, udfOps>>

\* DoPreflightPythonPackages reads which package is missing.
MissingPackage(t, a) == a

\* A preflight's answer is cached unless a concurrent one was first; the body
\* runs, or the call is refused.
CachePreflight(t, a) ==
    /\ preflights' = preflights @@ (KeyOf(udf[t]) :> a)
    /\ IF a.kind = "ok" THEN udf' = [udf EXCEPT ![t].pc = "pipe", ![t].script = "run"]
       ELSE UdfReturn(t, a)

\* The stdout read to its end, the child waited for; an interpreter without
\* output is an error, and not cached.
ReadAnswer(t) ==
    LET a == MissingPackage(t, wrote[t])
    IN  /\ UdfAt(t, "read") /\ outWrite[t] = {} /\ child[t] = "exited"
        /\ child' = [child EXCEPT ![t] = "none"]
        /\ wrote' = [wrote EXCEPT ![t] = NoAnswer]
        /\ CASE a = NoAnswer -> UdfReturn(t, InternalError) /\ UNCHANGED preflights
             [] a # NoAnswer /\ udf[t].script = "preflight" -> CachePreflight(t, a)
             [] OTHER -> UdfReturn(t, a) /\ UNCHANGED preflights
        /\ UNCHANGED <<udfPipes, shared, venv, udfEngine, udfOps>>

\* `task python-udf:provision`: the venv is made, or updated, beside the engine.
Provision(ps) ==
    /\ udfOps < MaxUdfOps /\ udfOps' = udfOps + 1
    /\ venv' = [made |-> TRUE, has |-> venv.has \cup ps]
    /\ UNCHANGED <<udf, child, wrote, udfPipes, shared, preflights, udfEngine>>

UdfNext ==
    \/ \E t \in UdfThreads, f \in UdfFunctions : EvalPythonUdfCall(t, f)
    \/ \E t \in UdfThreads : MakePipes(t)
    \/ \E t \in UdfThreads : Fork(t)
    \/ \E t \in UdfThreads : ParentCloses(t)
    \/ \E t \in UdfThreads : WriteRequest(t)
    \/ \E t \in UdfThreads : ReapFailed(t)
    \/ \E t \in UdfThreads : ChildAnswers(t)
    \/ \E t \in UdfThreads : ChildDies(t)
    \/ \E t \in UdfThreads : ReadAnswer(t)
    \/ \E ps \in Provisions : Provision(ps)

-------------------------------------------------------------------------------

\* A call during which no other child was forked never waits for somebody
\* else's: once it reads, its child sees the end of its request, and it sees
\* the end of its child's answer (InvokePythonScript's closes on both sides).
UnsharedCallsProgress ==
    \A t \in UdfThreads : udf[t].pc = "read" /\ ~shared[t] =>
        IF child[t] = "started" THEN inWrite[t] = {} ELSE outWrite[t] = {}

\* Two children that each hold the other's stdin open wait for ever, and their
\* queries with them.  The code does not rule it out: two calls that both open
\* their pipes before either forks end so.
NoMutualWait ==
    \A t, u \in UdfThreads : t # u /\ child[t] = "started" /\ child[u] = "started" =>
        ~(u \in inWrite[t] /\ t \in inWrite[u])

\* A body runs only in an interpreter that has the function's packages
\* (EvalPythonUdfCall returns on a failed preflight; the cache is per
\* interpreter), as long as no other list of packages is spelled alike.
RunsOnlyWithPackages ==
    \A t \in UdfThreads : udf[t].pc \in {"pipe", "fork", "parent", "write", "read"}
                          /\ udf[t].script = "run" /\ ~SpelledAlike(udf[t].fn) =>
        Range(UdfPackages[udf[t].fn]) \subseteq Importable(udf[t].python)

\* A refused call names one of its own packages, one that was missing when the
\* preflight behind the answer ran (MissingPythonPackageError, through the cache
\* too); again unless another list is spelled alike.
RefusalsNameTheMissing ==
    \A t \in UdfThreads : udf[t].answer.kind = "missing" /\ ~SpelledAlike(udf[t].fn) =>
        /\ udf[t].answer.package \in Range(UdfPackages[udf[t].fn])
        /\ udf[t].answer.package \notin udf[t].answer.had

\* A package that was provisioned before the call is not reported missing.  The
\* cache keeps a failed preflight for the life of the process, so it may be.
ProvisionedPackagesServe ==
    \A t \in UdfThreads : udf[t].answer.kind = "missing" =>
        udf[t].answer.package \notin Importable(udf[t].python)

\* A Python call is served by its own child: it waits for nobody else's pipes,
\* runs only where its packages are, and is refused by the name of one that is
\* not.
PythonCallsServed ==
    /\ UnsharedCallsProgress
    /\ RunsOnlyWithPackages
    /\ RefusalsNameTheMissing
=============================================================================
