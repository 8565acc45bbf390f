------------------------------ MODULE Scripts ------------------------------
(***************************************************************************)
(* Code that a VM runs and imports, and what the application is told of    *)
(* its errors (vm.hpp, method.hpp, object.hpp, caller.hpp).                *)
(*                                                                         *)
(* Wren knows a module by the id its name was resolved to: a file on one   *)
(* of the lookup paths or, if there is none, the name itself.  It reports  *)
(* to errorFn every error of a compilation and those run-time errors that  *)
(* no fiber's try() catches.  What scripts do is left open: at any step    *)
(* they may import a module, try a fiber, end or fail.                     *)
(***************************************************************************)
EXTENDS Naturals, Sequences

CONSTANTS
  Name,       \* what modules are called in scripts and by the application
  NumPaths,   \* number of lookup paths
  MaxErrors,  \* bound on the errors there are
  MaxTexts,   \* bound on the calls of setNextError
  MaxDepth    \* bound on imports and fibers within each other

ASSUME ScriptsAssumption ==
  /\ NumPaths \in Nat /\ MaxErrors \in Nat /\ MaxTexts \in Nat
  /\ MaxDepth \in Nat \ {0}

(* <<i, n>> is the file n.wren in the i-th lookup path, <<0, n>> the name  *)
(* itself and the file that is called just so.                             *)
Id == (0 .. NumPaths) \X Name
Bare(n) == <<0, n>>

VARIABLES
  disk,       \* the files there are
  registered, \* names of Data::modules
  known,      \* ids of the modules Wren has
  started,    \* files and registered modules whose code was started by an
              \* import or by runFromModule
  stack,      \* the run in progress: fibers and imports, innermost last
  errors,     \* how many errors there were; the n-th is called n
  reported,   \* how many reports errorFn was given
  texts,      \* how many texts were set by setNextError
  nextError,  \* Data::nextError: which of these texts, or 0
  lastError,  \* Data::lastError: the reports in it
  told,       \* the reports that were taken out of it, in order
  outcome     \* how the last operation ended

vars == <<disk, registered, known, started, stack, errors, reported, texts,
          nextError, lastError, told, outcome>>

Frame == {"run", "call", "try", "import"}
Code == {"file", "registered"} \X Id
Report == [kind : {"compile", "runtime"}, error : 1 .. MaxErrors, text : 0 .. MaxTexts]

TypeOK ==
  /\ disk \subseteq Id /\ known \subseteq Id
  /\ registered \subseteq Name
  /\ started \subseteq Code
  /\ stack \in Seq(Frame) /\ Len(stack) <= MaxDepth
  /\ \A i \in DOMAIN stack : i = 1 <=> stack[i] \in {"run", "call"}
  /\ errors \in 0 .. MaxErrors /\ reported \in 0 .. MaxErrors
  /\ texts \in 0 .. MaxTexts /\ nextError \in 0 .. texts
  /\ lastError \in Seq(Report) /\ told \in Seq(Report)

Quiet == [op |-> "none", threw |-> "none", reports |-> <<>>, cause |-> 0, code |-> {}]
Done(op) == outcome' = [Quiet EXCEPT !.op = op]

Init ==
  /\ disk = {} /\ registered = {} /\ known = {} /\ started = {}
  /\ stack = <<>>
  /\ errors = 0 /\ reported = 0 /\ texts = 0 /\ nextError = 0
  /\ lastError = <<>> /\ told = <<>>
  /\ outcome = Quiet

(* An exception that passed through Wren's own frames ends a run. *)
Running == outcome.threw # "escaped"
Idle == Running /\ stack = <<>>
InScript == Running /\ stack # <<>>

files == <<disk, registered>>
modules == <<known, started>>
messages == <<errors, reported, texts, nextError, lastError, told>>
----------------------------------------------------------------------------
(* Errors. *)

(* Mutant: the text is copied out of lastError and stays there. *)
CopyLastError(log) == lastError' = log /\ told' = told \o log

(* getLastError: a log is taken out of lastError. *)
TakeLastError(log) == lastError' = <<>> /\ told' = told \o log

(* Mutant: the error and the text that is set for it trade places. *)
LoggedSwapped(log, kind, error, text) ==
  Append(log, [kind |-> kind, error |-> text, text |-> error])

(* What lastError holds after errorFn was given another report. *)
Logged(log, kind, error, text) ==
  Append(log, [kind |-> kind, error |-> error, text |-> text])

(* An operation of the application throws a log. *)
Throw(op, type, log, cause) ==
  /\ TakeLastError(log)
  /\ outcome' = [Quiet EXCEPT !.op = op, !.threw = type, !.reports = log, !.cause = cause]

(* runFromSource reports every failure as a CompileError, a Method as a    *)
(* RuntimeError.                                                           *)
ExceptionOf(frame) == IF frame = "run" THEN "CompileError" ELSE "RuntimeError"

(* Mutant: the text for the next error is used for all that follow. *)
AbortKeepsText(op, error, log, n) ==
  LET tries == {i \in DOMAIN stack : stack[i] = "try"}
  IN IF tries # {}
     THEN /\ stack' = SubSeq(stack, 1, (CHOOSE i \in tries : \A j \in tries : j <= i) - 1)
          /\ lastError' = log /\ reported' = n
          /\ Done(op)
          /\ UNCHANGED <<nextError, told>>
     ELSE /\ stack' = <<>>
          /\ reported' = n + 1
          /\ Throw(op, ExceptionOf(stack[1]), Logged(log, "runtime", error, nextError), error)
          /\ UNCHANGED nextError

(* Mutant: the report replaces what lastError held. *)
AbortReplacesLog(op, error, log, n) ==
  LET tries == {i \in DOMAIN stack : stack[i] = "try"}
  IN IF tries # {}
     THEN /\ stack' = SubSeq(stack, 1, (CHOOSE i \in tries : \A j \in tries : j <= i) - 1)
          /\ lastError' = log /\ reported' = n
          /\ Done(op)
          /\ UNCHANGED <<nextError, told>>
     ELSE /\ stack' = <<>>
          /\ reported' = n + 1
          /\ nextError' = 0
          /\ Throw(op, ExceptionOf(stack[1]), Logged(<<>>, "runtime", error, nextError), error)

(* A fiber fails: a script error or, by exceptionHandler, a std::exception *)
(* of a foreign function.  The innermost fiber that is tried catches it;   *)
(* if there is none it is reported, with the text set for the next error,  *)
(* and the run is over.                                                    *)
Abort(op, error, log, n) ==
  LET tries == {i \in DOMAIN stack : stack[i] = "try"}
  IN IF tries # {}
     THEN /\ stack' = SubSeq(stack, 1, (CHOOSE i \in tries : \A j \in tries : j <= i) - 1)
          /\ lastError' = log /\ reported' = n
          /\ Done(op)
          /\ UNCHANGED <<nextError, told>>
     ELSE /\ stack' = <<>>
          /\ reported' = n + 1
          /\ nextError' = 0
          /\ Throw(op, ExceptionOf(stack[1]), Logged(log, "runtime", error, nextError), error)
----------------------------------------------------------------------------
(* Code is found: pathResolveFn and loadFileFn. *)

Resolve(n) ==
  LET at == {i \in 1 .. NumPaths : <<i, n>> \in disk}
  IN IF at = {} THEN Bare(n) ELSE <<CHOOSE i \in at : \A j \in at : i <= j, n>>

(* loadModuleFn: a module registered under the very id, or else a file.    *)
CodeOf(r) ==
  IF r[1] = 0 /\ r[2] \in registered THEN {<<"registered", r>>}
  ELSE IF r \in disk THEN {<<"file", r>>}
  ELSE {}
----------------------------------------------------------------------------
(* The application. *)

(* A file is written, by anyone. *)
WriteFile(f) ==
  /\ Running
  /\ f \notin disk
  /\ disk' = disk \cup {f} /\ Done("write")
  /\ UNCHANGED <<registered, modules, stack, messages>>

(* A file is removed, by anyone. *)
RemoveFile(f) ==
  /\ Running
  /\ f \in disk
  /\ disk' = disk \ {f} /\ Done("remove")
  /\ UNCHANGED <<registered, modules, stack, messages>>

(* VM::module *)
Register(n) ==
  /\ Running
  /\ registered' = registered \cup {n} /\ Done("module")
  /\ UNCHANGED <<disk, modules, stack, messages>>

SetNextError ==
  /\ Running
  /\ texts < MaxTexts
  /\ texts' = texts + 1 /\ nextError' = texts + 1 /\ Done("setNextError")
  /\ UNCHANGED <<files, modules, stack, errors, reported, lastError, told>>

GetLastError ==
  /\ Running
  /\ TakeLastError(lastError) /\ Done("getLastError")
  /\ UNCHANGED <<files, modules, stack, errors, reported, texts, nextError>>

(* runFromSource(r, code): wrenInterpret adds to a module r that exists.   *)
Interpret(op, r, code) ==
  /\ known' = known \cup {r}
  /\ UNCHANGED <<files, texts, nextError>>
  /\ \/ /\ stack' = <<"run">>
        /\ started' = started \cup code
        /\ Done(op)
        /\ UNCHANGED <<errors, reported, lastError, told>>
     \/ /\ errors < MaxErrors
        /\ errors' = errors + 1 /\ reported' = reported + 1
        /\ Throw(op, "CompileError", Logged(lastError, "compile", errors + 1, 0), errors + 1)
        /\ UNCHANGED <<stack, started>>

RunFromSource(n) == Idle /\ Interpret("runFromSource", Bare(n), {})

(* The file or module is not there. *)
Refuse(op, type) ==
  /\ outcome' = [Quiet EXCEPT !.op = op, !.threw = type]
  /\ UNCHANGED <<files, modules, stack, messages>>

RunFromFile(n, f) ==
  /\ Idle
  /\ IF f \in disk THEN Interpret("runFromFile", Bare(n), {}) ELSE Refuse("runFromFile", "Exception")

(* Mutant: the code is run under the name that was asked for. *)
RunFromModuleByName(n) ==
  /\ Idle
  /\ IF Resolve(n) \in disk THEN Interpret("runFromModule", Bare(n), {<<"file", Resolve(n)>>})
     ELSE Refuse("runFromModule", "NotFound")

(* Registered modules are not looked at. *)
RunFromModule(n) ==
  /\ Idle
  /\ IF Resolve(n) \in disk THEN Interpret("runFromModule", Resolve(n), {<<"file", Resolve(n)>>})
     ELSE Refuse("runFromModule", "NotFound")

(* A Method of some module is called. *)
CallMethod ==
  /\ Idle
  /\ known # {}
  /\ stack' = <<"call">> /\ Done("call")
  /\ UNCHANGED <<files, modules, messages>>
----------------------------------------------------------------------------
(* Scripts. *)

Try ==
  /\ InScript
  /\ Len(stack) < MaxDepth
  /\ stack' = Append(stack, "try") /\ Done("try")
  /\ UNCHANGED <<files, modules, messages>>

(* A fiber, an imported module or the whole run comes to its end. *)
Return ==
  /\ InScript
  /\ stack' = SubSeq(stack, 1, Len(stack) - 1) /\ Done("return")
  /\ UNCHANGED <<files, modules, messages>>

Fail ==
  /\ InScript
  /\ errors < MaxErrors
  /\ errors' = errors + 1
  /\ UNCHANGED <<files, modules, texts>>
  /\ Abort("fail", errors + 1, lastError, reported)

(* A getter or setter of a property throws, or a function throws what is   *)
(* no std::exception: nothing catches it before Wren's frames.             *)
Escape ==
  /\ InScript
  /\ outcome' = [Quiet EXCEPT !.op = "escape", !.threw = "escaped"]
  /\ UNCHANGED <<files, modules, stack, messages>>

(* A module that Wren has is not looked for again, even if it failed. *)
ImportKnown(n) ==
  /\ InScript
  /\ Resolve(n) \in known
  /\ Done("import")
  /\ UNCHANGED <<files, modules, stack, messages>>

ImportNew(n) ==
  /\ InScript
  /\ Len(stack) < MaxDepth
  /\ LET r == Resolve(n)
     IN /\ r \notin known /\ CodeOf(r) # {}
        /\ known' = known \cup {r}
        /\ stack' = Append(stack, "import")
        /\ started' = started \cup CodeOf(r)
        /\ outcome' = [Quiet EXCEPT !.op = "import", !.code = CodeOf(r)]
  /\ UNCHANGED <<files, messages>>

(* The errors of the compilation are reported before the import fails. *)
ImportBroken(n) ==
  /\ InScript
  /\ errors + 2 <= MaxErrors
  /\ LET r == Resolve(n)
     IN /\ r \notin known /\ CodeOf(r) # {}
        /\ known' = known \cup {r}
  /\ errors' = errors + 2
  /\ UNCHANGED <<files, started, texts>>
  /\ Abort("import", errors + 2, Logged(lastError, "compile", errors + 1, 0), reported + 1)

ImportMissing(n) ==
  /\ InScript
  /\ errors < MaxErrors
  /\ Resolve(n) \notin known /\ CodeOf(Resolve(n)) = {}
  /\ errors' = errors + 1
  /\ UNCHANGED <<files, modules, texts>>
  /\ Abort("import", errors + 1, lastError, reported)

Import(n) == ImportKnown(n) \/ ImportNew(n) \/ ImportBroken(n) \/ ImportMissing(n)

Next ==
  \/ \E f \in Id : WriteFile(f) \/ RemoveFile(f)
  \/ SetNextError \/ GetLastError
  \/ CallMethod \/ Try \/ Return \/ Fail \/ Escape
  \/ \E n \in Name :
       \/ Register(n)
       \/ RunFromSource(n) \/ RunFromModule(n)
       \/ \E f \in Id : RunFromFile(n, f)
       \/ Import(n)

Spec == Init /\ [][Next]_vars
----------------------------------------------------------------------------
(* Every report of errorFn is told once, in the order in which they came:  *)
(* it is still in lastError or was in just one exception or answer of      *)
(* getLastError (vm.hpp:235, 443-447).                                     *)
ReportsKept ==
  LET all == told \o lastError
  IN /\ Len(all) = reported
     /\ \A i, j \in DOMAIN all : i < j => all[i].error < all[j].error

(* An exception ends with the report of the failure that caused it, and    *)
(* leaves nothing for the next one (method.hpp:35-37, vm.hpp:270-273).     *)
CauseTold ==
  outcome.threw \in {"CompileError", "RuntimeError"} =>
    /\ outcome.reports # <<>> /\ outcome.reports[Len(outcome.reports)].error = outcome.cause
    /\ lastError = <<>>

(* A text set for the next error stands in one report at most              *)
(* (vm.hpp:222-225).                                                       *)
TextOnce ==
  LET all == told \o lastError
  IN \A i, j \in DOMAIN all : all[i].text = all[j].text /\ all[i].text # 0 => i = j

(* An import never starts code that an import or runFromModule started,    *)
(* though files come, go or are found under another path (vm.hpp:52-65,    *)
(* 123-158, 300-304).                                                      *)
ImportRunsOnce == [][outcome'.op = "import" => outcome'.code \cap started = {}]_vars
=============================================================================
