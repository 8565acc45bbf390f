--------------------------- MODULE ScriptsProofs ---------------------------
(***************************************************************************)
(* Proofs about Scripts, for any number of modules, lookup paths, errors,  *)
(* texts and frames.                                                       *)
(***************************************************************************)
EXTENDS Scripts, SequenceTheorems, WellFoundedInduction, TLAPS

(* The reports of a VM in the order they were made, when the last error is *)
(* e, the last text t, and x the text that is set for the next report.     *)
Faithful(log, e, t, x) ==
  /\ log \in Seq(Report) /\ Len(log) <= e
  /\ e \in 0 .. MaxErrors /\ t \in 0 .. MaxTexts /\ x \in 0 .. t
  /\ \A i \in 1 .. Len(log) :
       log[i].error <= e /\ log[i].text <= t /\ (log[i].text = x => x = 0)
  /\ \A i, j \in 1 .. Len(log) : i < j => log[i].error < log[j].error
  /\ \A i, j \in 1 .. Len(log) :
       log[i].text = log[j].text /\ log[i].text # 0 => i = j

(* A run is the frame of runFromX or of a call, and what goes on in it. *)
Stacked(s) ==
  /\ s \in Seq(Frame) /\ Len(s) <= MaxDepth
  /\ \A i \in 1 .. Len(s) : i = 1 <=> s[i] \in {"run", "call"}

(* What was told, and what lastError holds, are all the reports. *)
Reports ==
  /\ told \in Seq(Report) /\ lastError \in Seq(Report)
  /\ Len(told \o lastError) = reported
  /\ Faithful(told \o lastError, errors, texts, nextError)

(* Code that was started belongs to a module Wren has. *)
Modules ==
  /\ disk \subseteq Id /\ known \subseteq Id /\ registered \subseteq Name
  /\ started \subseteq Code
  /\ \A c \in started : c[2] \in known

(* The inductive invariant. *)
Sound == Stacked(stack) /\ Reports /\ Modules /\ CauseTold
----------------------------------------------------------------------------
(* A set of numbers that is not empty has a least one. *)
LEMMA LeastNumber ==
  ASSUME NEW T \in SUBSET Nat, T # {}
  PROVE  \E i \in T : \A j \in T : i <= j
  <1> DEFINE R == {p \in Nat \X Nat : p[1] < p[2]}
  <1>1. IsWellFoundedOn(R, Nat)
    BY NatLessThanWellFounded DEF OpToRel
  <1>2. PICK i \in T : \A j \in T : <<j, i>> \notin R
    <2> HIDE DEF R
    <2> QED
      BY <1>1, WFMin
  <1>3. \A j \in T : ~ (j < i)
    BY <1>2
  <1> QED
    BY <1>3

(* The innermost of the fibers that are tried. *)
LEMMA InnermostTry ==
  ASSUME NEW n \in Nat, NEW T \in SUBSET (1 .. n), T # {}
  PROVE  (CHOOSE i \in T : \A j \in T : j <= i) \in T
  <1> DEFINE D == {n - i : i \in T}
  <1>0. \A i \in T : i \in Nat /\ n - i \in Nat /\ n - i \in D
    OBVIOUS
  <1>1. D \in SUBSET Nat /\ D # {}
    BY <1>0
  <1>2. PICK d \in D : \A e \in D : d <= e
    <2> HIDE DEF D
    <2> QED
      BY <1>1, LeastNumber
  <1>3. PICK i \in T : d = n - i
    BY <1>2
  <1>4. \A j \in T : d <= n - j
    <2> HIDE DEF D
    <2> QED
      BY <1>0, <1>2
  <1>5. \A j \in T : j <= i
    BY <1>0, <1>3, <1>4
  <1> QED
    BY <1>5

(* A name is resolved to an id. *)
LEMMA ResolveId == ASSUME NEW n \in Name PROVE Resolve(n) \in Id
  <1> DEFINE at == {i \in 1 .. NumPaths : <<i, n>> \in disk}
  <1> USE ScriptsAssumption
  <1>1. CASE at = {}
    BY <1>1 DEF Resolve, Bare, Id
  <1>2. CASE at # {}
    <2>0. at \in SUBSET Nat
      OBVIOUS
    <2> DEFINE first == CHOOSE i \in at : \A j \in at : i <= j
    <2>1. first \in at
      <3> HIDE DEF at
      <3>1. \E i \in at : \A j \in at : i <= j
        BY <1>2, <2>0, LeastNumber
      <3> QED
        BY <3>1
    <2>2. Resolve(n) = <<first, n>>
      BY <1>2 DEF Resolve
    <2>3. first \in 1 .. NumPaths
      BY <2>1
    <2> HIDE DEF first
    <2> QED
      BY <2>2, <2>3 DEF Id
  <1> QED
    BY <1>1, <1>2

(* The code of an id is code of that id. *)
LEMMA CodeOfId ==
  ASSUME NEW r \in Id
  PROVE  CodeOf(r) \subseteq Code /\ \A c \in CodeOf(r) : c[2] = r
  BY DEF CodeOf, Code
----------------------------------------------------------------------------
(* Frames that are left can be forgotten. *)
LEMMA StackedPrefix ==
  ASSUME NEW s, Stacked(s), NEW k \in 0 .. Len(s)
  PROVE  Stacked(SubSeq(s, 1, k))
  <1> USE ScriptsAssumption
  <1>1. /\ SubSeq(s, 1, k) \in Seq(Frame) /\ Len(SubSeq(s, 1, k)) = k
        /\ \A i \in 1 .. k : SubSeq(s, 1, k)[i] = s[i]
    BY DEF Stacked
  <1> QED
    BY <1>1 DEF Stacked

(* A frame that is entered stands within others. *)
LEMMA StackedPush ==
  ASSUME NEW s, Stacked(s), s # <<>>, Len(s) < MaxDepth, NEW f \in {"try", "import"}
  PROVE  Stacked(Append(s, f))
  <1> USE ScriptsAssumption
  <1>1. s \in Seq(Frame) /\ f \in Frame /\ Len(s) # 0
    BY DEF Stacked, Frame
  <1>2. /\ Append(s, f) \in Seq(Frame) /\ Len(Append(s, f)) = Len(s) + 1
        /\ \A i \in 1 .. Len(s) : Append(s, f)[i] = s[i]
        /\ Append(s, f)[Len(s) + 1] = f
    BY <1>1, AppendProperties
  <1> QED
    BY <1>1, <1>2 DEF Stacked

(* A run begins with its own frame. *)
LEMMA StackedBase ==
  ASSUME NEW f \in {"run", "call"}
  PROVE  Stacked(<<f>>) /\ Stacked(<<>>)
  BY ScriptsAssumption DEF Stacked, Frame
----------------------------------------------------------------------------
(* Reports are numbered, and so are the texts in them. *)
LEMMA LogNumbers ==
  ASSUME NEW log \in Seq(Report)
  PROVE  /\ Len(log) \in Nat
         /\ \A i \in 1 .. Len(log) : log[i].error \in Nat /\ log[i].text \in Nat
  <1>1. \A i \in 1 .. Len(log) : log[i] \in Report
    BY ElementOfSeq
  <1>2. \A r \in Report : r.error \in Nat /\ r.text \in Nat
    BY ScriptsAssumption DEF Report
  <1> QED
    BY <1>1, <1>2, LenProperties

(* An error that some fiber catches leaves the reports as they are. *)
LEMMA FaithfulSilent ==
  ASSUME NEW log, NEW e, NEW t, NEW x, Faithful(log, e, t, x), e < MaxErrors
  PROVE  Faithful(log, e + 1, t, x)
  BY ScriptsAssumption, LogNumbers DEF Faithful

(* A report of the next error, with the text that is set or with none. *)
LEMMA FaithfulReport ==
  ASSUME NEW log, NEW e, NEW t, NEW x, Faithful(log, e, t, x), e < MaxErrors,
         NEW r \in Report, r.error = e + 1,
         NEW y, \/ r.text = 0 /\ y = x
                \/ r.text = x /\ y = 0
  PROVE  Faithful(Append(log, r), e + 1, t, y)
  <1> USE ScriptsAssumption
  <1> DEFINE new == Append(log, r)
  <1>1. log \in Seq(Report) /\ Len(log) \in Nat
    BY DEF Faithful
  <1>2. /\ new \in Seq(Report) /\ Len(new) = Len(log) + 1
        /\ \A i \in 1 .. Len(log) : new[i] = log[i]
        /\ new[Len(log) + 1] = r
    BY <1>1, AppendProperties
  <1>3. \A i \in 1 .. Len(log) : /\ log[i].error \in Nat /\ log[i].text \in Nat
                                 /\ i \in 1 .. Len(new)
    BY <1>1, <1>2, LogNumbers
  <1>4. \A i \in 1 .. Len(new) : i \in 1 .. Len(log) \/ i = Len(log) + 1
    BY <1>1, <1>2
  <1>5. r.text \in Nat
    BY DEF Report
  <1> HIDE DEF new
  <1>6. Len(new) <= e + 1 /\ e + 1 \in 0 .. MaxErrors /\ t \in 0 .. MaxTexts
        /\ y \in 0 .. t
    BY <1>1, <1>2 DEF Faithful
  <1>7. \A i \in 1 .. Len(new) :
          new[i].error <= e + 1 /\ new[i].text <= t /\ (new[i].text = y => y = 0)
    BY <1>1, <1>2, <1>3, <1>4, <1>5 DEF Faithful
  <1>8. \A i, j \in 1 .. Len(new) : i < j => new[i].error < new[j].error
    BY <1>1, <1>2, <1>3, <1>4 DEF Faithful
  <1>9. \A i, j \in 1 .. Len(new) :
          new[i].text = new[j].text /\ new[i].text # 0 => i = j
    BY <1>1, <1>2, <1>3, <1>4 DEF Faithful
  <1> QED
    BY <1>2, <1>6, <1>7, <1>8, <1>9 DEF Faithful, new

(* A text that is set was not in any report yet. *)
LEMMA FaithfulText ==
  ASSUME NEW log, NEW e, NEW t, NEW x, Faithful(log, e, t, x), t < MaxTexts
  PROVE  Faithful(log, e, t + 1, t + 1)
  BY ScriptsAssumption, LogNumbers DEF Faithful

(* Adding a report to lastError adds it to all the reports. *)
LEMMA AppendToLog ==
  ASSUME NEW s \in Seq(Report), NEW u \in Seq(Report), NEW r \in Report
  PROVE  /\ s \o Append(u, r) = Append(s \o u, r)
         /\ Append(u, r) \in Seq(Report)
         /\ Len(s \o Append(u, r)) = Len(s \o u) + 1
  <1>1. Append(u, r) = u \o <<r>> /\ Append(s \o u, r) = (s \o u) \o <<r>>
    BY ConcatProperties, AppendIsConcat
  <1>2. <<r>> \in Seq(Report) /\ s \o u \in Seq(Report)
    BY ConcatProperties
  <1>3. s \o (u \o <<r>>) = (s \o u) \o <<r>>
    BY <1>2, ConcatAssociative
  <1> QED
    BY <1>1, <1>2, <1>3, AppendProperties
----------------------------------------------------------------------------
(* An exception takes the log out of lastError, with its cause at the end. *)
LEMMA ThrowTells ==
  ASSUME NEW op, NEW type, NEW log \in Seq(Report), NEW r \in Report,
         told \in Seq(Report),
         Throw(op, type, Append(log, r), r.error)
  PROVE  /\ told' \in Seq(Report) /\ lastError' \in Seq(Report)
         /\ told' \o lastError' = Append(told \o log, r)
         /\ Len(told' \o lastError') = Len(told \o log) + 1
         /\ CauseTold'
  <1> DEFINE new == Append(log, r)
  <1>1. /\ new \in Seq(Report) /\ new # <<>> /\ new[Len(new)] = r
        /\ told \o new = Append(told \o log, r)
        /\ Len(told \o new) = Len(told \o log) + 1
    BY AppendProperties, AppendToLog
  <1>2. /\ told' = told \o new /\ lastError' = <<>>
        /\ outcome' = [Quiet EXCEPT !.op = op, !.threw = type, !.reports = new,
                                    !.cause = r.error]
    BY DEF Throw, TakeLastError
  <1> HIDE DEF new
  <1>3. told' \in Seq(Report) /\ lastError' \in Seq(Report)
    BY <1>1, <1>2, ConcatProperties
  <1>4. told' \o lastError' = told \o new
    BY <1>2, <1>3, ConcatEmptySeq
  <1>5. outcome'.reports = new /\ outcome'.cause = r.error
    BY <1>2 DEF Quiet
  <1> QED
    BY <1>1, <1>2, <1>3, <1>4, <1>5 DEF CauseTold

(* An outcome that throws nothing has no cause to tell. *)
LEMMA QuietTells ==
  ASSUME NEW op, \/ Done(op)
                 \/ \E type \in {"Exception", "NotFound", "escaped"} :
                      outcome' = [Quiet EXCEPT !.op = op, !.threw = type]
  PROVE  CauseTold'
  BY DEF Done, Quiet, CauseTold

(* A fiber that fails with error e + 1 is caught and nothing is reported,  *)
(* or it ends the run, whose exception tells the report.                   *)
LEMMA AbortTells ==
  ASSUME Stacked(stack), stack # <<>>, told \in Seq(Report),
         NEW op, NEW log \in Seq(Report), NEW e, NEW n,
         n = Len(told \o log), e < MaxErrors,
         Faithful(told \o log, e, texts, nextError),
         Abort(op, e + 1, log, n), errors' = e + 1, UNCHANGED texts
  PROVE  Stacked(stack') /\ Reports' /\ CauseTold'
  <1> USE ScriptsAssumption
  <1> DEFINE tries == {i \in DOMAIN stack : stack[i] = "try"}
             inner == CHOOSE i \in tries : \A j \in tries : j <= i
  <1>0. stack \in Seq(Frame) /\ Len(stack) \in Nat /\ DOMAIN stack = 1 .. Len(stack)
    BY DEF Stacked
  <1>1. CASE tries # {}
    <2>1. inner \in tries
      <3>1. tries \in SUBSET (1 .. Len(stack))
        BY <1>0
      <3> HIDE DEF tries
      <3> QED
        BY <1>0, <1>1, <3>1, InnermostTry
    <2>2. inner \in 1 .. Len(stack)
      BY <1>0, <2>1
    <2>3. /\ stack' = SubSeq(stack, 1, inner - 1)
          /\ lastError' = log /\ reported' = n
          /\ Done(op) /\ UNCHANGED <<nextError, told>>
      BY <1>1 DEF Abort
    <2> HIDE DEF inner
    <2>4. Stacked(stack')
      BY <1>0, <2>2, <2>3, StackedPrefix
    <2>5. Faithful(told \o log, e + 1, texts, nextError)
      BY FaithfulSilent
    <2> QED
      BY <2>3, <2>4, <2>5, QuietTells DEF Reports
  <1>2. CASE tries = {}
    <2> DEFINE r == [kind |-> "runtime", error |-> e + 1, text |-> nextError]
    <2>1. /\ stack' = <<>> /\ reported' = n + 1 /\ nextError' = 0
          /\ Throw(op, ExceptionOf(stack[1]), Append(log, r), e + 1)
      BY <1>2 DEF Abort, Logged
    <2>2. r \in Report /\ r.error = e + 1 /\ r.text = nextError
      BY DEF Report, Faithful
    <2> HIDE DEF r
    <2>3. /\ told' \in Seq(Report) /\ lastError' \in Seq(Report)
          /\ told' \o lastError' = Append(told \o log, r)
          /\ Len(told' \o lastError') = n + 1
          /\ CauseTold'
      BY <2>1, <2>2, ThrowTells
    <2>4. Faithful(Append(told \o log, r), e + 1, texts, 0)
      BY <2>2, FaithfulReport
    <2>5. Stacked(<<>>)
      BY StackedBase
    <2> QED
      BY <2>1, <2>3, <2>4, <2>5 DEF Reports
  <1> QED
    BY <1>1, <1>2
----------------------------------------------------------------------------
(* What an operation that leaves the messages alone keeps. *)
LEMMA ReportsSame == Reports /\ UNCHANGED messages => Reports'
  BY DEF Reports, Faithful, messages

(* What an operation that leaves files and modules alone keeps. *)
LEMMA ModulesSame == Modules /\ UNCHANGED <<files, modules>> => Modules'
  BY DEF Modules, files, modules

(* The files and the registered modules change, the rest does not. *)
LEMMA FilesSound ==
  ASSUME Sound,
         \/ \E f \in Id : WriteFile(f) \/ RemoveFile(f)
         \/ \E n \in Name : Register(n)
  PROVE  Sound'
  <1>1. UNCHANGED <<stack, messages>> /\ Modules'
    BY DEF WriteFile, RemoveFile, Register, Sound, Modules, modules
  <1>2. CauseTold'
    BY QuietTells DEF WriteFile, RemoveFile, Register
  <1> QED
    BY <1>1, <1>2, ReportsSame DEF Sound

(* A text is set, and the log is taken by the application. *)
LEMMA MessageSound == Sound /\ (SetNextError \/ GetLastError) => Sound'
  <1> SUFFICES ASSUME Sound, SetNextError \/ GetLastError PROVE Sound'
    OBVIOUS
  <1>1. UNCHANGED <<files, modules, stack>>
    BY DEF SetNextError, GetLastError
  <1>2. CauseTold'
    BY QuietTells DEF SetNextError, GetLastError
  <1>3. CASE SetNextError
    <2>1. /\ UNCHANGED <<errors, reported, lastError, told>>
          /\ texts < MaxTexts /\ texts' = texts + 1 /\ nextError' = texts + 1
      BY <1>3 DEF SetNextError
    <2>2. Faithful(told \o lastError, errors, texts + 1, texts + 1)
      BY <2>1, FaithfulText DEF Sound, Reports
    <2> QED
      BY <1>1, <1>2, <2>1, <2>2, ModulesSame DEF Sound, Reports
  <1>4. CASE GetLastError
    <2>1. /\ UNCHANGED <<errors, reported, texts, nextError>>
          /\ told' = told \o lastError /\ lastError' = <<>>
      BY <1>4 DEF GetLastError, TakeLastError
    <2>2. /\ told' \in Seq(Report) /\ lastError' \in Seq(Report)
          /\ told' \o lastError' = told \o lastError
      BY <2>1, ConcatProperties, ConcatEmptySeq DEF Sound, Reports
    <2> QED
      BY <1>1, <1>2, <2>1, <2>2, ModulesSame DEF Sound, Reports
  <1> QED
    BY <1>3, <1>4

(* Code is run from C++ in the module of id r. *)
LEMMA InterpretSound ==
  ASSUME Sound, stack = <<>>, NEW op, NEW r \in Id,
         NEW code \in SUBSET Code, \A c \in code : c[2] = r,
         Interpret(op, r, code)
  PROVE  Sound'
  <1> USE ScriptsAssumption
  <1>1. known' = known \cup {r} /\ UNCHANGED <<files, texts, nextError>>
        /\ started' \in {started, started \cup code}
    BY DEF Interpret
  <1>2. Modules'
    BY <1>1 DEF Sound, Modules, files
  <1>3. CASE /\ stack' = <<"run">> /\ Done(op)
             /\ UNCHANGED <<errors, reported, lastError, told>>
    <2>1. Stacked(stack') /\ CauseTold'
      BY <1>3, StackedBase, QuietTells
    <2> QED
      BY <1>1, <1>2, <1>3, <2>1 DEF Sound, Reports
  <1>4. CASE /\ errors < MaxErrors
             /\ errors' = errors + 1 /\ reported' = reported + 1
             /\ Throw(op, "CompileError", Logged(lastError, "compile", errors + 1, 0),
                      errors + 1)
             /\ UNCHANGED stack
    <2> DEFINE new == [kind |-> "compile", error |-> errors + 1, text |-> 0]
    <2>1. new \in Report /\ new.error = errors + 1 /\ new.text = 0
      BY <1>4 DEF Report, Sound, Reports, Faithful
    <2>2. Throw(op, "CompileError", Append(lastError, new), new.error)
      BY <1>4 DEF Logged
    <2> HIDE DEF new
    <2>3. /\ told' \in Seq(Report) /\ lastError' \in Seq(Report)
          /\ told' \o lastError' = Append(told \o lastError, new)
          /\ Len(told' \o lastError') = Len(told \o lastError) + 1
          /\ CauseTold'
      BY <2>1, <2>2, ThrowTells DEF Sound, Reports
    <2>4. Faithful(Append(told \o lastError, new), errors + 1, texts, nextError)
      BY <1>4, <2>1, FaithfulReport DEF Sound, Reports
    <2> QED
      BY <1>1, <1>2, <1>4, <2>3, <2>4 DEF Sound, Reports
  <1> QED
    BY <1>3, <1>4 DEF Interpret

(* What the application starts. *)
LEMMA RunSound ==
  ASSUME Sound,
         \/ CallMethod
         \/ \E n \in Name : \/ RunFromSource(n) \/ RunFromModule(n)
                            \/ \E f \in Id : RunFromFile(n, f)
  PROVE  Sound'
  <1> USE ScriptsAssumption
  <1>1. CASE CallMethod
    <2>1. /\ stack' = <<"call">> /\ UNCHANGED <<files, modules, messages>>
          /\ CauseTold'
      BY <1>1, QuietTells DEF CallMethod
    <2> QED
      BY <2>1, StackedBase, ReportsSame, ModulesSame DEF Sound
  <1>2. ASSUME NEW op, NEW type \in {"Exception", "NotFound"}, Refuse(op, type)
        PROVE  Sound'
    <2>1. CauseTold' /\ UNCHANGED <<files, modules, stack, messages>>
      BY <1>2, QuietTells DEF Refuse
    <2> QED
      BY <2>1, ReportsSame, ModulesSame DEF Sound
  <1>3. \A n \in Name : Bare(n) \in Id
    <2>1. 0 \in 0 .. NumPaths
      OBVIOUS
    <2> QED
      BY <2>1 DEF Bare, Id
  <1>4. ASSUME NEW n \in Name, RunFromSource(n)
        PROVE  Sound'
    BY <1>3, <1>4, InterpretSound DEF RunFromSource, Idle
  <1>5. ASSUME NEW n \in Name, NEW f \in Id, RunFromFile(n, f)
        PROVE  Sound'
    <2>1. CASE f \in disk
      BY <1>3, <1>5, <2>1, InterpretSound DEF RunFromFile, Idle
    <2>2. CASE f \notin disk
      BY <1>2, <1>5, <2>2 DEF RunFromFile
    <2> QED
      BY <2>1, <2>2
  <1>6. ASSUME NEW n \in Name, RunFromModule(n)
        PROVE  Sound'
    <2> DEFINE r == Resolve(n)
               code == {<<"file", r>>}
    <2>1. CASE r \in disk
      <3>1. r \in Id
        BY ResolveId
      <3>2. Interpret("runFromModule", r, code) /\ stack = <<>>
        BY <1>6, <2>1 DEF RunFromModule, Idle
      <3> HIDE DEF r
      <3>3. code \in SUBSET Code /\ \A c \in code : c[2] = r
        BY <3>1 DEF Code
      <3> HIDE DEF code
      <3> QED
        BY <3>1, <3>2, <3>3, InterpretSound
    <2>2. CASE r \notin disk
      BY <1>2, <1>6, <2>2 DEF RunFromModule
    <2> QED
      BY <2>1, <2>2
  <1> QED
    BY <1>1, <1>4, <1>5, <1>6

(* What goes on in a run without an error. *)
LEMMA ScriptSound ==
  ASSUME Sound,
         \/ Try \/ Return \/ Escape
         \/ \E n \in Name : ImportKnown(n) \/ ImportNew(n)
  PROVE  Sound'
  <1>0. stack # <<>> /\ Stacked(stack) /\ Len(stack) \in Nat /\ Len(stack) # 0
    <2>1. stack # <<>>
      BY DEF Try, Return, Escape, ImportKnown, ImportNew, InScript
    <2>2. Stacked(stack) /\ stack \in Seq(Frame)
      BY DEF Sound, Stacked
    <2> QED
      BY <2>1, <2>2, EmptySeq
  <1>1. CASE Try
    <2>1. /\ stack' = Append(stack, "try") /\ Len(stack) < MaxDepth
          /\ UNCHANGED <<files, modules, messages>> /\ CauseTold'
      BY <1>1, QuietTells DEF Try
    <2> QED
      BY <1>0, <2>1, StackedPush, ReportsSame, ModulesSame DEF Sound
  <1>2. CASE Return
    <2>1. /\ stack' = SubSeq(stack, 1, Len(stack) - 1)
          /\ UNCHANGED <<files, modules, messages>> /\ CauseTold'
      BY <1>2, QuietTells DEF Return
    <2>2. Len(stack) - 1 \in 0 .. Len(stack)
      BY <1>0
    <2>3. Stacked(stack')
      BY <1>0, <2>1, <2>2, StackedPrefix
    <2> QED
      BY <2>1, <2>3, ReportsSame, ModulesSame DEF Sound
  <1>3. CASE Escape \/ \E n \in Name : ImportKnown(n)
    <2>1. UNCHANGED <<files, modules, stack, messages>> /\ CauseTold'
      BY <1>3, QuietTells DEF Escape, ImportKnown
    <2> QED
      BY <2>1, ReportsSame, ModulesSame DEF Sound
  <1>4. CASE \E n \in Name : ImportNew(n)
    <2> PICK n \in Name : ImportNew(n)
      BY <1>4
    <2> DEFINE r == Resolve(n)
    <2>1. r \in Id /\ CodeOf(r) \subseteq Code /\ \A c \in CodeOf(r) : c[2] = r
      BY ResolveId, CodeOfId
    <2>2. /\ stack' = Append(stack, "import") /\ Len(stack) < MaxDepth
          /\ known' = known \cup {r} /\ started' = started \cup CodeOf(r)
          /\ outcome' = [Quiet EXCEPT !.op = "import", !.code = CodeOf(r)]
          /\ UNCHANGED <<files, messages>>
      BY DEF ImportNew
    <2> HIDE DEF r
    <2>3. Modules'
      BY <2>1, <2>2 DEF Sound, Modules, files
    <2>4. Stacked(stack')
      BY <1>0, <2>2, StackedPush
    <2>5. CauseTold'
      BY <2>2 DEF Quiet, CauseTold
    <2> QED
      BY <2>2, <2>3, <2>4, <2>5, ReportsSame DEF Sound
  <1> QED
    BY <1>1, <1>2, <1>3, <1>4

(* What fails in a run. *)
LEMMA FailureSound ==
  ASSUME Sound,
         Fail \/ \E n \in Name : ImportBroken(n) \/ ImportMissing(n)
  PROVE  Sound'
  <1> USE ScriptsAssumption
  <1>0. /\ Stacked(stack) /\ stack # <<>>
        /\ told \in Seq(Report) /\ lastError \in Seq(Report)
        /\ reported = Len(told \o lastError) /\ errors \in Nat
        /\ Faithful(told \o lastError, errors, texts, nextError)
    BY DEF Fail, ImportBroken, ImportMissing, InScript, Sound, Reports, Faithful
  <1>1. CASE Fail \/ \E n \in Name : ImportMissing(n)
    <2> PICK op \in {"fail", "import"} :
          Abort(op, errors + 1, lastError, reported)
      BY <1>1 DEF Fail, ImportMissing
    <2>1. /\ errors < MaxErrors /\ errors' = errors + 1
          /\ UNCHANGED <<files, modules, texts>>
      BY <1>1 DEF Fail, ImportMissing
    <2>2. Stacked(stack') /\ Reports' /\ CauseTold'
      BY <1>0, <2>1, AbortTells
    <2> QED
      BY <2>1, <2>2, ModulesSame DEF Sound
  <1>2. CASE \E n \in Name : ImportBroken(n)
    <2> PICK n \in Name : ImportBroken(n)
      BY <1>2
    <2> DEFINE r == Resolve(n)
               new == [kind |-> "compile", error |-> errors + 1, text |-> 0]
    <2>1. /\ errors + 2 <= MaxErrors /\ errors' = errors + 2
          /\ known' = known \cup {r} /\ UNCHANGED <<files, started, texts>>
          /\ Abort("import", errors + 2, Append(lastError, new), reported + 1)
      BY DEF ImportBroken, Logged
    <2>2. r \in Id
      BY ResolveId
    <2>3. new \in Report /\ new.error = errors + 1 /\ new.text = 0
      BY <1>0, <2>1 DEF Report
    <2> HIDE DEF r, new
    <2>4. Modules'
      BY <2>1, <2>2 DEF Sound, Modules, files
    <2> DEFINE log == Append(lastError, new)
    <2>5. /\ told \o log = Append(told \o lastError, new)
          /\ log \in Seq(Report) /\ Len(told \o log) = reported + 1
      BY <1>0, <2>3, AppendToLog
    <2>6. Faithful(told \o log, errors + 1, texts, nextError)
      <3>1. Faithful(Append(told \o lastError, new), errors + 1, texts, nextError)
        BY <1>0, <2>1, <2>3, FaithfulReport
      <3> QED
        BY <2>5, <3>1
    <2>7. /\ errors + 1 < MaxErrors /\ errors' = (errors + 1) + 1
          /\ Abort("import", (errors + 1) + 1, log, reported + 1)
      <3>1. errors + 2 = (errors + 1) + 1
        BY <1>0
      <3> QED
        BY <1>0, <2>1, <3>1
    <2> HIDE DEF log
    <2>8. Stacked(stack') /\ Reports' /\ CauseTold'
      BY <1>0, <2>1, <2>5, <2>6, <2>7, AbortTells
    <2> QED
      BY <2>4, <2>8 DEF Sound
  <1> QED
    BY <1>1, <1>2

(* The invariant is inductive. *)
LEMMA InitSound == Init => Sound
  <1> USE ScriptsAssumption
  <1> SUFFICES ASSUME Init PROVE Sound
    OBVIOUS
  <1>1. Stacked(stack)
    BY StackedBase DEF Init
  <1>2. told \o lastError = <<>> /\ <<>> \in Seq(Report) /\ Len(<<>>) = 0
    BY EmptySeq, ConcatEmptySeq DEF Init
  <1>3. Reports
    BY <1>2 DEF Init, Reports, Faithful
  <1> QED
    BY <1>1, <1>3 DEF Init, Sound, Modules, CauseTold, Quiet

(* The invariant is inductive. *)
LEMMA NextSound == Sound /\ [Next]_vars => Sound'
  <1>1. Sound /\ UNCHANGED vars => Sound'
    BY ReportsSame, ModulesSame
    DEF vars, Sound, Stacked, CauseTold, messages, files, modules
  <1> QED
    BY <1>1, FilesSound, MessageSound, RunSound, ScriptSound, FailureSound
    DEF Next, Import
----------------------------------------------------------------------------
(* The inductive invariant holds in every reachable state. *)
THEOREM SoundInvariant == Spec => []Sound
  BY InitSound, NextSound, PTL DEF Spec

(* Every variable keeps to its type; a run is one frame of runFromX or of  *)
(* a call with fibers and imports in it.                                   *)
THEOREM ScriptsTyped == Spec => []TypeOK
  <1>1. Sound => TypeOK
    BY ScriptsAssumption, LenProperties, ConcatProperties
    DEF Sound, Stacked, Reports, Faithful, Modules, TypeOK
  <1> QED
    BY <1>1, SoundInvariant, PTL

(* No report of errorFn is lost, told twice or told out of order.          *)
THEOREM NoReportLost == Spec => []ReportsKept
  <1>1. Sound => ReportsKept
    <2> SUFFICES ASSUME Sound PROVE ReportsKept
      OBVIOUS
    <2> DEFINE all == told \o lastError
    <2>1. /\ all \in Seq(Report) /\ Len(all) = reported
          /\ \A i, j \in 1 .. Len(all) : i < j => all[i].error < all[j].error
      BY DEF Sound, Reports, Faithful
    <2>2. DOMAIN all = 1 .. Len(all)
      BY <2>1, LenProperties
    <2> QED
      BY <2>1, <2>2 DEF ReportsKept
  <1> QED
    BY <1>1, SoundInvariant, PTL

(* Every exception ends with the report of its cause, and takes all of     *)
(* lastError with it.                                                      *)
THEOREM CauseAlwaysTold == Spec => []CauseTold
  <1>1. Sound => CauseTold
    BY DEF Sound
  <1> QED
    BY <1>1, SoundInvariant, PTL

(* A text set for the next error is never given to two errors. *)
THEOREM TextGivenOnce == Spec => []TextOnce
  <1>1. Sound => TextOnce
    <2> SUFFICES ASSUME Sound PROVE TextOnce
      OBVIOUS
    <2> DEFINE all == told \o lastError
    <2>1. /\ all \in Seq(Report)
          /\ \A i, j \in 1 .. Len(all) :
               all[i].text = all[j].text /\ all[i].text # 0 => i = j
      BY DEF Sound, Reports, Faithful
    <2>2. DOMAIN all = 1 .. Len(all)
      BY <2>1, LenProperties
    <2> QED
      BY <2>1, <2>2 DEF TextOnce
  <1> QED
    BY <1>1, SoundInvariant, PTL

(* An import starts no code that was started before. *)
LEMMA ImportStep ==
  ASSUME Sound, [Next]_vars, ~ UNCHANGED vars, outcome'.op = "import"
  PROVE  outcome'.code \cap started = {}
  <1>1. CASE \E n \in Name : ImportNew(n)
    <2> PICK n \in Name : ImportNew(n)
      BY <1>1
    <2>1. \A c \in CodeOf(Resolve(n)) : c[2] = Resolve(n)
      BY ResolveId, CodeOfId
    <2>2. Resolve(n) \notin known /\ outcome'.code = CodeOf(Resolve(n))
      BY DEF ImportNew, Quiet
    <2> QED
      BY <2>1, <2>2 DEF Sound, Modules
  <1>2. CASE ~ \E n \in Name : ImportNew(n)
    <2>1. outcome'.code = {}
      BY <1>2 DEF Next, vars, WriteFile, RemoveFile, Register, SetNextError, GetLastError,
                  CallMethod, Try, Return, Fail, Escape, RunFromSource, RunFromModule,
                  RunFromFile, Interpret, Refuse, Import, ImportKnown, ImportBroken,
                  ImportMissing, Abort, Throw, Done, Quiet
    <2> QED
      BY <2>1
  <1> QED
    BY <1>1, <1>2

(* An import runs no file or registered module that was started already.   *)
THEOREM CodeImportedOnce == Spec => ImportRunsOnce
  <1>1. Sound /\ [Next]_vars =>
          [outcome'.op = "import" => outcome'.code \cap started = {}]_vars
    BY ImportStep
  <1> QED
    BY <1>1, SoundInvariant, PTL DEF Spec, ImportRunsOnce
=============================================================================
