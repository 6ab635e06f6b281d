-------------------------------- MODULE Log ---------------------------------
(***************************************************************************)
(* core/src/log.cpp: settings of the application behind one mutex, and log *)
(* objects that read them once, gather the text of messages and write it   *)
(* to the console and to a file when they are flushed or destroyed.  Every *)
(* thread has objects of its own, one after the other; a message is one    *)
(* text.                                                                   *)
(***************************************************************************)
EXTENDS Integers, SequencesExt

CONSTANTS
    Threads,        \* threads that log
    Main,           \* the thread that the numbers of threads begin with
    Severities,     \* severities of messages, as integers
    ErrorLevel,     \* severity_t::error: what goes to std::cerr
    Kept,           \* 1000 in get_tread_id()
    MaxMessages,    \* bound: messages of all threads
    MaxChanges      \* bound: changes of the settings

VARIABLES
    settings,   \* [severity, targets, path]: g_severity, g_targets, g_file_path
    known,      \* g_thread_ids
    renewed,    \* history: how often the numbers were given out anew
    log,        \* per thread: its log object, see NoLog
    step,       \* per thread: what it does next with it
    lines,      \* per thread, history: the lines it wrote, with what was known of them
    said,       \* per thread, history: its messages
    changes     \* changes of the settings so far

vars == <<settings, known, renewed, log, step, lines, said, changes>>

Targets == {"console", "file"}
Paths == {"none", "here"}

\* base_impl: the settings it read, the last severity, and the text of each target;
\* mixed and late are history: the settings changed while it read them, and a message
\* came before the one before it was flushed.
NoLog ==
    [severity |-> 0, targets |-> {}, path |-> "none", last |-> 0,
     text |-> [g \in Targets |-> <<>>], mixed |-> FALSE, late |-> FALSE]

Init ==
    /\ settings = [severity |-> 1, targets |-> {"console"}, path |-> "none"]
    /\ known = <<Main>>
    /\ renewed = 0
    /\ log = [t \in Threads |-> NoLog]
    /\ step = [t \in Threads |-> "none"]
    /\ lines = [t \in Threads |-> <<>>]
    /\ said = [t \in Threads |-> <<>>]
    /\ changes = 0

-----------------------------------------------------------------------------
(* Settings *)

\* An object that has read its targets has not read its path yet.
Change(new) ==
    /\ changes < MaxChanges
    /\ new # settings
    /\ settings' = new
    /\ changes' = changes + 1
    /\ log' = [t \in Threads |->
                [log[t] EXCEPT !.mixed = @ \/ (step[t] = "path" /\ new.path # settings.path)]]
    /\ UNCHANGED <<known, renewed, step, lines, said>>

SetSeverity(level) == Change([settings EXCEPT !.severity = level])

\* targets(): the targets and the path in one.
SetTargets(targets, path) ==
    Change([settings EXCEPT !.targets = targets, !.path = path])

-----------------------------------------------------------------------------
(* Log objects *)

\* base_impl(): the settings are read one by one, each under the mutex.
ReadSeverity(t) ==
    /\ step[t] = "none"
    /\ log' = [log EXCEPT ![t] = [NoLog EXCEPT !.severity = settings.severity]]
    /\ step' = [step EXCEPT ![t] = "targets"]
    /\ UNCHANGED <<settings, known, renewed, lines, said, changes>>

ReadTargets(t) ==
    /\ step[t] = "targets"
    /\ log' = [log EXCEPT ![t].targets = settings.targets]
    /\ step' = [step EXCEPT ![t] = "path"]
    /\ UNCHANGED <<settings, known, renewed, lines, said, changes>>

ReadPath(t) ==
    /\ step[t] = "path"
    /\ log' = [log EXCEPT ![t].path = settings.path]
    /\ step' = [step EXCEPT ![t] = "open"]
    /\ UNCHANGED <<settings, known, renewed, lines, said, changes>>

\* trace() to fatal(), and the message: the severity stays with the object, also when
\* the message is not taken.
Say(t, severity) ==
    LET l == log[t]
        into == IF l.severity <= severity THEN l.targets ELSE {}
        message == [severity |-> severity, n |-> Len(said[t]) + 1, into |-> into, path |-> l.path]
    IN /\ step[t] = "open"
       /\ FoldFunction(LAMBDA ms, n : n + Len(ms), 0, said) < MaxMessages
       /\ log' = [log EXCEPT ![t] =
                    [l EXCEPT !.last = severity,
                              !.late = @ \/ \E g \in Targets : l.text[g] # <<>>,
                              !.text = [g \in Targets |->
                                            IF g \in into THEN Append(@[g], message) ELSE @[g]]]]
       /\ said' = [said EXCEPT ![t] = Append(@, message)]
       /\ UNCHANGED <<settings, known, renewed, step, lines, changes>>

-----------------------------------------------------------------------------
(* Numbers of threads *)

\* get_tread_id(): a thread that is not known gets the number after the last one, and
\* the last one when it is looked up again.  After Kept threads all but the first are
\* forgotten.
Remembered(t) ==
    IF Contains(known, t) THEN known
    ELSE IF Len(known) > Kept THEN <<known[1], t>>
    ELSE Append(known, t)

Number(t) ==
    IF Contains(known, t) THEN CHOOSE i \in 0..(Len(known) - 1) : known[i + 1] = t
    ELSE Len(Remembered(t))

-----------------------------------------------------------------------------
(* Flushes *)

\* format() and the text of a target, in one line, under the mutex of the console or
\* in one write to the file; a file that was not opened gets nothing.
WriteLine(t, g) ==
    LET l == log[t]
        line == [target |-> g, err |-> g = "console" /\ l.last >= ErrorLevel,
                 severity |-> l.last, number |-> Number(t), first |-> ~Contains(known, t),
                 renewed |-> IF IsPrefix(known, Remembered(t)) THEN renewed ELSE renewed + 1,
                 texts |-> l.text[g], late |-> l.late]
    IN IF l.text[g] = <<>> \/ (g = "file" /\ l.path = "none")
       THEN UNCHANGED <<lines, known, renewed>>
       ELSE /\ lines' = [lines EXCEPT ![t] = Append(@, line)]
            /\ known' = Remembered(t)
            /\ renewed' = line.renewed

(* Faulty variants of the definitions below, used to test the properties *)

\* What was written stays in the text.
FlushConsoleKeeps(t, next) ==
    /\ step[t] = "open"
    /\ WriteLine(t, "console")
    /\ step' = [step EXCEPT ![t] = next]
    /\ UNCHANGED <<settings, log, said, changes>>

(* The definitions themselves *)

\* sync() of the tee goes to the console and then to the file, and so does what
\* destroys the object.
FlushConsole(t, next) ==
    /\ step[t] = "open"
    /\ WriteLine(t, "console")
    /\ log' = [log EXCEPT ![t].text["console"] = <<>>]
    /\ step' = [step EXCEPT ![t] = next]
    /\ UNCHANGED <<settings, said, changes>>

FlushFile(t) ==
    /\ step[t] \in {"sync", "destroy"}
    /\ WriteLine(t, "file")
    /\ step' = [step EXCEPT ![t] = IF step[t] = "sync" THEN "open" ELSE "none"]
    /\ log' = [log EXCEPT ![t] =
                IF step[t] = "sync" THEN [@ EXCEPT !.text["file"] = <<>>, !.late = FALSE] ELSE NoLog]
    /\ UNCHANGED <<settings, said, changes>>

Next ==
    \/ \E level \in Severities : SetSeverity(level)
    \/ SetTargets({"console"}, "none") \/ SetTargets(Targets, "here")
    \/ \E t \in Threads :
        \/ ReadSeverity(t) \/ ReadTargets(t) \/ ReadPath(t)
        \/ \E severity \in Severities : Say(t, severity)
        \/ \E next \in {"sync", "destroy"} : FlushConsole(t, next)
        \/ FlushFile(t)

Spec == Init /\ [][Next]_vars

-----------------------------------------------------------------------------
(* Properties *)

Written(t, g) ==
    FoldLeft(LAMBDA ms, l : IF l.target = g THEN ms \o l.texts ELSE ms, <<>>, lines[t])

\* Every message a thread's objects take comes out once and in order on each target,
\* or still waits in the object; a file that is asked for is there, unless the
\* settings changed while the object read them.  A line bears the severity of its
\* message, unless that was not flushed before the next one.  Among the lines of one
\* numbering, but for the first of a thread, a number tells the thread.
Logged ==
    /\ \A t \in Threads :
        /\ Written(t, "console") \o log[t].text["console"]
            = SelectSeq(said[t], LAMBDA m : "console" \in m.into)
        /\ step[t] \in {"open", "sync", "destroy"} /\ "file" \in log[t].targets /\ ~log[t].mixed
            => log[t].path = "here"
        /\ IsPrefix(Written(t, "file"), SelectSeq(said[t], LAMBDA m : "file" \in m.into /\ m.path = "here"))
        /\ step[t] = "none" =>
            Written(t, "file") = SelectSeq(said[t], LAMBDA m : "file" \in m.into /\ m.path = "here")
        /\ \A l \in ToSet(lines[t]) : \A m \in ToSet(l.texts) :
            ~l.late => m.severity = l.severity
    /\ \A t, u \in Threads : \A k \in ToSet(lines[t]), l \in ToSet(lines[u]) :
        (k.renewed = l.renewed /\ ~k.first /\ ~l.first) => (t = u <=> k.number = l.number)
=============================================================================
