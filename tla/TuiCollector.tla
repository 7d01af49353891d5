---------------------------- MODULE TuiCollector ----------------------------
(***************************************************************************)
(* The terminal UI: the event loop with its keys, and the collector        *)
(* threads it kicks, which share SharedState's mutex and collector_flag.   *)
(* A collector captures the active source, the conditioning mode and the   *)
(* sources to record when it is kicked, and publishes much later.  Of what *)
(* it publishes the model keeps, for the Watched sources, the modes that   *)
(* do not belong: of the bytes in a random walk those conditioned in       *)
(* another mode than the one on screen, of the samples in a session those  *)
(* in another than its session.json names.  What a session makes of a      *)
(* sample is SessionWriter's.                                              *)
(***************************************************************************)
EXTENDS Integers, SequencesExt, FiniteSetsExt

CONSTANTS Categories,       \* the category keys, in display order
          SourcesOf,        \* the sources of each, in index order
          Watched,          \* the sources whose displays are followed
          MaxThreads        \* collector threads that may be alive at a time

Sources == UNION {Range(SourcesOf[Categories[i]]) : i \in DOMAIN Categories}

\* App::new makes a category of what has a source; make_pool exits without any.
ASSUME TuiAssumption ==
  /\ Categories \in Seq(DOMAIN SourcesOf) /\ Categories # << >>
  /\ \A c \in DOMAIN SourcesOf : SourcesOf[c] \in Seq(Nat) /\ SourcesOf[c] # << >>
  /\ Watched \subseteq Sources
  /\ MaxThreads \in Nat \ {0}

Modes == {"Sha256", "Raw", "VonNeumann"}
next_conditioning == [Sha256 |-> "Raw", Raw |-> "VonNeumann", VonNeumann |-> "Sha256"]

None == -1
NoJob == [pc |-> "none", name |-> None, mode |-> "none", todo |-> {}]
Jobs == [pc : {"none", "collect", "record", "exit"}, name : Sources \cup {None},
         mode : Modes \cup {"none"}, todo : SUBSET Sources]

\* A session: which Watched sources it declares, the conditioning session.json
\* will name ("any" once the user changes the mode while it records: then nothing
\* more is followed), and the modes other than that one of the samples it holds.
NoSession == [sources |-> {}, conditioning |-> "none", odd |-> {}]
Sessions == [sources : SUBSET Watched, conditioning : Modes \cup {"any", "none"},
             odd : SUBSET Modes]

VARIABLES cursor, active, selected, collapsed,      \* the source list
          show_help, running, paused,
          conditioning_mode, recording,
          collector_flag,                           \* the AtomicBool
          job,                                      \* the collector threads
          session_writer, walk                      \* SharedState

list   == <<cursor, active, selected, collapsed>>
modes  == <<show_help, running, paused, conditioning_mode, recording>>
thread == <<collector_flag, job>>
shared == <<session_writer, walk>>
vars == <<list, modes, thread, shared>>

Threads == 1 .. MaxThreads

TypeOK ==
  /\ cursor \in Nat /\ active \in Sources \cup {None} /\ selected \subseteq Sources
  /\ collapsed \subseteq Range(Categories)
  /\ show_help \in BOOLEAN /\ running \in BOOLEAN /\ paused \in BOOLEAN
  /\ conditioning_mode \in Modes /\ recording \in BOOLEAN
  /\ collector_flag \in BOOLEAN
  /\ job \in [Threads -> Jobs]
  /\ session_writer \in Sessions
  /\ walk \in [Watched -> SUBSET Modes]

---------------------------- (* the source list *) --------------------------

\* The rows on screen: a header per category, its sources unless collapsed.
Header(c) == [cat |-> c, source |-> None]
build_virtual_rows(C) ==
  FlattenSeq([i \in DOMAIN Categories |->
    LET c == Categories[i]
    IN <<Header(c)>> \o IF c \in C THEN << >>
                        ELSE [j \in DOMAIN SourcesOf[c] |->
                                [cat |-> c, source |-> SourcesOf[c][j]]]])

virtual_rows == build_virtual_rows(collapsed)
IsHeader(i) == virtual_rows[i].source = None
Headers == {i \in DOMAIN virtual_rows : IsHeader(i)}

Clamped(C) == Min({cursor, Max({1, Len(build_virtual_rows(C))})})

\* The program starts on the first source, if there is one.
Init ==
  LET rows == build_virtual_rows({})
      first == {i \in DOMAIN rows : rows[i].source # None}
  IN /\ cursor = IF first = {} THEN 1 ELSE Min(first)
     /\ active = IF first = {} THEN None ELSE rows[Min(first)].source
     /\ selected = {active} \ {None}
     /\ collapsed = {}
     /\ show_help = FALSE /\ running = TRUE /\ paused = FALSE
     /\ conditioning_mode = "Raw" /\ recording = FALSE
     /\ collector_flag = FALSE /\ job = [t \in Threads |-> NoJob]
     /\ session_writer = NoSession
     /\ walk = [s \in Watched |-> {}]

-------------------------- (* the collector thread *) -----------------------

Idle == {t \in Threads : job[t].pc = "none"}

\* kick_collect, with the active source, the mode and, while recording, the
\* other sources to record of this moment.
Kick(a, m, sel) ==
  IF collector_flag \/ a = None \/ Idle = {} THEN UNCHANGED thread
  ELSE /\ collector_flag' = TRUE
       /\ job' = [job EXCEPT ![Min(Idle)] =
                    [pc |-> "collect", name |-> a, mode |-> m,
                     todo |-> IF recording THEN sel \ {a} ELSE {}]]

Exiting == [NoJob EXCEPT !.pc = "exit"]

\* The raw bytes come (or none do); the bytes conditioned in the captured mode
\* are published, and whether a session is open is noted.
Published(t) ==
  /\ job[t].pc = "collect"
  /\ \E got \in SUBSET ({job[t].name} \cap Watched) :
       walk' = [s \in Watched |-> walk[s] \cup IF s \in got THEN {job[t].mode} \ {conditioning_mode} ELSE {}]
  /\ job' = [job EXCEPT ![t] = IF session_writer = NoSession THEN Exiting
                               ELSE [job[t] EXCEPT !.pc = "record",
                                       !.todo = job[t].todo \cup {job[t].name}]]
  /\ UNCHANGED <<list, modes, session_writer>>

PublishFrees(t) == Published(t) /\ collector_flag' = FALSE
Publish(t) == Published(t) /\ UNCHANGED collector_flag

\* The session takes a sample of a source it declares; any other is refused,
\* and the collector ignores the error.
write_sample(s, m) ==
  session_writer' =
    IF s \in session_writer.sources /\ session_writer.conditioning \notin {m, "any"}
    THEN [session_writer EXCEPT !.odd = session_writer.odd \cup {m}]
    ELSE session_writer

\* The active source comes first, then the others in index order.
NextToRecord(j) ==
  {s \in j.todo : s = j.name \/ (j.name \notin j.todo /\ \A r \in j.todo : s <= r)}

\* One more collection for a session, in the captured mode: it is written, if
\* bytes came, to the session that is open by then, which may be a later one.
RecordOne(t) ==
  /\ job[t].pc = "record"
  /\ \E s \in NextToRecord(job[t]) :
       /\ write_sample(s, job[t].mode) \/ UNCHANGED session_writer
       /\ job' = [job EXCEPT ![t] = IF job[t].todo = {s} THEN Exiting
                                    ELSE [job[t] EXCEPT !.todo = job[t].todo \ {s}]]
  /\ UNCHANGED <<list, modes, collector_flag, walk>>

\* A panic ends what the thread had left to do, not the thread.
Panics(t) ==
  /\ job[t].pc \in {"collect", "record"}
  /\ job' = [job EXCEPT ![t] = Exiting]
  /\ UNCHANGED <<list, modes, collector_flag, shared>>

ExitKeepsFlag(t) ==
  /\ job[t].pc = "exit"
  /\ job' = [job EXCEPT ![t] = NoJob]
  /\ UNCHANGED <<list, modes, collector_flag, shared>>

CollectorExits(t) ==
  /\ job[t].pc = "exit"
  /\ collector_flag' = FALSE
  /\ job' = [job EXCEPT ![t] = NoJob]
  /\ UNCHANGED <<list, modes, shared>>

-------------------------------- (* keys *) ---------------------------------

\* A key reaches handle_key's match unless the help is shown.
Key == running /\ ~show_help

DismissHelp ==
  /\ running /\ show_help /\ show_help' = FALSE
  /\ UNCHANGED <<list, running, paused, conditioning_mode, recording, thread, shared>>

ShowHelp ==
  /\ Key /\ show_help' = TRUE
  /\ UNCHANGED <<list, running, paused, conditioning_mode, recording, thread, shared>>

Pause ==
  /\ Key /\ paused' = ~paused
  /\ UNCHANGED <<list, show_help, running, conditioning_mode, recording, thread, shared>>

\* Up, down, and the jumps to the previous and the next header.
MoveCursor ==
  /\ Key
  /\ cursor' \in
       {Max({1, cursor - 1}),
        IF cursor < Len(virtual_rows) THEN cursor + 1 ELSE cursor,
        LET before == {i \in Headers : i < cursor}
        IN IF before = {} THEN cursor ELSE Max(before),
        LET after == {i \in Headers : i > cursor}
        IN IF after = {} THEN cursor ELSE Min(after)}
  /\ UNCHANGED <<active, selected, collapsed, modes, thread, shared>>

Collapse(C) == collapsed' = C /\ cursor' = Clamped(C)

ToggleCategory ==
  /\ Key /\ IsHeader(cursor)
  /\ LET c == virtual_rows[cursor].cat
     IN Collapse(IF c \in collapsed THEN collapsed \ {c} ELSE collapsed \cup {c})
  /\ UNCHANGED <<active, selected, modes, thread, shared>>

CollapseAll ==
  /\ Key
  /\ Collapse(IF collapsed = Range(Categories) THEN {} ELSE Range(Categories))
  /\ UNCHANGED <<active, selected, modes, thread, shared>>

DeselectOnly ==
  /\ Key /\ ~IsHeader(cursor)
  /\ virtual_rows[cursor].source \in selected
  /\ selected' = selected \ {virtual_rows[cursor].source}
  /\ UNCHANGED <<cursor, active, collapsed, modes, thread, shared>>

\* Taking the active source out moves on to the first one still selected.
Deselect ==
  /\ Key /\ ~IsHeader(cursor)
  /\ LET s == virtual_rows[cursor].source
     IN /\ s \in selected
        /\ selected' = selected \ {s}
        /\ active' = IF active # s THEN active
                     ELSE IF selected' = {} THEN None ELSE Min(selected')
  /\ UNCHANGED <<cursor, collapsed, modes, thread, shared>>

\* activate_source: a collection starts with it.
Select ==
  /\ Key /\ ~IsHeader(cursor)
  /\ LET s == virtual_rows[cursor].source
     IN /\ s \notin selected
        /\ selected' = selected \cup {s}
        /\ active' = s
        /\ Kick(s, conditioning_mode, selected')
  /\ UNCHANGED <<cursor, collapsed, modes, shared>>

\* A session open when the mode changes no longer has one conditioning.
Remixed(w) == IF w = NoSession THEN w ELSE [w EXCEPT !.conditioning = "any", !.odd = {}]

\* 'c': the walks start again too.
CycleKeepsWalk ==
  /\ Key
  /\ conditioning_mode' = next_conditioning[conditioning_mode]
  /\ session_writer' = Remixed(session_writer)
  /\ Kick(active, conditioning_mode', selected)
  /\ UNCHANGED <<list, show_help, running, paused, recording, walk>>
CycleConditioning ==
  /\ Key
  /\ conditioning_mode' = next_conditioning[conditioning_mode]
  /\ walk' = [s \in Watched |-> {}]
  /\ session_writer' = Remixed(session_writer)
  /\ Kick(active, conditioning_mode', selected)
  /\ UNCHANGED <<list, show_help, running, paused, recording>>

\* 'n', and 'm' once the mode of a configurable source is set.
CycleSizeOrMode ==
  /\ Key /\ active # None
  /\ Kick(active, conditioning_mode, selected)
  /\ UNCHANGED <<list, modes, shared>>

\* SessionWriter::new may fail; then nothing changes.
start_recording ==
  /\ Key /\ ~recording /\ selected # {}
  /\ session_writer' = [sources |-> selected \cap Watched, conditioning |-> conditioning_mode, odd |-> {}]
  /\ recording' = TRUE
  /\ UNCHANGED <<list, show_help, running, paused, conditioning_mode, thread, walk>>

\* The writer is taken out and finished, whatever finish() says.
stop_recording ==
  /\ recording' = FALSE
  /\ session_writer' = NoSession
  /\ UNCHANGED <<list, show_help, running, paused, conditioning_mode, thread, walk>>

StopRecording == Key /\ recording /\ stop_recording

Quit ==
  /\ Key /\ running' = FALSE
  /\ UNCHANGED <<list, show_help, paused, conditioning_mode, recording, thread, shared>>

\* After the loop a session still open is finished.
AfterQuit == ~running /\ recording /\ stop_recording

\* The refresh timer.
Tick ==
  /\ running /\ ~paused /\ ~collector_flag
  /\ active # None
  /\ Kick(active, conditioning_mode, selected)
  /\ UNCHANGED <<list, modes, shared>>

-----------------------------------------------------------------------------
Collector(t) == Publish(t) \/ RecordOne(t) \/ Panics(t) \/ CollectorExits(t)

Next ==
  \/ DismissHelp \/ ShowHelp \/ Pause \/ MoveCursor \/ ToggleCategory \/ CollapseAll
  \/ Deselect \/ Select \/ CycleConditioning \/ CycleSizeOrMode
  \/ start_recording \/ StopRecording \/ Quit \/ AfterQuit \/ Tick
  \/ \E t \in Threads : Collector(t)

Spec == Init /\ [][Next]_vars

\* The loop runs, the collector threads are scheduled, and the sources return:
\* get_source_raw_bytes has no deadline of its own.
Fairness ==
  /\ WF_vars(Tick) /\ WF_vars(AfterQuit)
  /\ \A t \in Threads : WF_vars(Collector(t))
FairSpec == Spec /\ Fairness

----------------------------- (* properties *) ------------------------------

\* However ticks, keys and the end of a collection interleave, one collector
\* runs at a time, so a slow source is never collected twice at once; and the
\* flag is up exactly while it runs, not left behind by one that panicked.
OneCollector ==
  /\ Cardinality(Threads \ Idle) <= 1
  /\ collector_flag <=> Idle # Threads

\* The source shown is always one of those selected, and one is shown as long
\* as one is selected: deselecting, selecting and collapsing keep the two apart
\* but in step.  Collapsing never leaves the cursor beyond the rows, where the
\* next key would index virtual_rows out of bounds.
SelectionOnScreen ==
  /\ IF selected = {} THEN active = None ELSE active \in selected
  /\ cursor \in DOMAIN virtual_rows

\* The mode may change and recording start, or stop and start again, while a
\* collector is still to write: its samples go to the new session in the mode it
\* captured.  But it is the only one: a session through which the mode is left
\* alone holds samples of at most one mode besides the one session.json names.
OneModeLeftOver == Cardinality(session_writer.odd) <= 1

\* "Reset random walks - walk shape depends on conditioning mode": a walk may
\* mix the bytes of two modes, when a collection was in flight as the mode
\* changed, but never those of more: it was reset, and there was only one.
WalkMixesOneInFlight == \A s \in Watched : Cardinality(walk[s]) <= 1

\* Collection goes on for ever while there is something to collect and nobody
\* pauses or quits, and each one makes way for the next: a panic or a cycle of
\* keys never leaves the display dead.  Quitting finishes the session still open,
\* and no later step of a collector or of a key opens one.
CollectionGoesOn ==
  /\ []<>(Idle # Threads \/ paused \/ ~running \/ active = None)
  /\ collector_flag ~> ~collector_flag
  /\ ~running ~> session_writer = NoSession
=============================================================================
