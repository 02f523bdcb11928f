------------------------------- MODULE Library ------------------------------
(***************************************************************************)
(* What people write beside the code for the agents to read: declarative   *)
(* agents (core/agents/discovery.py, loader.py, subagent_registry.py),     *)
(* skill packs (core/skills) and the project's memory (core/memory).  Each *)
(* is read through a cache keyed by the modification time of the file, and *)
(* the files are edited while a pass reads them; decisions.md is also      *)
(* appended to, by the command line and by requests in threads.            *)
(*                                                                         *)
(* A behaviour has the files of one kind.  A file is its version, the time *)
(* of its last edit and what its frontmatter makes of it.                  *)
(***************************************************************************)
EXTENDS Integers, Sequences, SequencesExt

CONSTANTS
    MaxFileEdits,   \* bound on edits
    MaxTicks,       \* bound on the clock
    Writers         \* callers of append_decision

VARIABLES
    kind,      \* agents, packs or memory
    file,      \* the files
    edited,    \* edits so far
    time,      \* the clock that stamps them
    cache,     \* the parsed files, by modification time
    pass,      \* the discovery under way
    registry,  \* the outcome of the last one
    decisions, \* the entries of decisions.md, newest first
    writer     \* the appends under way

libraryVars == <<kind, file, edited, time, cache, pass, registry, decisions, writer>>

\* The roots of a kind, in discovery order, each with its files in sorted order.
Roots == [agents |-> <<<<"b">>, <<"u1", "u2">>>>,
          packs  |-> <<<<"p">>, <<"q">>>>,
          memory |-> <<<<"decisions.md">>>>]
FilesOf(k) == LET R == Roots[k] IN IF Len(R) = 1 THEN R[1] ELSE R[1] \o R[2]
AgentNames == {"x", "y"}
NotCached == [mtime |-> -1, v |-> 0, name |-> "none"]
NotLoaded == [v |-> 0, name |-> "none"]
AtRestPass == [pc |-> "none", todo |-> << >>, mtime |-> -1, floor |-> << >>, got |-> << >>]
Fresh == [v |-> 1, mtime |-> 0, first |-> 1, name |-> "x", there |-> TRUE, ok |-> TRUE]

LibraryInit ==
    /\ kind \in DOMAIN Roots
    /\ LET F == ToSet(FilesOf(kind))
       IN  /\ file = [f \in F |-> Fresh]
           /\ cache = [f \in F |-> NotCached]
    /\ edited = 0
    /\ time = 0
    /\ pass = AtRestPass
    /\ registry = << >>
    /\ decisions = << >>
    /\ writer = [w \in Writers |-> [pc |-> "none", title |-> "none", read |-> << >>]]

-----------------------------------------------------------------------------
(* People edit, break, delete and restore a file.  Edits within a tick of  *)
(* the clock leave the same modification time.                             *)

Replace(f, name, there, ok) ==
    LET v == file[f].v + 1
    IN  /\ edited < MaxFileEdits /\ edited' = edited + 1
        /\ file' = [file EXCEPT ![f] = [v |-> v, mtime |-> time,
                                        first |-> IF file[f].mtime = time THEN file[f].first ELSE v,
                                        name |-> name, there |-> there, ok |-> ok]]

EditFile(f) ==
    /\ f # "b"   \* built in
    /\ \/ \E name \in AgentNames : Replace(f, name, TRUE, TRUE)
       \/ \E there \in BOOLEAN : Replace(f, "x", there, FALSE)
    /\ UNCHANGED <<kind, time, cache, pass, registry, decisions, writer>>

TimePasses ==
    /\ time < MaxTicks
    /\ time' = time + 1
    /\ UNCHANGED <<kind, file, edited, cache, pass, registry, decisions, writer>>

-----------------------------------------------------------------------------
(* A pass: each file is stated, and read when its time is not the cached   *)
(* one.                                                                    *)

Current == Head(pass.todo)
Loaded(entry) ==
    pass' = [pass EXCEPT !.pc = "stat", !.todo = Tail(@), !.got = Append(@, entry)]

_parse_root ==
    /\ pass.pc = "none"
    /\ pass' = [AtRestPass EXCEPT !.pc = "stat", !.todo = FilesOf(kind),
                                  !.floor = [f \in DOMAIN file |-> file[f].first]]
    /\ UNCHANGED <<kind, file, edited, time, cache, registry, decisions, writer>>

\* _parse_cached, _load_cached and _load, up to the read.
_parse_cached ==
    /\ pass.pc = "stat" /\ pass.todo # << >>
    /\ LET f == Current
           hit == cache[f].mtime = file[f].mtime
       IN  \/ /\ ~file[f].there
              /\ cache' = [cache EXCEPT ![f] = NotCached] /\ Loaded(NotLoaded)
           \/ /\ file[f].there /\ hit
              /\ Loaded([v |-> cache[f].v, name |-> cache[f].name]) /\ UNCHANGED cache
           \/ /\ file[f].there /\ ~hit
              /\ pass' = [pass EXCEPT !.pc = "read", !.mtime = file[f].mtime]
              /\ UNCHANGED cache
    /\ UNCHANGED <<kind, file, edited, time, registry, decisions, writer>>

\* load_agent_file and load_skill_pack refuse a file that is too large, not UTF-8
\* or without its frontmatter; the entry is dropped and the file skipped.
CanLoad(f) == file[f].there /\ file[f].ok
\* Mutant: the time that the entry is stored under is read after the file.
load_agent_file_then_stat ==
    /\ pass.pc = "read"
    /\ LET f == Current
       IN  \/ /\ CanLoad(f) /\ pass.mtime >= 0
              /\ pass' = [pass EXCEPT !.mtime = -2 - file[f].v] /\ UNCHANGED cache
           \/ /\ pass.mtime < -1
              /\ LET v == -2 - pass.mtime
                 IN  /\ cache' = [cache EXCEPT ![f] = [mtime |-> file[f].mtime, v |-> v,
                                                       name |-> file[f].name]]
                     /\ Loaded([v |-> file[f].v, name |-> file[f].name])
           \/ /\ ~CanLoad(f) /\ pass.mtime >= 0
              /\ cache' = [cache EXCEPT ![f] = NotCached] /\ Loaded(NotLoaded)
    /\ UNCHANGED <<kind, file, edited, time, registry, decisions, writer>>
load_agent_file ==
    /\ pass.pc = "read"
    /\ LET f == Current
       IN  \/ /\ CanLoad(f)
              /\ cache' = [cache EXCEPT ![f] = [mtime |-> pass.mtime, v |-> file[f].v,
                                                name |-> file[f].name]]
              /\ Loaded([v |-> file[f].v, name |-> file[f].name])
           \/ /\ ~CanLoad(f)
              /\ cache' = [cache EXCEPT ![f] = NotCached] /\ Loaded(NotLoaded)
    /\ UNCHANGED <<kind, file, edited, time, registry, decisions, writer>>

-----------------------------------------------------------------------------
(* The registries.                                                         *)

Taken(f) == pass.got[CHOOSE i \in DOMAIN pass.got : FilesOf(kind)[i] = f]
Loads(root, n) == {f \in ToSet(root) : Taken(f).v > 0 /\ Taken(f).name = n}

\* A name that two files of one root claim fails the whole registry; otherwise a
\* later root overrides an earlier one.
register_files ==
    IF \E r \in ToSet(Roots[kind]), n \in AgentNames : \E f, g \in Loads(r, n) : f # g
    THEN [n \in AgentNames |-> "ValueError"]
    ELSE [n \in AgentNames |->
            LET R == {i \in DOMAIN Roots[kind] : Loads(Roots[kind][i], n) # {}}
            IN  IF R = {} THEN "none"
                ELSE CHOOSE f \in Loads(Roots[kind][CHOOSE i \in R : \A j \in R : i >= j], n) : TRUE]

\* The first root that has a pack of the name wins.
discover ==
    [n \in AgentNames |->
        LET R == {i \in DOMAIN Roots[kind] : Loads(Roots[kind][i], n) # {}}
        IN  IF R = {} THEN "none"
            ELSE CHOOSE f \in Loads(Roots[kind][CHOOSE i \in R : \A j \in R : i <= j], n) : TRUE]

build_registry ==
    /\ pass.pc = "stat" /\ pass.todo = << >>
    /\ registry' = CASE kind = "agents" -> register_files
                     [] kind = "packs"  -> discover
                     [] kind = "memory" -> << >>
    /\ pass' = AtRestPass
    /\ UNCHANGED <<kind, file, edited, time, cache, decisions, writer>>

-----------------------------------------------------------------------------
(* append_decision: the file is read, and replaced as a whole.             *)

Titles == {"t1", "t2"}
_has_entry(entries, title) == title \in ToSet(entries)

append_decision(w, title) ==
    /\ kind = "memory" /\ writer[w].pc = "none"
    /\ ~_has_entry(decisions, title)
    /\ writer' = [writer EXCEPT ![w] = [pc |-> "write", title |-> title, read |-> decisions]]
    /\ UNCHANGED <<kind, file, edited, time, cache, pass, registry, decisions>>

\* A temporary file that os.replace puts in place; the loader forgets the file.
_atomic_write(w) ==
    /\ writer[w].pc = "write"
    /\ decisions' = <<writer[w].title>> \o writer[w].read
    /\ Replace("decisions.md", "x", TRUE, TRUE)
    /\ cache' = [cache EXCEPT !["decisions.md"] = NotCached]
    /\ writer' = [writer EXCEPT ![w].pc = "done"]
    /\ UNCHANGED <<kind, time, pass, registry>>

\* The process dies, or the disk is full: the file stays as it was.
WriteFails(w) ==
    /\ writer[w].pc = "write"
    /\ writer' = [writer EXCEPT ![w].pc = "failed"]
    /\ UNCHANGED <<kind, file, edited, time, cache, pass, registry, decisions>>

LibraryNext ==
    \/ TimePasses \/ _parse_root \/ _parse_cached \/ load_agent_file \/ build_registry
    \/ \E f \in DOMAIN file : EditFile(f)
    \/ \E w \in Writers :
          \/ _atomic_write(w) \/ WriteFails(w)
          \/ \E title \in Titles : append_decision(w, title)
LibrarySpec == LibraryInit /\ [][LibraryNext]_libraryVars

-----------------------------------------------------------------------------
\* A pass never takes a file as it was before the edits that its modification
\* time shows, however edits and earlier passes fall between the stat and the
\* read of a file.
FreshLoads ==
    pass.pc # "none" => \A i \in DOMAIN pass.got :
        pass.got[i].v > 0 => pass.got[i].v >= pass.floor[FilesOf(kind)[i]]

\* "appends an immutable, dated record of a decision": a written entry stays.
DecisionsKept ==
    \A w \in Writers : writer[w].pc = "done" => _has_entry(decisions, writer[w].title)
=============================================================================
