----------------------------- MODULE Dispatcher ------------------------------
(***************************************************************************)
(* The dispatcher (ducq_dispatcher.c): the commands it has loaded from     *)
(* shared objects and from the Lua scripts of the folders added to it, the *)
(* inotify events by which it follows the scripts, and the Lua stack that  *)
(* finds and runs a command.                                               *)
(*                                                                         *)
(* It runs in the reactor's only thread; other processes write the files   *)
(* meanwhile, between any two system calls.  A script defines one command. *)
(* Extensions are folders; the watch descriptor of one is the folder.      *)
(***************************************************************************)
EXTENDS Naturals, Sequences, SequencesExt, FiniteSetsExt

CONSTANTS Scripts,         \* the files: <<folder, name>>
          Installed,       \* the scripts that are there to begin with
          Becomes,         \* [Scripts -> what a new version of it may do]
          CommandOf,       \* [Scripts -> the command it defines]
          Objects,         \* the commands that have a shared object
          NoWd,            \* -1
          Lscmd, Missing,  \* "lscmd", and a name nobody defines
          MAX_EXTENSIONS,
          LUA_MINSTACK,    \* the values a Lua stack has room for unasked
          QueueMax,        \* fs.inotify.max_queued_events
          MaxSteps         \* bound: changes of the files, and requests

Folders == {s[1] : s \in Scripts}
Asked   == {CommandOf[s] : s \in Scripts} \cup Objects \cup {Lscmd, Missing}

\* What a script does when it is run: it defines its command, or one without
\* exec, or it overwrites the table of commands, or it fails.
Contents == {"exec", "noexec", "wrecks", "fails"}

ASSUME DispatcherAssumption ==
  /\ \A s \in Scripts : s = <<s[1], s[2]>>
  /\ NoWd \notin Folders /\ Installed \subseteq Scripts
  /\ IsFiniteSet(Objects)
  /\ Missing \notin Objects /\ \A s \in Scripts : CommandOf[s] \notin {Lscmd, Missing}
  /\ MAX_EXTENSIONS \in Nat \ {0} /\ LUA_MINSTACK \in Nat /\ QueueMax \in Nat \ {0}
  /\ \A s \in Scripts : Becomes[s] \subseteq Contents
  /\ MaxSteps \in Nat

\* A file while it is written can be anything, also a script that runs.
Files   == [ver : Nat, content : Contents \cup {"absent", "partial"}]
Events  == [wd : Folders \cup {NoWd}, name : {s[2] : s \in Scripts} \cup {NoWd}]
Event(s) == [wd |-> s[1], name |-> s[2]]
Overflow == [wd |-> NoWd, name |-> NoWd]

\* Lua values
Nil == [is |-> "nil"]
Message == [is |-> "message"]
Commands == [is |-> "commands"]                    \* the global table
Table(e) == [is |-> "table", entry |-> e]          \* commands[name] ...
Exec(e)  == [is |-> "function", entry |-> e]       \* ... and its exec

VARIABLES
  pc,         \* "new", "counted", "idle", "added", "scanning", "handling";
              \* "crashed" and "undefined" are the end
  objects,    \* the shared objects that the next pass over them can meet
  room,       \* the entries malloc() has made room for
  cmds,       \* dispatcher->cmds
  files,      \* files[s]: what is on disk
  nsteps,     \* changes and requests so far
  watched,    \* folders that have a watch
  queue,      \* inotify events not read
  extensions, \* dispatcher->extensions[i].wd, and its path
  scan,       \* scripts that ducq_dispatcher_add has still to load
  events,     \* events that accept_notify has still to handle
  commands,   \* the Lua table: command -> entry; NoWd once overwritten
  stack,      \* the Lua stack
  lookups,    \* history: the requests that have pushed on the Lua stack
  read,       \* history: read[s], the version that was last loaded
  skipped,    \* history: scripts left out of a scan that failed
  lost        \* history: the queue has overflowed

disk == <<files, nsteps, objects, lost>>
boot == <<room, cmds>>
lua  == <<commands, stack, lookups, read>>
vars == <<pc, boot, disk, watched, queue, extensions, scan, events, lua, skipped>>

Free == [wd |-> NoWd, path |-> NoWd]

\* more than the versions a script can have, of two for each change
Never == 2 * MaxSteps + 1

\* ducq_dispatcher_new
Init ==
  /\ pc = "new"
  /\ objects \in SUBSET Objects /\ room = 0 /\ cmds = <<>>
  /\ files = [s \in Scripts |->
                [ver |-> 0, content |-> IF s \in Installed THEN "exec" ELSE "absent"]]
  /\ nsteps = 0
  /\ watched = {} /\ queue = <<>>
  /\ extensions = [i \in 1..MAX_EXTENSIONS |-> Free]
  /\ scan = {} /\ events = <<>>
  /\ commands = [c \in {} |-> c] /\ stack = <<>> /\ lookups = 0
  /\ read = [s \in Scripts |-> Never] /\ skipped = {} /\ lost = FALSE

-----------------------------------------------------------------------------
\* Other processes

\* An event like the last in the queue is merged with it; when the queue is full
\* there is one that says so.
Notify(s) ==
  IF s[1] \notin watched \/ (queue # <<>> /\ Last(queue) = Event(s)) THEN UNCHANGED <<queue, lost>>
  ELSE IF Len(queue) < QueueMax THEN queue' = Append(queue, Event(s)) /\ UNCHANGED lost
  ELSE /\ queue' = IF Last(queue) = Overflow THEN queue ELSE Append(queue, Overflow)
       /\ lost' = TRUE

\* What happens before the commands are loaded is in Init.
Booted == pc \notin {"new", "counted", "crashed", "undefined"}

Changes(s, content) ==
  /\ Booted
  /\ files' = [files EXCEPT ![s] = [ver |-> @.ver + 1, content |-> content]]
  /\ UNCHANGED <<pc, boot, objects, watched, extensions, scan, events, lua, skipped>>

Counted == nsteps < MaxSteps /\ nsteps' = nsteps + 1

\* open(2) for writing, and close(2)
OpenScript(s) ==
  /\ Counted /\ files[s].content # "partial"
  /\ Changes(s, "partial") /\ UNCHANGED <<queue, lost>>

CloseScript(s, content) ==
  /\ files[s].content = "partial"
  /\ Changes(s, content) /\ Notify(s) /\ UNCHANGED nsteps

\* rename(2) of a new version over the old, and unlink(2)
MoveScript(s, content) ==
  Counted /\ files[s].content # "partial" /\ Changes(s, content) /\ Notify(s)

RemoveScript(s) ==
  /\ Counted /\ files[s].content \notin {"partial", "absent"}
  /\ Changes(s, "absent") /\ UNCHANGED <<queue, lost>>

InstallObject(o) ==
  /\ pc = "counted" /\ o \notin objects \cup Range(cmds) /\ Counted
  /\ objects' = objects \cup {o}
  /\ UNCHANGED <<pc, boot, files, lost, watched, queue, extensions, scan, events, lua, skipped>>

-----------------------------------------------------------------------------
\* ducq_dispatcher_load_commands_path

\* The first pass counts the shared objects.  A name without a dot crashes it.
CountCommands ==
  /\ pc = "new"
  /\ room' = Cardinality(objects)
  /\ \E plainName \in BOOLEAN : pc' = IF plainName THEN "crashed" ELSE "counted"
  /\ UNCHANGED <<cmds, disk, watched, queue, extensions, scan, events, lua, skipped>>

\* Mutant: the second pass does not look at the room.
LoadCommandOfAny(o) ==
  /\ pc = "counted"
  /\ o \in objects /\ objects' = objects \ {o}
  /\ cmds' \in {Append(cmds, o), cmds}
  /\ UNCHANGED <<pc, room, files, nsteps, lost, watched, queue, extensions, scan, events,
                 lua, skipped>>

\* The second pass loads them in any order, as long as there is room; dlopen() or
\* dlsym() may fail.
LoadCommand(o) ==
  /\ pc = "counted" /\ Len(cmds) < room
  /\ o \in objects /\ objects' = objects \ {o}
  /\ cmds' \in {Append(cmds, o), cmds}
  /\ UNCHANGED <<pc, room, files, nsteps, lost, watched, queue, extensions, scan, events,
                 lua, skipped>>

CommandsLoaded ==
  /\ pc = "counted" /\ (objects = {} \/ Len(cmds) = room)
  /\ pc' = "idle" /\ objects' = {}
  /\ UNCHANGED <<boot, files, nsteps, lost, watched, queue, extensions, scan, events, lua,
                 skipped>>

-----------------------------------------------------------------------------
\* The Lua stack.  Nothing asks for more room than it has to begin with: what a
\* push beyond it does is undefined.
Fits(n) == Len(stack) + n <= LUA_MINSTACK

Overruns(n) == ~Fits(n) /\ pc' = "undefined" /\ UNCHANGED lua

\* _load_lua_file

\* Mutant: the error message stays on the stack.
AfterErrorLeft(st) == Append(st, Message)

\* the message is logged and popped
AfterError(st) == Front(Append(st, Message))

LoadFails == stack' = AfterError(stack) /\ UNCHANGED commands

\* luaL_loadfile has two values on the stack, the name and the function.
LoadPushes == 2

\* Running the script s as it is now; whether it succeeds.
Loads(s, ok) ==
  /\ Fits(LoadPushes) /\ UNCHANGED lookups
  /\ read' = [read EXCEPT ![s] = files[s].ver]
  /\ LET content == files[s].content
         entry   == [script |-> s, ver |-> files[s].ver, exec |-> content # "noexec"]
     IN  \/ /\ ok /\ content \in {"exec", "noexec", "partial"} /\ commands # NoWd
            /\ commands' = [c \in DOMAIN commands \cup {CommandOf[s]} |->
                              IF c = CommandOf[s] THEN entry ELSE commands[c]]
            /\ UNCHANGED stack
         \/ /\ ok /\ content = "wrecks"
            /\ commands' = NoWd
            /\ UNCHANGED stack
         \/ /\ ~ok /\ \/ content \in {"fails", "partial", "absent"}
                      \/ commands = NoWd /\ content # "wrecks"
            /\ LoadFails

-----------------------------------------------------------------------------
\* ducq_dispatcher_add: a slot (there may be none: DUCQ_EMAX), the watch, and
\* then the scripts that are in the folder, until one fails.
Add(f) ==
  /\ pc = "idle"
  /\ \E i \in 1..MAX_EXTENSIONS :
       /\ extensions[i].wd = NoWd
       /\ \A j \in 1..(i - 1) : extensions[j].wd # NoWd
       /\ extensions' = [extensions EXCEPT ![i] = [wd |-> f, path |-> f]]
  /\ watched' = watched \cup {f}
  /\ pc' = "added"
  /\ scan' = {s \in Scripts : s[1] = f}
  /\ UNCHANGED <<boot, disk, queue, events, lua, skipped>>

\* stat() and opendir(); one that fails keeps the slot and the watch.
OpenDir ==
  /\ pc = "added"
  /\ \/ /\ scan' = {s \in scan : files[s].content # "absent"}
        /\ pc' = "scanning" /\ UNCHANGED skipped
     \/ /\ scan' = {} /\ pc' = "idle"
        /\ skipped' = skipped \cup scan
  /\ UNCHANGED <<boot, disk, watched, queue, extensions, events, lua>>

LoadNext(s) ==
  /\ pc = "scanning" /\ s \in scan
  /\ \/ /\ Loads(s, TRUE)
        /\ scan' = scan \ {s} /\ UNCHANGED <<pc, skipped>>
     \/ /\ Loads(s, FALSE)
        /\ scan' = {} /\ pc' = "idle"
        /\ skipped' = skipped \cup (scan \ {s})
     \/ Overruns(LoadPushes) /\ UNCHANGED <<scan, skipped>>
  /\ UNCHANGED <<boot, disk, watched, queue, extensions, events>>

ScanEnds ==
  /\ pc = "scanning" /\ scan = {}
  /\ pc' = "idle"
  /\ UNCHANGED <<boot, disk, watched, queue, extensions, scan, events, lua, skipped>>

-----------------------------------------------------------------------------
\* ducq_dispatcher_accept_notify: as many events as the buffer takes
ReadEvents ==
  /\ pc = "idle" /\ queue # <<>>
  /\ \E n \in 1..Len(queue) :
       events' = SubSeq(queue, 1, n) /\ queue' = SubSeq(queue, n + 1, Len(queue))
  /\ pc' = "handling"
  /\ UNCHANGED <<boot, disk, watched, extensions, scan, lua, skipped>>

SlotsOf(wd) == {i \in 1..MAX_EXTENSIONS : extensions[i].wd = wd}

\* Mutant: a script that fails ends the handler.
AfterEventChecked(ok) == IF ok THEN Tail(events) ELSE <<>>

\* the next event, whatever became of this one
AfterEvent(ok) == Tail(events)

\* An overflow finds a free slot and loads nothing.  An event without a slot
\* ends the handler, and the events behind it are lost.
HandleEvent ==
  /\ pc = "handling" /\ events # <<>>
  /\ LET ev == Head(events)
     IN  \/ SlotsOf(ev.wd) = {} /\ events' = <<>> /\ UNCHANGED <<pc, lua>>
         \/ /\ SlotsOf(ev.wd) # {} /\ ev = Overflow
            /\ events' = Tail(events) /\ UNCHANGED <<pc, lua>>
         \/ /\ SlotsOf(ev.wd) # {} /\ ev # Overflow
            /\ \E ok \in BOOLEAN :
                 /\ Loads(<<extensions[Min(SlotsOf(ev.wd))].path, ev.name>>, ok)
                 /\ events' = AfterEvent(ok)
            /\ UNCHANGED pc
         \/ /\ SlotsOf(ev.wd) # {} /\ ev # Overflow
            /\ Overruns(LoadPushes) /\ UNCHANGED events
  /\ UNCHANGED <<boot, disk, watched, queue, extensions, scan, skipped>>

EventsHandled ==
  /\ pc = "handling" /\ events = <<>>
  /\ pc' = "idle"
  /\ UNCHANGED <<boot, disk, watched, queue, extensions, scan, events, lua, skipped>>

-----------------------------------------------------------------------------
\* ducq_dispatch

\* lua_gettable(L, i): a table's field
Field(t, name) ==
  IF t = Commands
  THEN IF name \in DOMAIN commands THEN Table(commands[name]) ELSE Nil
  ELSE IF t.is = "table" /\ t.entry.exec THEN Exec(t.entry) ELSE Nil

\* Mutant: the tables are looked for from the bottom of the stack.
FindFromBottom(st, name) ==
  IF commands = NoWd THEN Append(st, Nil)
  ELSE LET st1 == Append(st, Commands)
           st2 == Append(st1, Field(st1[1], name))
       IN  IF Last(st2) = Nil THEN st2 ELSE Append(st2, Field(st2[2], "exec"))

\* _find_lua_command: what the stack has become; a function is found when it is
\* on top
_find_lua_command(st, name) ==
  IF commands = NoWd THEN Append(st, Nil)
  ELSE LET st1 == Append(st, Commands)
           st2 == Append(st1, Field(Last(st1), name))
       IN  IF Last(st2) = Nil THEN st2 ELSE Append(st2, Field(Last(st2), "exec"))

\* ducq_push_ducq and ducq_push_msg: one value each, and one more while it is made
Arguments == <<Nil, Nil>>

\* lua_command: the two arguments, lua_pcall, and one lua_pop for its result
lua_command(st) ==
  LET called == SubSeq(st \o Arguments, 1, Len(st) - 1)
  IN  Front(Append(called, Nil))

\* the most that a request of a Lua command has on top of what was there
LookupPushes(found) ==
  Len(found) - Len(stack) + (IF Last(found).is = "function" THEN Len(Arguments) + 1 ELSE 0)

\* What _find_command finds for a name, and whether it can be run
Runs(name) ==
  IF name = Lscmd THEN [is |-> "lscmd"]
  ELSE IF name \in Range(cmds) THEN [is |-> "native"]
  ELSE LET found == _find_lua_command(stack, name)
       IN  IF ~Fits(LookupPushes(found)) THEN [is |-> "undefined"]
           ELSE IF Last(found).is = "function" THEN Last(found)
           ELSE [is |-> "unknown"]

Looked == lookups' = lookups + 1 /\ UNCHANGED <<pc, commands, read>>

\* the table; a key; its value and its doc
ListingPushes == IF commands = NoWd THEN 1 ELSE IF DOMAIN commands = {} THEN 2 ELSE 4

\* lscmd leaves the table, or all it has on the stack where a send fails; one
\* that fails before leaves nothing.
lscmd ==
  \/ UNCHANGED <<pc, lua>>
  \/ Overruns(ListingPushes)
  \/ /\ Fits(ListingPushes) /\ Looked
     /\ \/ commands = NoWd /\ stack' = Append(stack, Nil)
        \/ commands # NoWd /\ stack' = Append(stack, Commands)
        \/ /\ commands # NoWd
           /\ \E c \in DOMAIN commands :
                stack' = stack \o <<Commands, Message, Table(commands[c]), Message>>

ducq_dispatch(name) ==
  /\ pc = "idle" /\ Counted
  /\ LET found == _find_lua_command(stack, name)
     IN  \/ Runs(name).is = "lscmd"     /\ lscmd
         \/ Runs(name).is = "native"    /\ UNCHANGED <<pc, lua>>
         \/ Runs(name).is = "unknown"   /\ stack' = found /\ Looked
         \/ Runs(name).is = "function"  /\ stack' = lua_command(found) /\ Looked
         \/ Runs(name).is = "undefined" /\ Overruns(LookupPushes(found))
  /\ UNCHANGED <<boot, files, objects, lost, watched, queue, extensions, scan, events, skipped>>

Others ==
  \/ \E s \in Scripts :
       \/ OpenScript(s) \/ RemoveScript(s)
       \/ \E content \in Becomes[s] : CloseScript(s, content) \/ MoveScript(s, content)
  \/ \E o \in Objects : InstallObject(o)

Next ==
  \/ Others
  \/ CountCommands \/ CommandsLoaded \/ \E o \in Objects : LoadCommand(o)
  \/ \E f \in Folders : Add(f)
  \/ OpenDir \/ ScanEnds \/ \E s \in Scripts : LoadNext(s)
  \/ ReadEvents \/ HandleEvent \/ EventsHandled
  \/ \E name \in Asked : ducq_dispatch(name)

Spec == Init /\ [][Next]_vars

-----------------------------------------------------------------------------
\* The commands loaded fit the room made for them, also when objects are
\* installed between the two passes (dispatcher.c:192-207).
TypeOK ==
  /\ pc \in {"new", "counted", "idle", "added", "scanning", "handling", "crashed", "undefined"}
  /\ objects \subseteq Objects
  /\ cmds \in Seq(Objects) /\ Len(cmds) <= room
  /\ \A s \in Scripts : files[s] \in Files
  /\ watched \subseteq Folders /\ scan \subseteq Scripts /\ skipped \subseteq Scripts
  /\ queue \in Seq(Events) /\ Len(queue) <= QueueMax + 1 /\ events \in Seq(Events)
  /\ \A i \in 1..MAX_EXTENSIONS :
       extensions[i] = Free \/ (extensions[i].wd \in watched /\ extensions[i].path \in Folders)
  /\ \A i \in 1..Len(stack) : stack[i].is \in {"nil", "message", "commands", "table", "function"}

Pending(s) == Event(s) \in Range(queue) \cup Range(events)

\* The script of a watched folder is the one last loaded, or its event is on the
\* way, or its folder is being scanned: a change is never missed between the
\* watch, the scan and the events, of which one may fail or drop the others.  It
\* is missed only if the queue overflows, behind a script that failed the scan, or
\* when the scan itself failed (dispatcher.c:238-332).
FreshOrPending ==
  \A s \in Scripts :
    s[1] \in watched /\ files[s].content \in Contents =>
      \/ read[s] = files[s].ver
      \/ Pending(s) \/ s \in scan \/ s \in skipped
      \/ lost

\* What a request of this name should run
Meant(name) ==
  IF name = Lscmd THEN [is |-> "lscmd"]
  ELSE IF name \in Range(cmds) THEN [is |-> "native"]
  ELSE IF commands # NoWd /\ name \in DOMAIN commands /\ commands[name].exec
       THEN Exec(commands[name])
  ELSE [is |-> "unknown"]

\* Four values for every request so far, and six for the next, at most
Crowded == 4 * lookups + 6 > LUA_MINSTACK

\* A request runs the command of its name as last loaded, a native one before a
\* Lua one, whatever earlier requests have left on the Lua stack, until there
\* have been enough of them to fill it: from the fifth on, with room for 20, one
\* that is not native may be undefined, and a native one never is
\* (dispatcher.c:353-456).
RunsWhatWasAsked ==
  /\ pc = "undefined" => Crowded
  /\ \A name \in Asked :
       \/ Runs(name) = Meant(name)
       \/ Runs(name).is = "undefined" /\ name \notin Range(cmds) /\ Crowded

\* Loading a script leaves the Lua stack as it was, whether it succeeds or
\* fails, and so do native commands; every other request leaves up to four values
\* on it for good and takes none away (dispatcher.c:228-236, 353-432).
OnlyLuaLookupsLeak ==
  [][stack' # stack =>
       /\ \E name \in (Asked \ Range(cmds)) \cup {Lscmd} : ducq_dispatch(name)
       /\ IsPrefix(stack, stack') /\ Len(stack') <= Len(stack) + 4]_vars
=============================================================================
