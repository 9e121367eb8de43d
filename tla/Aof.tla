-------------------------------- MODULE Aof --------------------------------
(***************************************************************************)
(* Persistence: the append-only file of src/src/aof.rs, the part of each   *)
(* connection task that writes to it (process_connection in                *)
(* src/src/main.rs), the shutdown at the end of main, and the replay at    *)
(* the start of the next process.                                          *)
(*                                                                         *)
(* The path of a write command is                                          *)
(*   conns[c] --record--> rx --writer task--> buf --spill, flush--> file   *)
(* where rx is the mpsc channel, buf the BufWriter and file what the       *)
(* operating system holds; file[1 .. synced] has reached the disk.  The    *)
(* command is applied to the database by its connection after it has been  *)
(* sent to rx, and answered after that.  The tasks run on several threads, *)
(* so the steps of different connections interleave.                       *)
(*                                                                         *)
(* The database is reduced to the effect each command has on its key; Db   *)
(* models the methods of db.rs themselves.  RPUSH stands for the commands  *)
(* that grow a collection, LPOP for the ones that shrink it.  A frame that *)
(* from_frame refuses is answered with an error and changes nothing here.  *)
(***************************************************************************)
EXTENDS CacheEntry

CONSTANTS
    Conns,          \* connection tasks
    Requests,       \* Requests[c]: the commands connection c may send
    AOF_CHANNEL,    \* capacity of the mpsc channel, 2048 in the source
    DiskFails,      \* whether opening, writing and flushing the file may fail
    MaxCommands,    \* bound: commands sent
    MaxCrashes,     \* bound: crashes
    MaxBoots,       \* bound: restarts
    MaxClock        \* bound: last instant of the clock

Ops == {"set", "del", "expire", "rpush", "lpop", "get"}
AnyCommand == [op : Ops, key : Keys, value : Bytes, ttl : Nat \cup {None}]

ASSUME AofAssumption ==
    /\ Requests \in [Conns -> SUBSET AnyCommand]
    /\ AOF_CHANNEL \in Nat \ {0}
    /\ DiskFails \in BOOLEAN
    /\ MaxCommands \in Nat
    /\ MaxCrashes \in Nat
    /\ MaxBoots \in Nat
    /\ MaxClock \in Nat

VARIABLES
    db,         \* the entries in memory
    clock,      \* Instant::now()
    conns,      \* where each connection task is inside its loop
    rx,         \* the mpsc channel between the tasks and the writer
    buf,        \* the BufWriter of the writer task
    file,       \* the records the operating system has taken
    synced,     \* how many of them are on the disk
    writer,     \* the writer task
    server,     \* main
    applied,    \* history: the commands the database in memory has taken
    answered,   \* history: the commands this process has answered
    due         \* history: the commands taken when main sent its Flush

vars == <<db, clock, conns, rx, buf, file, synced, writer, server, applied, answered, due>>

-----------------------------------------------------------------------------
(* State *)

\* One record of the log.  id numbers the commands sent; torn marks one of which only a
\* part reached the disk.
Records == [id : Nat \ {0}, cmd : AnyCommand, torn : BOOLEAN]
Record(id, cmd) == [id |-> id, cmd |-> cmd, torn |-> FALSE]

\* AofMsg::Flush, told from a record by its id.
Flush == [id |-> 0]

NoCommand == [id |-> 0]
Reading == [pc |-> "read", msg |-> NoCommand, parsed |-> 0]
Gone == [Reading EXCEPT !.pc = "gone"]

ConnStates ==
    [pc     : {"read", "record", "apply", "reply", "gone"},
     msg    : Records \cup {NoCommand},
     parsed : Nat]

ServerStates ==
    [pc      : {"running", "syncing", "waiting", "done", "down"},
     replied : BOOLEAN,
     clean   : BOOLEAN,
     sent    : Nat,
     crashes : Nat,
     boots   : Nat]

Ids(s) == {s[i].id : i \in DOMAIN s} \ {0}

\* The positions of the records of s that are whole.
Intact(s) == {i \in DOMAIN s : s[i].id # 0 /\ ~s[i].torn}

\* Everything recorded, in order: on its way to the file or in it.
Log == file \o buf \o rx

EmptyDb == [k \in Keys |-> Absent]

Init ==
    /\ db = EmptyDb
    /\ clock = 0
    /\ conns = [c \in Conns |-> Reading]
    /\ rx = <<>>
    /\ buf = <<>>
    /\ file = <<>>
    /\ synced = 0
    /\ writer = "opening"
    /\ server = [pc |-> "running", replied |-> FALSE, clean |-> FALSE, sent |-> 0,
                 crashes |-> 0, boots |-> 0]
    /\ applied = {}
    /\ answered = {}
    /\ due = {}

-----------------------------------------------------------------------------
(* Commands *)

\* Mutant of is_write: the pops forgotten.
is_write_no_pop(cmd) == cmd.op \in {"set", "del", "expire", "rpush"}

is_write(cmd) == cmd.op \in {"set", "del", "expire", "rpush", "lpop"}

Deadline(ttl, now) == IF ttl = None THEN None ELSE now + ttl

\* The entry as every command sees it: an expired one is removed on the way.
Found(e, now) == IF is_expired(e, now) THEN Absent ELSE e

\* SET fixes its deadline when it is parsed, EXPIRE when it is applied.
SetEffect(cmd, parsed) == new("string", <<cmd.value>>, Deadline(cmd.ttl, parsed), 0)

ExpireEffect(found, cmd, now) ==
    IF found = Absent THEN Absent ELSE [found EXCEPT !.expires_at = Deadline(cmd.ttl, now)]

RpushEffect(found, cmd) ==
    CASE found = Absent      -> new("list", <<cmd.value>>, None, 0)
      [] found.type = "list" -> [found EXCEPT !.data = Append(@, cmd.value)]
      [] OTHER               -> found

LpopEffect(found) ==
    IF found.type # "list" THEN found
    ELSE IF Len(found.data) = 1 THEN Absent
    ELSE [found EXCEPT !.data = Tail(@)]

\* What the key of cmd holds after it, given what it held.
Effect(e, cmd, parsed, now) ==
    LET found == Found(e, now)
    IN  CASE cmd.op = "set"    -> SetEffect(cmd, parsed)
          [] cmd.op = "del"    -> Absent
          [] cmd.op = "get"    -> found
          [] cmd.op = "expire" -> ExpireEffect(found, cmd, now)
          [] cmd.op = "rpush"  -> RpushEffect(found, cmd)
          [] cmd.op = "lpop"   -> LpopEffect(found)

Applied(d, cmd, parsed, now) ==
    [d EXCEPT ![cmd.key] = Effect(@, cmd, parsed, now)]

\* The database that replaying these positions of f at this instant builds.
Replay(f, positions, now) ==
    LET after[n \in 0 .. Len(f)] ==
          IF n = 0 THEN EmptyDb
          ELSE IF n \in positions THEN Applied(after[n - 1], f[n].cmd, now, now)
          ELSE after[n - 1]
    IN  after[Len(f)]

-----------------------------------------------------------------------------
(* A connection task: read a command, record it, apply it, answer it *)

Up == server.pc # "down"

ConnStep(c, state) ==
    /\ Up
    /\ conns' = [conns EXCEPT ![c] = state]

ReadCommand(c, cmd) ==
    /\ conns[c].pc = "read"
    /\ server.sent < MaxCommands
    /\ ConnStep(c, [pc |-> IF is_write(cmd) THEN "record" ELSE "apply",
                    msg |-> Record(server.sent + 1, cmd), parsed |-> clock])
    /\ server' = [server EXCEPT !.sent = @ + 1]
    /\ UNCHANGED <<db, clock, rx, buf, file, synced, writer, applied, answered, due>>

\* Mutant of RecordCommand: a full channel does not hold the task back, the record is dropped.
RecordOrDrop(c) ==
    /\ conns[c].pc = "record"
    /\ rx' = IF writer = "dead" \/ Len(rx) = AOF_CHANNEL THEN rx ELSE Append(rx, conns[c].msg)
    /\ ConnStep(c, [conns[c] EXCEPT !.pc = "apply"])
    /\ UNCHANGED <<db, clock, buf, file, synced, writer, server, applied, answered, due>>

\* Mutant of RecordCommand: an unbounded channel.
RecordUnbounded(c) ==
    /\ conns[c].pc = "record"
    /\ rx' = IF writer = "dead" THEN rx ELSE Append(rx, conns[c].msg)
    /\ ConnStep(c, [conns[c] EXCEPT !.pc = "apply"])
    /\ UNCHANGED <<db, clock, buf, file, synced, writer, server, applied, answered, due>>

\* aof.record: waits while the channel is full; once the writer task has returned the
\* send fails at once and its error is ignored.
RecordCommand(c) ==
    /\ conns[c].pc = "record"
    /\ \/ /\ writer # "dead"
          /\ Len(rx) < AOF_CHANNEL
          /\ rx' = Append(rx, conns[c].msg)
       \/ /\ writer = "dead"
          /\ UNCHANGED rx
    /\ ConnStep(c, [conns[c] EXCEPT !.pc = "apply"])
    /\ UNCHANGED <<db, clock, buf, file, synced, writer, server, applied, answered, due>>

ApplyCommand(c) ==
    LET msg == conns[c].msg
    IN  /\ conns[c].pc = "apply"
        /\ db' = Applied(db, msg.cmd, conns[c].parsed, clock)
        /\ applied' = IF is_write(msg.cmd) THEN applied \cup {msg.id} ELSE applied
        /\ ConnStep(c, [conns[c] EXCEPT !.pc = "reply"])
        /\ UNCHANGED <<clock, rx, buf, file, synced, writer, server, answered, due>>

Reply(c) ==
    /\ conns[c].pc = "reply"
    /\ answered' = IF is_write(conns[c].msg.cmd) THEN answered \cup {conns[c].msg.id}
                   ELSE answered
    /\ ConnStep(c, Reading)
    /\ UNCHANGED <<db, clock, rx, buf, file, synced, writer, server, applied, due>>

\* The shutdown branch of the select! around process_connection: it can only win where
\* the other branch waits, which is while reading, recording or answering.
Cancel(c) ==
    /\ server.pc \in {"syncing", "waiting", "done"}
    /\ conns[c].pc \in {"read", "record", "reply"}
    /\ ConnStep(c, Gone)
    /\ UNCHANGED <<db, clock, rx, buf, file, synced, writer, server, applied, answered, due>>

-----------------------------------------------------------------------------
(* The writer task *)

\* Mutant of WriterOpens: a task that waits for ever instead of returning.
WriterOpensOrHangs ==
    /\ Up
    /\ writer = "opening"
    /\ writer' \in {"open"} \cup (IF DiskFails THEN {"hung"} ELSE {})
    /\ UNCHANGED <<db, clock, conns, rx, buf, file, synced, server, applied, answered, due>>

\* If the file cannot be opened the task returns: the channel closes and what it held is lost.
WriterOpens ==
    /\ Up
    /\ writer = "opening"
    /\ \/ /\ writer' = "open"
          /\ UNCHANGED rx
       \/ /\ DiskFails
          /\ writer' = "dead"
          /\ rx' = <<>>
    /\ UNCHANGED <<db, clock, conns, buf, file, synced, server, applied, answered, due>>

\* A record goes to the buffer; what is there is written out first when it does not fit,
\* and a record as large as the buffer goes straight to the file.  If the write fails the
\* record is dropped.
WriteRecord ==
    /\ Up
    /\ writer = "open"
    /\ rx # <<>>
    /\ Head(rx) # Flush
    /\ rx' = Tail(rx)
    /\ \/ /\ buf' = Append(buf, Head(rx))
          /\ UNCHANGED file
       \/ /\ file' = file \o buf
          /\ buf' = <<Head(rx)>>
       \/ /\ file' = Append(file \o buf, Head(rx))
          /\ buf' = <<>>
       \/ /\ DiskFails
          /\ UNCHANGED <<buf, file>>
    /\ UNCHANGED <<db, clock, conns, synced, writer, server, applied, answered, due>>

\* flush and sync_all, whose errors are ignored.
Synced ==
    \/ /\ file' = file \o buf
       /\ buf' = <<>>
       /\ synced' = Len(file')
    \/ /\ DiskFails
       /\ UNCHANGED <<file, buf, synced>>

\* Mutant of WriteFlush: when the flush fails the sender of the answer is kept for another try
\* that never comes.  (To drop it would end the wait of sync as well.)
WriteFlushOrSilence ==
    /\ Up
    /\ writer = "open"
    /\ rx # <<>>
    /\ Head(rx) = Flush
    /\ rx' = Tail(rx)
    /\ Synced
    /\ server' = [server EXCEPT !.replied = (buf' = <<>>)]
    /\ UNCHANGED <<db, clock, conns, writer, applied, answered, due>>

WriteFlush ==
    /\ Up
    /\ writer = "open"
    /\ rx # <<>>
    /\ Head(rx) = Flush
    /\ rx' = Tail(rx)
    /\ Synced
    /\ server' = [server EXCEPT !.replied = TRUE]
    /\ UNCHANGED <<db, clock, conns, writer, applied, answered, due>>

\* recv returns None: main has returned and every task that held the channel is gone.
WriterDrains ==
    /\ server.pc = "done"
    /\ writer = "open"
    /\ rx = <<>>
    /\ \A c \in Conns : conns[c].pc = "gone"
    /\ Synced
    /\ writer' = "dead"
    /\ UNCHANGED <<db, clock, conns, rx, server, applied, answered, due>>

-----------------------------------------------------------------------------
(* main: shutdown, crash, restart *)

\* The signal ends the accept loop and is broadcast to the tasks.
Shutdown ==
    /\ server.pc = "running"
    /\ server' = [server EXCEPT !.pc = "syncing"]
    /\ UNCHANGED <<db, clock, conns, rx, buf, file, synced, writer, applied, answered, due>>

\* Mutant of SendFlush: a Flush that overtakes the records in the channel.
SendFlushFirst ==
    /\ server.pc = "syncing"
    /\ \/ /\ writer # "dead"
          /\ Len(rx) < AOF_CHANNEL
          /\ rx' = <<Flush>> \o rx
          /\ due' = applied
          /\ server' = [server EXCEPT !.pc = "waiting"]
       \/ /\ writer = "dead"
          /\ server' = [server EXCEPT !.pc = "done"]
          /\ UNCHANGED <<rx, due>>
    /\ UNCHANGED <<db, clock, conns, buf, file, synced, writer, applied, answered>>

\* aof.sync, up to the answer of the writer.
SendFlush ==
    /\ server.pc = "syncing"
    /\ \/ /\ writer # "dead"
          /\ Len(rx) < AOF_CHANNEL
          /\ rx' = Append(rx, Flush)
          /\ due' = applied
          /\ server' = [server EXCEPT !.pc = "waiting"]
       \/ /\ writer = "dead"
          /\ server' = [server EXCEPT !.pc = "done"]
          /\ UNCHANGED <<rx, due>>
    /\ UNCHANGED <<db, clock, conns, buf, file, synced, writer, applied, answered>>

\* The answer, or the end of the channel it would have come through.
FlushReturns ==
    /\ server.pc = "waiting"
    /\ server.replied \/ writer = "dead"
    /\ server' = [server EXCEPT !.pc = "done"]
    /\ UNCHANGED <<db, clock, conns, rx, buf, file, synced, writer, applied, answered, due>>

\* The end of the process takes the tasks, the channel and the buffer with it.
TasksEnd ==
    /\ conns' = [c \in Conns |-> Gone]
    /\ writer' = "dead"
    /\ rx' = <<>>
    /\ buf' = <<>>

\* The process ends after main has returned, whatever the tasks are doing; db keeps the
\* last state of the memory until the next start.
Exit ==
    /\ server.pc = "done"
    /\ server' = [server EXCEPT !.pc = "down", !.clean = TRUE]
    /\ TasksEnd
    /\ UNCHANGED <<db, clock, file, synced, applied, answered, due>>

\* A crash keeps what was on the disk and any prefix of what the operating system had
\* taken; the first record lost may be cut in the middle.
Crash ==
    /\ Up
    /\ server.crashes < MaxCrashes
    /\ \E n \in synced .. Len(file) :
         /\ \/ file' = SubSeq(file, 1, n)
            \/ /\ n < Len(file)
               /\ file' = Append(SubSeq(file, 1, n), [file[n + 1] EXCEPT !.torn = TRUE])
         /\ synced' = Len(file')
    /\ server' = [server EXCEPT !.pc = "down", !.clean = FALSE, !.crashes = @ + 1]
    /\ TasksEnd
    /\ UNCHANGED <<db, clock, applied, answered, due>>

(***************************************************************************)
(* What load makes of a file: the sets of positions it may replay.  A torn *)
(* record at the end is Incomplete and ends the replay.  One that is       *)
(* followed by others, appended by a later process, takes their bytes for  *)
(* its own missing ones: depending on where it was cut, check fails and    *)
(* the replay ends there, or the mixture is one frame that from_frame      *)
(* refuses, and some of the records after it are lost with it.             *)
(***************************************************************************)
Replayable(f) ==
    {kept \in SUBSET DOMAIN f :
       \A i \in DOMAIN f :
         /\ i \in kept => ~f[i].torn /\ (i > 1 => ~f[i - 1].torn)
         /\ i \notin kept => f[i].torn \/ (i > 1 /\ (i - 1) \notin kept)}

\* Aof::load and Aof::start of the next process.
Boot ==
    /\ server.pc = "down"
    /\ server.boots < MaxBoots
    /\ \E kept \in Replayable(file) :
         /\ db' = Replay(file, kept, clock)
         /\ applied' = {file[i].id : i \in kept}
    /\ conns' = [c \in Conns |-> Reading]
    /\ writer' = "opening"
    /\ server' = [server EXCEPT !.pc = "running", !.replied = FALSE, !.clean = FALSE,
                                !.boots = @ + 1]
    /\ answered' = {}
    /\ due' = {}
    /\ UNCHANGED <<clock, rx, buf, file, synced>>

Tick ==
    /\ clock < MaxClock
    /\ clock' = clock + 1
    /\ UNCHANGED <<db, conns, rx, buf, file, synced, writer, server, applied, answered, due>>

-----------------------------------------------------------------------------
ConnNext(c) ==
    \/ RecordCommand(c)
    \/ ApplyCommand(c)
    \/ Reply(c)

WriterNext ==
    \/ WriterOpens
    \/ WriteRecord
    \/ WriteFlush
    \/ WriterDrains

MainNext ==
    \/ SendFlush
    \/ FlushReturns

Next ==
    \/ \E c \in Conns : \E cmd \in Requests[c] : ReadCommand(c, cmd)
    \/ \E c \in Conns : ConnNext(c)
    \/ \E c \in Conns : Cancel(c)
    \/ WriterNext
    \/ Shutdown
    \/ MainNext
    \/ Exit
    \/ Crash
    \/ Boot
    \/ Tick

Spec == Init /\ [][Next]_vars

\* tokio keeps polling a task that can make progress.
FairSpec ==
    /\ Spec
    /\ \A c \in Conns : WF_vars(ConnNext(c))
    /\ WF_vars(WriterNext)
    /\ WF_vars(MainNext)

-----------------------------------------------------------------------------
(* Properties *)

\* Every variable stays in its type, and the channel never holds more than its capacity:
\* a client that writes faster than the disk is held back.
TypeOK ==
    /\ \A k \in Keys : db[k].type = "none" \/ db[k] \in CacheEntries
    /\ clock \in Nat
    /\ conns \in [Conns -> ConnStates]
    /\ rx \in Seq(Records \cup {Flush})
    /\ Len(rx) <= AOF_CHANNEL
    /\ buf \in Seq(Records)
    /\ file \in Seq(Records)
    /\ synced \in 0 .. Len(file)
    /\ writer \in {"opening", "open", "dead"}
    /\ server \in ServerStates
    /\ applied \subseteq Nat
    /\ answered \subseteq applied
    /\ due \subseteq Nat

\* Write ahead: while the process runs, every write command the database has taken is in
\* the log (in the channel, the buffer or the file), so a command is never answered before
\* it is recorded, however full the channel is.
AppliedAreLogged == Up => applied \subseteq Ids(Log)

\* When sync returns, every write command that the database had taken before the Flush was
\* sent is on the disk, whichever connection sent it and however many records were in
\* front of the Flush.
FlushCoversApplied ==
    server.pc = "done" => due \subseteq {file[i].id : i \in 1 .. synced}

\* No command is between its record and its effect.
Settled == \A c \in Conns : conns[c].pc # "apply"

\* Replaying the log rebuilds the database in memory ("bellek içi durum hatasız bir biçimde
\* yeniden inşa edilir": the state in memory is rebuilt without error, src/doc.md:202).
ReplayRebuilds == Up /\ Settled => Replay(Log, Intact(Log), clock) = db

\* The commands that are whole on the disk.
SyncedIds == {file[i].id : i \in Intact(SubSeq(file, 1, synced))}

\* A clean shutdown loses no command that was answered ("Synchronous flush during server
\* shutdown to guarantee zero data loss", src/README.md:42).
ShutdownLosesNothing ==
    server.pc = "down" /\ server.clean => answered \subseteq SyncedIds

\* What is on the disk is in the database after the next start ("Automatic database
\* rehydration from disk on server startup", src/README.md:41).
SyncedIsLoaded ==
    [][~Up /\ Up' => SyncedIds \subseteq applied']_vars

\* A key whose time to live has run out stays expired over a clean restart.
ExpiredStaysExpired ==
    [][~Up /\ Up' /\ server.clean
         => \A k \in Keys : db[k].expires_at \in 0 .. clock
              => db'[k].type = "none" \/ is_expired(db'[k], clock)]_vars

\* Once a shutdown has begun sync returns, even if the disk fails or the writer task has
\* returned: main never waits for an answer that cannot come.
ShutdownCompletes == server.pc = "syncing" ~> server.pc \in {"done", "down"}

\* A connection never waits for ever to record a command.
RecordReturns ==
    \A c \in Conns : conns[c].pc = "record" ~> conns[c].pc # "record" \/ ~Up
=============================================================================
