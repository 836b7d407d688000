------------------------------ MODULE LogSinks ------------------------------
(***************************************************************************)
(* logs.go and internal/rotatefile: a sinkHandler sends each record to     *)
(* stderr, the current rolling file and OTLP, by two atomics it reads      *)
(* again at every turn, while an Init installs its file and its flag and   *)
(* a pipeline's close takes them away.  The writers of successive Inits    *)
(* share a directory and a prefix.  Each rolls and prunes under its own    *)
(* mutex only, one call to the file system at a time, so another writer    *)
(* may come between any two of them.  A file is its stamp, the period it   *)
(* was opened in.  Init calls do not overlap each other, and each has a    *)
(* file.                                                                   *)
(***************************************************************************)
EXTENDS Integers, FiniteSets

CONSTANTS Writers, NoWriter,   \* one rolling file for each Init
          Loggers,             \* goroutines that log
          MaxFiles,            \* Options.MaxFiles; openLogFile refuses 1
          MaxNow               \* bound: the periods that pass

ASSUME LogSinksAssumption ==
    /\ Writers # {} /\ NoWriter \notin Writers
    /\ MaxFiles \in Int \ {1} /\ MaxNow \in Nat \ {0}

VARIABLES
    logsStayLocal, logFileSink,
    now,         \* currentStamp of every writer
    directory,   \* the stamps of the files in it
    writer,      \* writer[w]: whether it is open, its stamp, and how far a roll
                 \* that holds its mutex has come
    install,     \* install[w]: how far Init, and later close, have come
    ousted,      \* ousted[w]: the sink that Init swapped out and will close
    handling,    \* handling[l]: where l's Handle is, and what it delivered
    setBack      \* history: the clock was set back past files left by a run

sinkVars == <<logsStayLocal, logFileSink>>
fileVars == <<now, directory, writer, setBack>>
installVars == <<install, ousted>>
logVars == <<sinkVars, fileVars, installVars, handling>>

\* Definitions named Faulty... are variants that no action uses: each breaks a
\* property when it takes the place of the definition it stands beside.

NotHandling == [at |-> "idle", delivered |-> {}]

LogInit ==
    /\ logsStayLocal = FALSE /\ logFileSink = NoWriter
    /\ now = 1
    \* What an earlier run left, or one before the clock was set back.
    /\ setBack \in BOOLEAN
    /\ directory \in IF setBack THEN {{MaxNow - 1, MaxNow}} ELSE {{}, {0}}
    /\ writer = [w \in Writers |-> [open |-> FALSE, stamp |-> now, step |-> "idle",
                                    target |-> now, doomed |-> {}]]
    /\ install = [w \in Writers |-> "none"]
    /\ ousted = [w \in Writers |-> NoWriter]
    /\ handling = [l \in Loggers |-> NotHandling]
-----------------------------------------------------------------------------
(* rotatefile.Writer.  Any step but "idle" is that of a goroutine that holds  *)
(* its mutex.                                                                 *)

\* roll(currentStamp()), once the clock has been read.
BeginRoll(w) == writer' = [writer EXCEPT ![w].step = "opening", ![w].target = now]

\* The new file, created or appended to; or the old one stays.
OpenStamp(w) ==
    /\ writer[w].step = "opening"
    /\ \/ /\ directory' = directory \cup {writer[w].target}
          /\ writer' = [writer EXCEPT
                ![w].open = TRUE, ![w].stamp = writer[w].target,
                ![w].step = IF MaxFiles <= 0 THEN "rolled" ELSE "listing"]
       \/ /\ writer' = [writer EXCEPT ![w].step = "rolled", ![w].target = writer[w].stamp]
          /\ UNCHANGED directory

\* prune, of d with the file live: all but the newest that make up MaxFiles
\* with it.
Newest(d, n) == {s \in d : Cardinality({t \in d : t > s}) < n}
FaultyDoomed(d, live) == d \ Newest(d, MaxFiles)   \* may doom the live file too
Doomed(d, live) == (d \ {live}) \ Newest(d \ {live}, MaxFiles - 1)

\* ReadDir, which may fail.
ListFiles(w) ==
    /\ writer[w].step = "listing"
    /\ \E doomed \in {Doomed(directory, writer[w].stamp), {}} :
         writer' = [writer EXCEPT ![w].doomed = doomed,
                                  ![w].step = IF doomed = {} THEN "rolled" ELSE "removing"]
    /\ UNCHANGED directory

\* Remove, the oldest first; it may fail, and the next is removed all the same.
RemoveFile(w) ==
    /\ writer[w].step = "removing"
    /\ \E s \in writer[w].doomed :
         /\ \A t \in writer[w].doomed : s <= t
         /\ directory' \in {directory, directory \ {s}}
         /\ writer' = [writer EXCEPT
               ![w].doomed = @ \ {s},
               ![w].step = IF writer[w].doomed = {s} THEN "rolled" ELSE @]

Roll(w) ==
    /\ OpenStamp(w) \/ ListFiles(w) \/ RemoveFile(w)
    /\ UNCHANGED <<sinkVars, now, setBack, installVars, handling>>

Free(w) == writer[w].step = "idle"
Unlock(w) == writer' = [writer EXCEPT ![w].step = "idle"]
CloseWriter(w) ==
    /\ Free(w)
    /\ writer' = [writer EXCEPT ![w].open = FALSE]
-----------------------------------------------------------------------------
(* initWithConfig and installLogSinks, and the end of a pipeline's close.    *)

Onward(w, from, to) == install[w] = from /\ install' = [install EXCEPT ![w] = to]

InInit == {"opening", "opened", "flagged", "swapped"}

OpenFile(w) ==
    /\ \A v \in Writers : install[v] \notin InInit
    /\ Onward(w, "none", "opening") /\ BeginRoll(w)
    /\ UNCHANGED <<sinkVars, now, directory, setBack, ousted, handling>>

\* openLogFile returns, with an error if the file could not be opened.
FileOpened(w) ==
    /\ writer[w].step = "rolled"
    /\ Onward(w, "opening", IF writer[w].open THEN "opened" ELSE "failed") /\ Unlock(w)
    /\ UNCHANGED <<sinkVars, now, directory, setBack, ousted, handling>>

StoreFlag(w, stayLocal) ==
    /\ Onward(w, "opened", "flagged")
    /\ logsStayLocal' = stayLocal
    /\ UNCHANGED <<logFileSink, fileVars, ousted, handling>>

SwapSink(w) ==
    /\ Onward(w, "flagged", "swapped")
    /\ logFileSink' = w
    /\ ousted' = [ousted EXCEPT ![w] = logFileSink]
    /\ UNCHANGED <<logsStayLocal, fileVars, handling>>

\* The close of the writer that the swap returned.
ClosePrevious(w) ==
    /\ Onward(w, "swapped", "installed")
    /\ IF ousted[w] = NoWriter THEN UNCHANGED writer ELSE CloseWriter(ousted[w])
    /\ UNCHANGED <<sinkVars, now, directory, setBack, ousted, handling>>

\* Shutdown of an installed pipeline: the flag, if it is the current one, then
\* CompareAndSwap, then Close.
StayLocal(w) ==
    /\ Onward(w, "installed", "closing")
    /\ logsStayLocal' \in {logsStayLocal, TRUE}
    /\ UNCHANGED <<logFileSink, fileVars, ousted, handling>>

FaultySinkAfter(w) == logFileSink   \* keeps pointing at a closed file
SinkAfter(w) == IF logFileSink = w THEN NoWriter ELSE logFileSink

RetireSink(w) ==
    /\ Onward(w, "closing", "retired")
    /\ logFileSink' = SinkAfter(w)
    /\ UNCHANGED <<logsStayLocal, fileVars, ousted, handling>>

CloseFile(w) ==
    /\ Onward(w, "retired", "closed") /\ CloseWriter(w)
    /\ UNCHANGED <<sinkVars, now, directory, setBack, ousted, handling>>
-----------------------------------------------------------------------------
(* sinkHandler.Handle, one read of an atomic at a time, for a record whose  *)
(* level every sink takes.                                                  *)

At(l, at) == handling[l].at = at
Goes(l, at) == handling' = [handling EXCEPT ![l].at = at]
Delivers(l, to, at) ==
    handling' = [handling EXCEPT ![l] =
                   [at |-> at, delivered |-> @.delivered \cup {to}]]

\* "if logsStayLocal.Load() || logFileSink.Load() != nil", two reads.
Begins(l) ==
    /\ At(l, "idle")
    /\ Goes(l, IF logsStayLocal THEN "console" ELSE "anyFile")
AsksForFile(l) ==
    /\ At(l, "anyFile")
    /\ Goes(l, IF logFileSink # NoWriter THEN "console" ELSE "otlp")
Console(l) ==
    /\ At(l, "console")
    /\ IF logsStayLocal THEN Delivers(l, "stderr", "file") ELSE Goes(l, "file")
File(l) ==
    /\ At(l, "file")
    /\ Goes(l, IF logFileSink # NoWriter THEN "load" ELSE "otlp")

\* A line in a file that was removed is lost with it.
Written(w) == IF writer[w].stamp \in directory THEN {"file"} ELSE {}
LineGoes(l, to) ==
    handling' = [handling EXCEPT ![l] =
                   [at |-> "otlp", delivered |-> @.delivered \cup to]]

\* fileSinkWriter.Write loads the sink, which may have changed, and writes.
LoadSink(l) ==
    /\ At(l, "load")
    /\ handling' = [handling EXCEPT ![l] =
                      IF logFileSink = NoWriter THEN [@ EXCEPT !.at = "otlp"]
                      ELSE [at |-> "write", delivered |-> @.delivered,
                            to |-> logFileSink]]

\* Writer.Write, under the mutex: a closed file takes no line; a line of a new
\* period waits for a roll, and goes to the old file if that fails.
FindsClosed(l) ==
    /\ At(l, "write") /\ Free(handling[l].to) /\ ~writer[handling[l].to].open
    /\ LineGoes(l, {})
    /\ UNCHANGED writer
WriteLine(l) ==
    /\ At(l, "write") /\ Free(handling[l].to) /\ writer[handling[l].to].open
    /\ IF writer[handling[l].to].stamp = now
       THEN LineGoes(l, Written(handling[l].to)) /\ UNCHANGED writer
       ELSE Goes(l, "rolling") /\ BeginRoll(handling[l].to)
WriteAfterRoll(l) ==
    /\ At(l, "rolling") /\ writer[handling[l].to].step = "rolled"
    /\ LineGoes(l, Written(handling[l].to)) /\ Unlock(handling[l].to)

Otlp(l) ==
    /\ At(l, "otlp")
    /\ IF logsStayLocal THEN Goes(l, "done") ELSE Delivers(l, "otlp", "done")
HandleReturns(l) ==
    /\ At(l, "done")
    /\ handling' = [handling EXCEPT ![l] = NotHandling]

Handle(l) ==
    \/ /\ Begins(l) \/ AsksForFile(l) \/ Console(l) \/ File(l) \/ LoadSink(l)
            \/ Otlp(l) \/ HandleReturns(l)
       /\ UNCHANGED fileVars
    \/ /\ FindsClosed(l) \/ WriteLine(l) \/ WriteAfterRoll(l)
       /\ UNCHANGED <<now, directory, setBack>>
-----------------------------------------------------------------------------
PeriodPasses ==
    /\ now < MaxNow
    /\ now' = now + 1
    /\ UNCHANGED <<sinkVars, directory, writer, setBack, installVars, handling>>

LogNext ==
    \/ \E w \in Writers :
         \/ OpenFile(w) \/ FileOpened(w) \/ SwapSink(w) \/ ClosePrevious(w)
         \/ StayLocal(w) \/ RetireSink(w) \/ CloseFile(w) \/ Roll(w)
         \/ \E stayLocal \in BOOLEAN : StoreFlag(w, stayLocal)
    \/ \E l \in Loggers : Handle(l) /\ UNCHANGED <<sinkVars, installVars>>
    \/ PeriodPasses

LogSpec == LogInit /\ [][LogNext]_logVars
-----------------------------------------------------------------------------
Stamps == 0..MaxNow
RollSteps == {"idle", "opening", "listing", "removing", "rolled"}
Installs == {"none", "opening", "failed", "opened", "flagged", "swapped",
             "installed", "closing", "retired", "closed"}
Places == {"idle", "anyFile", "console", "file", "load", "write", "rolling", "otlp",
           "done"}

LogTypeOK ==
    /\ logsStayLocal \in BOOLEAN /\ logFileSink \in Writers \cup {NoWriter}
    /\ now \in 1..MaxNow /\ directory \subseteq Stamps /\ setBack \in BOOLEAN
    /\ writer \in [Writers -> [open : BOOLEAN, stamp : 1..MaxNow, step : RollSteps,
                               target : 1..MaxNow, doomed : SUBSET Stamps]]
    /\ install \in [Writers -> Installs]
    /\ ousted \in [Writers -> Writers \cup {NoWriter}]
    /\ \A l \in Loggers : /\ handling[l].at \in Places
                          /\ handling[l].delivered \subseteq {"stderr", "file", "otlp"}

Leads(w) == \A v \in Writers : writer[v].stamp <= writer[w].stamp
Alone(w) == \A v \in Writers \ {w} : install[v] = "none"

\* rotatefile.go: "The live file always stays, whatever a clock change has left
\* dated after it".  The file a writer writes to is in the directory: always
\* while no other Init has opened one there; and when several have, if the clock
\* was not set back, for the writers of the newest period, although each prunes
\* by a listing that may be stale.  And the installed sink is open, although
\* Init swaps before it closes and Shutdown retires before it does.
LiveFileStays ==
    /\ \A w \in Writers :
         writer[w].open /\ (Alone(w) \/ (~setBack /\ Leads(w)))
           => writer[w].stamp \in directory
    /\ logFileSink # NoWriter => writer[logFileSink].open

\* rotatefile.go, the same words, of the file the process logs to: while the
\* period is the one it was opened in, the lines go to a file that is there.
\* The code keeps another Init's prune from nothing but its own live file.
InstalledFileStays ==
    logFileSink # NoWriter /\ writer[logFileSink].stamp = now => now \in directory

\* logs.go: "after Shutdown, records print to stderr instead of vanishing".
NothingVanishes == \A l \in Loggers : At(l, "done") => handling[l].delivered # {}
=============================================================================
