---------------------------- MODULE EventFollowers ----------------------------
(***************************************************************************)
(* The host's followers of one session: events.subscribe, session.events   *)
(* and session.logs with follow.  Each is a task that polls a file the     *)
(* worker and the host append to, writes what is new to its client, and    *)
(* ends when it finds nothing new and meta.json says the session is over.  *)
(*                                                                         *)
(* The file is a sequence of records; a position in it counts half         *)
(* records, so that a read may end in the middle of the record being       *)
(* appended.  For the logs of a PTY session the file is pty.log, whose     *)
(* records are chunks of raw output; for all others it is events.jsonl.    *)
(***************************************************************************)
EXTENDS Naturals, Sequences, FiniteSets, SequencesExt

CONSTANTS
  Followers,    \* the connections
  Records,      \* the records that are appended, members of Record
  MaxRecords,   \* bound on the records of the file
  ReplayLimits, \* the replay limits the clients ask for
  QueueLimit    \* the subscriber queue limit the clients ask for

Record == [stream : {"none", "stdout", "stderr"}, ends : BOOLEAN]

ASSUME FollowersAssumption ==
  /\ Records \subseteq Record
  /\ MaxRecords \in Nat /\ ReplayLimits \subseteq Nat /\ QueueLimit \in Nat \ {0}

VARIABLES
  log,      \* the records of the file
  torn,     \* the last record is only half in the file
  session,  \* what meta.json says, and where the session's directory is
  flw       \* the task of each connection

logVars == <<log, torn, session>>
vars == <<log, torn, session, flw>>

Index == 1 .. MaxRecords
Position == 0 .. 2 * MaxRecords
Kinds == {"subscribe", "events", "logs", "pty"}
Streams == {"stdout", "stderr"}

\* A frame: its cursor, and the halves of records whose content it shows.
Frame ==
  [type : {"ack", "lag", "event", "line", "heartbeat", "error", "closed"},
   cursor : Position, halves : SUBSET (1 .. 2 * MaxRecords), dropped : SUBSET Index]

Follower ==
  [stage : {"new", "answered", "poll", "check", "ending", "done"},
   kind : Kinds, path : {"sessions", "archive"}, limit : {0} \cup ReplayLimits,
   start : Position, offset : Position, batch : Seq(Frame), part : [Streams -> SUBSET Index],
   here : BOOLEAN, cursor : Position, shown : SUBSET (1 .. 2 * MaxRecords),
   told : SUBSET Index, split : BOOLEAN]

FollowersTypeOK ==
  /\ log \in Seq(Records) /\ Len(log) <= MaxRecords
  /\ torn \in BOOLEAN
  /\ session \in [over : BOOLEAN, place : {"sessions", "archive", "purged"}]
  /\ flw \in [Followers -> Follower]

NewFollower ==
  [stage |-> "new", kind |-> "events", path |-> "sessions", limit |-> 0,
   start |-> 0, offset |-> 0, batch |-> <<>>, part |-> [s \in Streams |-> {}],
   here |-> TRUE, cursor |-> 0, shown |-> {}, told |-> {}, split |-> FALSE]

FollowersInit ==
  /\ log = <<>> /\ torn = FALSE
  /\ session = [over |-> FALSE, place |-> "sessions"]
  /\ flw = [c \in Followers |-> NewFollower]

-----------------------------------------------------------------------------
\* The session: its worker and the host append records, it ends, it is archived.

\* append_json_line writes a line with one write; a reader may see its first half.
BeginAppend ==
  /\ ~torn /\ session.place = "sessions" /\ Len(log) < MaxRecords
  /\ \E r \in Records : log' = Append(log, r)
  /\ torn' = TRUE
  /\ UNCHANGED <<session, flw>>

FinishAppend == torn /\ torn' = FALSE /\ UNCHANGED <<log, session, flw>>

\* meta.json says that the session is over; the event that says so comes after.
EndSession ==
  /\ ~session.over /\ session.place = "sessions"
  /\ session' = [session EXCEPT !.over = TRUE]
  /\ UNCHANGED <<log, torn, flw>>

\* delete_session moves the directory of a session that is over, or removes it.
RemoveSession ==
  /\ session.over /\ session.place = "sessions"
  /\ \E place \in {"archive", "purged"} : session' = [session EXCEPT !.place = place]
  /\ UNCHANGED <<log, torn, flw>>

-----------------------------------------------------------------------------
\* Reading the file.

Readable(f) == session.place = f.path
file_len(f) == IF ~Readable(f) THEN 0 ELSE 2 * Len(log) - (IF torn THEN 1 ELSE 0)

\* session_is_terminal: a meta.json that cannot be read is not terminal.
session_is_terminal(f) == Readable(f) /\ session.over

\* read_event_records_from_offset: the records that are whole, in order.
RecordsFrom(f, offset) ==
  LET whole == {i \in 1 .. Len(log) : offset <= 2 * (i - 1) /\ 2 * i <= file_len(f)}
  IN  [n \in 1 .. Cardinality(whole) |-> n + (offset + 1) \div 2]

Halves(i) == {2 * i - 1, 2 * i}
Plain(type, cursor) == [type |-> type, cursor |-> cursor, halves |-> {}, dropped |-> {}]
EventFrame(i) == [Plain("event", 2 * i) EXCEPT !.halves = Halves(i)]
EventFrames(recs) == [n \in DOMAIN recs |-> EventFrame(recs[n])]

-----------------------------------------------------------------------------
\* A follower.

Goes(c, from) == flw[c].stage = from /\ UNCHANGED logVars
Becomes(c, f) == flw' = [flw EXCEPT ![c] = f]

\* resolve_session looks in sessions, then in archive; an error ends the task.
Resolve(c, kind) ==
  /\ Goes(c, "new")
  /\ IF session.place = "purged" THEN Becomes(c, [flw[c] EXCEPT !.stage = "done"])
     ELSE Becomes(c, [flw[c] EXCEPT !.stage = "answered", !.kind = kind,
                                    !.path = session.place])

\* events.follow and logs.follow start at the end the file has once the answer is out.
StartAtEnd(c) ==
  /\ Goes(c, "answered") /\ flw[c].kind # "subscribe"
  /\ Becomes(c, [flw[c] EXCEPT !.stage = "poll", !.start = file_len(flw[c]),
                               !.offset = file_len(flw[c]),
                               !.split = file_len(flw[c]) % 2 = 1])

Skipped(recs, keep) ==
  [dropped |-> IF Len(recs) > keep THEN SubSeq(recs, 1, Len(recs) - keep) ELSE <<>>,
   kept    |-> IF Len(recs) > keep THEN SubSeq(recs, Len(recs) - keep + 1, Len(recs)) ELSE recs]

\* Mutant: one lost event is not worth a notice.
LagFramesMany(dropped, cursor) ==
  IF Len(dropped) <= 1 THEN <<>>
  ELSE <<[Plain("lag", cursor) EXCEPT !.dropped = ToSet(dropped)]>>

LagFrames(dropped, cursor) ==
  IF dropped = <<>> THEN <<>>
  ELSE <<[Plain("lag", cursor) EXCEPT !.dropped = ToSet(dropped)]>>

\* A cursor past the end of the file is refused.
Replay(c, cursor, limit) ==
  LET f == flw[c]
      recs == Skipped(RecordsFrom(f, cursor), limit)
      last == IF recs.kept = <<>> THEN cursor ELSE 2 * recs.kept[Len(recs.kept)]
  IN  /\ Goes(c, "answered") /\ f.kind = "subscribe"
      /\ IF cursor > file_len(f)
         THEN Becomes(c, [f EXCEPT !.stage = "ending",
                                   !.batch = <<Plain("error", 0), Plain("closed", 0)>>])
         ELSE Becomes(c, [f EXCEPT !.stage = "poll", !.limit = limit, !.start = cursor,
                                   !.offset = last,
                                   !.batch = <<Plain("ack", cursor)>>
                                             \o LagFrames(recs.dropped, last)
                                             \o EventFrames(recs.kept)])

\* One poll of an event follower.
PollEvents(c) ==
  LET f == flw[c]
      all == RecordsFrom(f, f.offset)
      recs == IF f.kind = "subscribe" THEN Skipped(all, QueueLimit)
              ELSE [dropped |-> <<>>, kept |-> all]
  IN  /\ Goes(c, "poll") /\ f.kind \in {"subscribe", "events"} /\ f.batch = <<>>
      /\ IF all = <<>> THEN Becomes(c, [f EXCEPT !.stage = "check"])
         ELSE Becomes(c, [f EXCEPT !.batch = LagFrames(recs.dropped, f.offset)
                                             \o EventFrames(recs.kept)])

\* Mutant: a line of one stream clears the other's unfinished line too.
AssembledTogether(part, i) ==
  LET s == log[i].stream
  IN  IF s = "none" THEN [part |-> part, line |-> {}]
      ELSE IF log[i].ends THEN [part |-> [t \in Streams |-> {}], line |-> part[s] \cup {i}]
      ELSE [part |-> [part EXCEPT ![s] = @ \cup {i}], line |-> {}]

\* LogLineAssembler::push_event: the line a record completes, if it does.
Assembled(part, i) ==
  LET s == log[i].stream
  IN  IF s = "none" THEN [part |-> part, line |-> {}]
      ELSE IF log[i].ends THEN [part |-> [part EXCEPT ![s] = {}], line |-> part[s] \cup {i}]
      ELSE [part |-> [part EXCEPT ![s] = @ \cup {i}], line |-> {}]

LineFrame(line, cursor) ==
  [Plain("line", cursor) EXCEPT !.halves = UNION {Halves(i) : i \in line}]

\* The frames and the unfinished lines once the first n records were pushed.
Pushed(recs, part) ==
  LET after[n \in 0 .. Len(recs)] ==
        IF n = 0 THEN [part |-> part, frames |-> <<>>]
        ELSE LET step == Assembled(after[n - 1].part, recs[n])
             IN  [part |-> step.part,
                  frames |-> IF step.line = {} THEN after[n - 1].frames
                             ELSE Append(after[n - 1].frames, LineFrame(step.line, 2 * recs[n]))]
  IN  after[Len(recs)]

\* Mutant: the offset moves with the lines that are sent.
PollLogsByLine(c) ==
  LET f == flw[c]
      end == file_len(f)
      pushed == Pushed(RecordsFrom(f, f.offset), f.part)
  IN  /\ Goes(c, "poll") /\ f.kind = "logs" /\ f.batch = <<>>
      /\ IF end <= f.offset THEN Becomes(c, [f EXCEPT !.stage = "check"])
         ELSE Becomes(c, [f EXCEPT !.offset = IF pushed.frames = <<>> THEN @ ELSE end,
                                   !.batch = pushed.frames, !.part = pushed.part])

\* The log followers read to the end of the file whatever it ends in: a record read
\* in two halves is not a line of JSON in either.
PollLogs(c) ==
  LET f == flw[c]
      end == file_len(f)
      pushed == Pushed(RecordsFrom(f, f.offset), f.part)
  IN  /\ Goes(c, "poll") /\ f.kind = "logs" /\ f.batch = <<>>
      /\ IF end <= f.offset THEN Becomes(c, [f EXCEPT !.stage = "check"])
         ELSE Becomes(c, [f EXCEPT !.offset = end, !.batch = pushed.frames,
                                   !.part = pushed.part,
                                   !.split = @ \/ end % 2 = 1])

\* Raw output needs no record to be whole.
PollPty(c) ==
  LET f == flw[c]
      end == file_len(f)
  IN  /\ Goes(c, "poll") /\ f.kind = "pty" /\ f.batch = <<>>
      /\ IF end <= f.offset THEN Becomes(c, [f EXCEPT !.stage = "check"])
         ELSE Becomes(c, [f EXCEPT !.offset = end,
                                   !.batch = <<[Plain("line", end) EXCEPT
                                                  !.halves = f.offset + 1 .. end]>>])

\* LogLineAssembler::flush.
Flushed(part) ==
  [n \in 1 .. Cardinality({s \in Streams : part[s] # {}}) |->
     LineFrame(IF n = 1 /\ part["stdout"] # {} THEN part["stdout"] ELSE part["stderr"], 0)]

\* Nothing was new: is the session over?  A subscriber may be due a heartbeat.
Check(c) ==
  LET f == flw[c]
  IN  /\ Goes(c, "check")
      /\ IF session_is_terminal(f)
         THEN Becomes(c, [f EXCEPT !.stage = "ending", !.part = [s \in Streams |-> {}],
                                   !.batch = Flushed(f.part) \o <<Plain("closed", f.offset)>>])
         ELSE Becomes(c, [f EXCEPT !.stage = "poll"])

Heartbeat(c) ==
  /\ Goes(c, "check") /\ flw[c].kind = "subscribe" /\ ~session_is_terminal(flw[c])
  /\ Becomes(c, [flw[c] EXCEPT !.stage = "poll", !.batch = <<Plain("heartbeat", flw[c].offset)>>])

\* Mutant: the offset stays where it was.
WrittenInPlace(f) ==
  LET frame == Head(f.batch)
  IN  [f EXCEPT !.batch = Tail(@), !.shown = @ \cup frame.halves, !.told = @ \cup frame.dropped,
                !.stage = IF frame.type = "closed" THEN "done" ELSE @]

\* The event followers move their offset with each event they write.
Written(f) ==
  LET frame == Head(f.batch)
  IN  [f EXCEPT !.batch = Tail(@),
                !.cursor = IF frame.type \in {"ack", "lag", "event", "heartbeat"}
                           THEN frame.cursor ELSE @,
                !.shown = @ \cup frame.halves, !.told = @ \cup frame.dropped,
                !.offset = IF frame.type = "event" THEN frame.cursor ELSE @,
                !.stage = IF frame.type = "closed" THEN "done" ELSE @]

WriteFrame(c) ==
  /\ flw[c].batch # <<>> /\ flw[c].here
  /\ Becomes(c, Written(flw[c])) /\ UNCHANGED logVars

\* Mutant: the errors of a subscription are let go as a follower's are.
WriteFailsQuietly(c) ==
  LET f == flw[c]
  IN  /\ f.batch # <<>> /\ ~f.here /\ UNCHANGED logVars
      /\ Becomes(c, [f EXCEPT !.batch = <<>>,
                              !.stage = IF f.stage = "ending" THEN "done" ELSE @])

\* The client is gone: a subscription ends, a follower gives up the batch and goes on.
WriteFails(c) ==
  LET f == flw[c]
      frame == Head(f.batch)
  IN  /\ f.batch # <<>> /\ ~f.here /\ UNCHANGED logVars
      /\ Becomes(c, [f EXCEPT
           !.batch = <<>>,
           !.offset = IF frame.type = "event" THEN frame.cursor ELSE @,
           !.stage = IF f.kind = "subscribe" \/ f.stage = "ending" THEN "done" ELSE @])

ClientLeaves(c) ==
  /\ flw[c].here /\ flw[c].stage \notin {"new", "done"}
  /\ Becomes(c, [flw[c] EXCEPT !.here = FALSE]) /\ UNCHANGED logVars

SessionNext == BeginAppend \/ FinishAppend \/ EndSession \/ RemoveSession

FollowerStep(c) ==
  \/ StartAtEnd(c) \/ \E n \in 0 .. MaxRecords, limit \in ReplayLimits : Replay(c, 2 * n, limit)
  \/ PollEvents(c) \/ PollLogs(c) \/ PollPty(c) \/ Check(c) \/ Heartbeat(c)
  \/ WriteFrame(c) \/ WriteFails(c)

-----------------------------------------------------------------------------
\* Properties.

Recorded(f, i) == Halves(i) \subseteq f.shown

\* Whatever a subscription's offset has passed was sent to the client or counted in a lag
\* notice, so a client that resubscribes from its last event misses nothing silently; and a
\* record that was counted as dropped is not sent after all, unless the replay limit is 0.
SubscriptionHasNoGap ==
  \A c \in Followers :
    LET f == flw[c]
        due == UNION {b.dropped : b \in ToSet(f.batch)}
        halves == f.shown \cup UNION {b.halves : b \in ToSet(f.batch)}
    IN  f.kind = "subscribe" /\ f.here =>
          /\ \A i \in Index : f.start < 2 * i /\ 2 * i <= f.offset
                             => i \in f.told \cup due \/ Halves(i) \subseteq halves
          /\ f.limit > 0 => \A i \in f.told : ~Recorded(f, i)

\* The frames of events reach a client once each and in the order of the file.
EachEventOnceInOrder ==
  [][\A c \in Followers :
       LET frame == Head(flw[c].batch)
       IN  WriteFrame(c) /\ frame.type = "event"
           => \A h \in flw[c].shown, g \in frame.halves : h < g]_vars

\* A log or event follower shows, or holds as an unfinished line, all that was appended
\* since it started, except a record of which it once read one half.
FollowerMissesNothing ==
  \A c \in Followers : LET f == flw[c] IN
    (f.kind \in {"events", "logs", "pty"} /\ f.here /\ f.batch = <<>> /\ ~f.split) =>
      /\ f.kind = "pty" => f.start + 1 .. f.offset \subseteq f.shown
      /\ f.kind = "events" => \A i \in Index : f.start < 2 * i /\ 2 * i <= f.offset => Recorded(f, i)
      /\ f.kind = "logs" => \A i \in Index :
           (f.start < 2 * i /\ 2 * i <= f.offset /\ log[i].stream # "none")
           => Recorded(f, i) \/ i \in f.part[log[i].stream]

\* "opaque monotonic cursors" (docs/2026-07-09-batch-4-control-api.md:25), which the code
\* does not keep: the lag notice of a replay has a cursor ahead of the events after it.
CursorsAreMonotonic ==
  [][\A c \in Followers : flw[c].kind = "subscribe" => flw'[c].cursor >= flw[c].cursor]_vars

\* Once its session is over, a follower closes its stream, unless the session's directory
\* was moved away from under it.
EndedSessionClosesStreams ==
  \A c \in Followers :
    (flw[c].stage # "new" /\ session.over) ~> (flw[c].stage = "done" \/ ~Readable(flw[c]))

\* A subscription whose client is gone ends, at the latest with the next heartbeat.
AbandonedSubscriptionEnds ==
  \A c \in Followers :
    (flw[c].kind = "subscribe" /\ ~flw[c].here) ~> (flw[c].stage = "done")

=============================================================================
