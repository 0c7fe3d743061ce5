----------------------------- MODULE FileWatch ------------------------------
(***************************************************************************)
(* How a change of upstreams.yaml becomes the running configuration.       *)
(*                                                                         *)
(* The watcher (filewatch.rs) sees every change in the directory of the    *)
(* file.  It loads the file when more than two seconds have passed since   *)
(* it started or since its last load, and drops the event otherwise.  A    *)
(* load retries while the file is empty, because a save first truncates    *)
(* the file, and gives up after five reads.  POST /conf loads the body it  *)
(* was sent, writes it to the file if asked to, and sends it               *)
(* (apply_config).  Both send to the background task over a channel of     *)
(* capacity one; Reload says what it does then.                            *)
(*                                                                         *)
(* Contents are version numbers, 0 the empty file; a save in several       *)
(* writes leaves a part of its version on disk, which may parse or not.    *)
(* The two seconds are a flag that the passing of time sets.  Whole        *)
(* versions parse, and probing the servers of a configuration is left to   *)
(* Reload.                                                                 *)
(***************************************************************************)
EXTENDS Naturals, Sequences, FiniteSets

CONSTANTS
    Handlers,   \* tasks spawned by POST /conf
    MaxVersion, \* bound: versions written or posted
    MaxNoise    \* bound: changes of other files in the directory

\* There is a version 1: the file is not empty when the watcher is started.
ASSUME BoundsAssumption == MaxVersion \in Nat \ {0} /\ MaxNoise \in Nat

VARIABLES
    disk,       \* content of upstreams.yaml
    saving,     \* the version a save is about to write, if one is under way
    temp,       \* the version in a temporary file beside it, if there is one
    version,    \* the last version made
    noise,      \* changes of other files so far
    events,     \* events on their way to the watcher
    cooled,     \* start.elapsed() > 2 s
    wPc,        \* watcher: "wait", "read", "send"
    tries,      \* reads made by the load under way
    got,        \* what it read
    post,       \* per handler, [pc, ver, save]
    chan,       \* the channel to the background task
    applied,    \* the configuration received last
    calm        \* history: the last change began at a calm moment

fVars == <<disk, saving, temp, version, noise, events, cooled, wPc, tries, got, post, calm>>
watcher == <<cooled, wPc, tries, got>>
file == <<disk, saving, temp>>
vars == <<file, version, noise, events, watcher, post, chan, applied, calm>>

Empty == 0
Versions == 0..MaxVersion

\* What is on disk when a part of a version is written.
Part(v) == MaxVersion + v
Contents == 0..(2 * MaxVersion)
IsPart(c) == c > MaxVersion

\* Nothing is under way and the watcher will not drop the next event.
CalmMoment ==
    /\ cooled /\ wPc = "wait" /\ events = 0 /\ chan = << >>
    /\ saving = {} /\ temp = {} /\ \A h \in Handlers : post[h].pc = "idle"

-----------------------------------------------------------------------------
(* The environment *)

\* An editor opens the file for writing, which truncates it, ...
Truncate ==
    /\ version < MaxVersion /\ saving = {} /\ temp = {}
    /\ version' = version + 1
    /\ disk' = Empty /\ saving' = {version + 1}
    /\ events' = events + 1
    /\ calm' = CalmMoment
    /\ UNCHANGED <<temp, noise, watcher, post, chan, applied>>

\* ... writes a part of the new content, which ends the calm: the watcher may
\* load the part and drop the event of the rest, ...
WritePart ==
    /\ disk = Empty
    /\ \E v \in saving : disk' = Part(v)
    /\ events' = events + 1
    /\ calm' = FALSE
    /\ UNCHANGED <<saving, temp, version, noise, watcher, post, chan, applied>>

\* ... and writes it all.
Write ==
    /\ \E v \in saving : disk' = v
    /\ saving' = {}
    /\ events' = events + 1
    /\ UNCHANGED <<temp, version, noise, watcher, post, chan, applied, calm>>

\* An editor writes a temporary file, whose creation is an event, ...
WriteTemp ==
    /\ version < MaxVersion /\ saving = {} /\ temp = {}
    /\ version' = version + 1
    /\ temp' = {version + 1}
    /\ events' = events + 1
    /\ calm' = FALSE
    /\ UNCHANGED <<disk, saving, noise, watcher, post, chan, applied>>

\* ... and renames it, which is Modify(Name), an event the watcher ignores.
Rename ==
    /\ \E v \in temp : disk' = v
    /\ temp' = {}
    /\ UNCHANGED <<saving, version, noise, events, watcher, post, chan, applied, calm>>

\* Another file of the directory changes (a certificate, conf.d, autoconfigs).
\* While a POST is under way that ends the calm: the watcher may read the old
\* content, and send it after the handler has saved and sent the new one.
OtherFile ==
    /\ noise < MaxNoise
    /\ noise' = noise + 1
    /\ events' = events + 1
    /\ calm' = (calm /\ \A h \in Handlers : post[h].pc = "idle")
    /\ UNCHANGED <<file, version, watcher, post, chan, applied>>

\* More than two seconds since the last load.
Cool ==
    /\ ~cooled
    /\ cooled' = TRUE
    /\ UNCHANGED <<file, version, noise, events, wPc, tries, got, post, chan,
                   applied, calm>>

-----------------------------------------------------------------------------
(* The watcher *)

Handle ==
    /\ wPc = "wait" /\ events > 0 /\ cooled
    /\ events' = events - 1
    /\ cooled' = FALSE
    /\ wPc' = "read" /\ tries' = 0
    /\ UNCHANGED <<file, version, noise, got, post, chan, applied, calm>>

\* An event soon after a load is dropped; nothing reads the file later.
Drop ==
    /\ wPc = "wait" /\ events > 0 /\ ~cooled
    /\ events' = events - 1
    /\ UNCHANGED <<file, version, noise, watcher, post, chan, applied, calm>>

\* load_configuration reads a content that parses, a whole version or a part.
Read ==
    /\ wPc = "read" /\ disk # Empty
    /\ got' = disk
    /\ wPc' = "send"
    /\ UNCHANGED <<file, version, noise, events, cooled, tries, post, chan,
                   applied, calm>>

\* It reads a part that does not parse, and returns None.
ReadBroken ==
    /\ wPc = "read" /\ IsPart(disk)
    /\ wPc' = "wait"
    /\ UNCHANGED <<file, version, noise, events, cooled, tries, got, post, chan,
                   applied, calm>>

\* for _ in 0..5
Attempts == 5

\* Mutant: the first empty read ends the load.
RetryNot ==
    /\ wPc = "read" /\ disk = Empty
    /\ tries' = tries + 1
    /\ wPc' = "wait"
    /\ calm' = (calm /\ tries' < Attempts)
    /\ UNCHANGED <<file, version, noise, events, cooled, got, post, chan, applied>>

\* It reads nothing and sleeps 10 ms, or gives up after the last attempt.  Then
\* the file was empty for longer than the attempts take, and the event of the
\* write that follows may be dropped: the calm is over.
Retry ==
    /\ wPc = "read" /\ disk = Empty
    /\ tries' = tries + 1
    /\ wPc' = IF tries' < Attempts THEN "read" ELSE "wait"
    /\ calm' = (calm /\ tries' < Attempts)
    /\ UNCHANGED <<file, version, noise, events, cooled, got, post, chan, applied>>

\* toreturn.send waits for room in the channel.
SendLoaded ==
    /\ wPc = "send" /\ chan = << >>
    /\ chan' = <<got>>
    /\ wPc' = "wait"
    /\ UNCHANGED <<file, version, noise, events, cooled, tries, got, post,
                   applied, calm>>

-----------------------------------------------------------------------------
(* POST /conf *)

\* conf answers and spawns apply_config.
Post(h, save) ==
    /\ version < MaxVersion /\ post[h].pc = "idle"
    /\ version' = version + 1
    /\ post' = [post EXCEPT ![h] = [pc |-> "load", ver |-> version + 1, save |-> save]]
    /\ calm' = (CalmMoment /\ save)
    /\ UNCHANGED <<file, noise, events, watcher, chan, applied>>

\* apply_config when its load is done: fs::write, whose truncation and write
\* are two events but which no other task of the runtime can see half done.
Save(h) ==
    /\ post[h].pc = "load"
    /\ post' = [post EXCEPT ![h].pc = "send"]
    /\ IF post[h].save
       THEN disk' = post[h].ver /\ events' = events + 2
       ELSE UNCHANGED <<disk, events>>
    /\ UNCHANGED <<saving, temp, version, noise, watcher, chan, applied, calm>>

\* Mutant: the channel has no capacity limit.
SendPostedUnbounded(h) ==
    /\ post[h].pc = "send"
    /\ chan' = Append(chan, post[h].ver)
    /\ post' = [post EXCEPT ![h].pc = "idle"]
    /\ UNCHANGED <<file, version, noise, events, watcher, applied, calm>>

\* config_sender.send
SendPosted(h) ==
    /\ post[h].pc = "send" /\ chan = << >>
    /\ chan' = <<post[h].ver>>
    /\ post' = [post EXCEPT ![h].pc = "idle"]
    /\ UNCHANGED <<file, version, noise, events, watcher, applied, calm>>

\* The background task receives a configuration and applies it (Reload).
Receive ==
    /\ chan # << >>
    /\ applied' = Head(chan)
    /\ chan' = << >>
    /\ UNCHANGED <<file, version, noise, events, watcher, post, calm>>

\* The watcher has just been started.
WatchInit ==
    /\ disk = 1 /\ saving = {} /\ temp = {} /\ version = 1 /\ noise = 0
    /\ events = 0 /\ cooled = FALSE
    /\ wPc = "wait" /\ tries = 0 /\ got = Empty
    /\ post = [h \in Handlers |-> [pc |-> "idle", ver |-> Empty, save |-> FALSE]]
    /\ calm = FALSE

\* LB::start has loaded version 1 and sent it.
Init == WatchInit /\ chan = <<1>> /\ applied = Empty

Load == Read \/ ReadBroken \/ Retry

Watcher == Handle \/ Drop \/ Load \/ SendLoaded

Next ==
    \/ Truncate \/ WritePart \/ Write \/ WriteTemp \/ Rename \/ OtherFile \/ Cool
    \/ Watcher
    \/ \E h \in Handlers :
          Save(h) \/ SendPosted(h) \/ \E save \in BOOLEAN : Post(h, save)
    \/ Receive

Spec == Init /\ [][Next]_vars

\* A save that began ends, time passes, and the runtime runs the watcher, the
\* handlers and the background task, serving waiting senders in turn.
Fairness ==
    /\ WF_vars(Write) /\ WF_vars(Rename) /\ WF_vars(Cool) /\ WF_vars(Receive)
    /\ WF_vars(Handle \/ Drop) /\ WF_vars(Load)
    /\ SF_vars(SendLoaded)
    /\ \A h \in Handlers : WF_vars(Save(h)) /\ SF_vars(SendPosted(h))

FairSpec == Spec /\ Fairness

-----------------------------------------------------------------------------
(* Properties *)

\* Types of the variables, and the capacity of the channel.
TypeOK ==
    /\ disk \in Contents /\ {saving, temp} \subseteq SUBSET Versions
    /\ version \in Versions /\ noise \in 0..MaxNoise
    /\ events \in Nat
    /\ cooled \in BOOLEAN /\ wPc \in {"wait", "read", "send"}
    /\ tries \in 0..Attempts /\ got \in Contents
    /\ post \in [Handlers -> [pc : {"idle", "load", "send"}, ver : Versions,
                              save : BOOLEAN]]
    /\ chan \in Seq(Contents) /\ Len(chan) <= 1
    /\ applied \in Contents
    /\ calm \in BOOLEAN

\* Once nobody changes the file any more, the running configuration is the
\* content of the file (README.md: "Changes to `upstreams.yaml` are applied
\* immediately on save without restart").
EditApplied == <>[](applied = disk)
=============================================================================
