-------------------------------- MODULE Commands --------------------------------
(***************************************************************************)
(* The mutexes of a session (src/src/session.rs) and netmark.config.       *)
(* Commands are executed by the shell, or under --serve by the requests of *)
(* the web CLI, each in its own thread with no lock around a command; the  *)
(* monitor's worker, a selftest and a loop that publishes go on meanwhile. *)
(*                                                                         *)
(* A thread is the list of steps it has left: a lock, an unlock, a use (a  *)
(* lock released with nothing awaited under it), or a step on the file.    *)
(* What is slow under a lock, a query, an HTTP call or a full pipe, passes *)
(* between the lock and its unlock.  Mutexes that are only ever used, and  *)
(* so make nobody wait, are left out (clients, run_started, live, smtp,    *)
(* restapi_config, address, session), and so are backend, which is taken   *)
(* under external alone, and those of the terminal's display.  Of the      *)
(* file, the list of administrators is kept.                               *)
(***************************************************************************)
EXTENDS Naturals, Sequences

CONSTANTS
  Requests,  (* threads that execute a request of the web CLI               *)
  Emails,    (* addresses given to `admin add email`                        *)
  Torn       (* what netmark.config holds between truncation and write, no  *)
             (* list of administrators                                      *)

Locks == {"config", "webrtc", "external", "target"}
Nobody == "nobody"

ASSUME CommandsAssumption ==
  /\ Requests \intersect {"shell", "worker", "publisher", "selftest", Nobody} = {}
  /\ Torn \notin SUBSET Emails

Lock(l) == <<"lock", l>>
Unlock(l) == <<"unlock", l>>
Use(l) == <<"use", l>>
File(s) == <<"file", s>>

Steps ==
  ({"lock", "unlock", "use"} \X Locks)
    \union ({"file"} \X {"add", "delete", "copy", "load", "assign", "truncate", "write"})

VARIABLES
  interactive,  (* the shell, or --serve: chosen when the process starts    *)
  todo,         (* the steps each thread has left of what it executes       *)
  held,         (* who holds each mutex                                     *)
  emails,       (* Config.admin_emails                                      *)
  file,         (* the administrators of netmark.config; Torn if truncated  *)
  document,     (* each thread's local copy of them                         *)
  others        (* history: has any other command written or loaded both?   *)

commandVars == <<interactive, todo, held, emails, file, document, others>>

(* The threads that execute commands.  Only --serve attaches a session to  *)
(* the web CLI, so the shell is alone when there is one (main.rs).         *)
Callers == {"shell"} \union Requests
Threads == Callers \union {"worker", "publisher", "selftest"}

(* The loop that publishes is that of --serve, or the shell's reporter.    *)
Active ==
  {"publisher", "selftest"} \union (IF interactive THEN {"shell", "worker"} ELSE Requests)

-----------------------------------------------------------------------------
(* What each command does with the mutexes, in the order of its code.      *)

(* publish_live: the guard of config lives over its other arguments.       *)
Publish == <<Use("config")>>

(* The right side of `config.webrtc = webrtc.clone()` is evaluated first.  *)
StartRun == <<Use("config"), Lock("webrtc"), Use("config"), Unlock("webrtc"),
              Use("config"), Use("webrtc")>>

RecordFinalMetrics == <<Lock("external"), Unlock("external")>>

StopRun == <<Use("config"), Use("config")>> \o RecordFinalMetrics \o <<Use("config")>>

(* Mutant: the guard of webrtc is locked again for a second field.         *)
StatusLocksTwice == <<Use("config"), Lock("webrtc"), Use("webrtc"), Use("external"), Unlock("webrtc")>>

StatusText == <<Use("config"), Lock("webrtc"), Use("external"), Unlock("webrtc")>>

ProtocolsTable == <<Lock("webrtc"), Use("config"), Unlock("webrtc")>>

(* Mutant: the list is unlocked before the file is written.                *)
UnlockBeforeWrite(edit) ==
  <<Lock("config"), File(edit), File("copy"), Unlock("config"), File("truncate"), File("write")>>

UpdateAdminEmail(edit) ==
  <<Lock("config"), File(edit), File("copy"), File("truncate"), File("write"), Unlock("config")>>

SaveConfiguration ==
  <<Lock("config"), File("copy"), Unlock("config"), Use("external"), Use("webrtc"),
    File("truncate"), File("write")>>

ResetConfiguration ==
  <<File("load"), Lock("config"), File("assign"), Unlock("config"), Use("external"), Use("webrtc")>>

SetSmtpEnabled == <<File("load"), File("truncate"), File("write")>>

Configure == <<Use("config")>>
WebrtcCommand == <<Use("webrtc")>>
SetMetricsSink == <<Use("external")>>
SetTarget == <<Use("target")>>

(* Commands that touch the administrators other than by `admin`.           *)
Foreign == {SaveConfiguration, ResetConfiguration, SetSmtpEnabled}

(* What a caller can be told to do; those that only use what is left out,  *)
(* or return early, have no step here.                                     *)
Dispatch ==
  {<<>>, StartRun, StopRun, StatusText, ProtocolsTable, UpdateAdminEmail("add"),
   UpdateAdminEmail("delete"), Configure, WebrtcCommand, SetMetricsSink, SetTarget} \union Foreign

(* Each check holds target and external until its row is written.          *)
MonitorCheck == <<Lock("target"), Lock("external"), Unlock("external"), Unlock("target")>>

SelftestLeg == <<Use("config"), Use("config")>> \o RecordFinalMetrics

(* What a thread begins when it is idle.  Every command is followed by a   *)
(* publish, and the shell publishes at every poll of the keyboard too.     *)
Scripts(t) ==
  CASE t \in Callers -> {c \o Publish : c \in Dispatch}
    [] t = "worker" -> {SetTarget, MonitorCheck}
    [] t = "publisher" -> {Publish}
    [] OTHER -> {SelftestLeg}

-----------------------------------------------------------------------------

CommandsInit ==
  /\ interactive \in BOOLEAN
  /\ todo = [t \in Threads |-> <<>>]
  /\ held = [l \in Locks |-> Nobody]
  /\ file \in SUBSET Emails
  /\ emails = file
  /\ document = [t \in Threads |-> {}]
  /\ others = FALSE

Begin(t) ==
  /\ t \in Active
  /\ todo[t] = <<>>
  /\ \E s \in Scripts(t) :
       /\ todo' = [todo EXCEPT ![t] = s]
       /\ others' = (others \/ \E c \in Foreign : s = c \o Publish)
  /\ UNCHANGED <<interactive, held, emails, file, document>>

(* The next step t has left is this one, and is now taken.                 *)
Take(t, step) ==
  /\ todo[t] # <<>>
  /\ Head(todo[t]) = step
  /\ todo' = [todo EXCEPT ![t] = Tail(@)]
  /\ UNCHANGED <<interactive, others>>

AcquireLock(t, l) ==
  /\ Take(t, Lock(l))
  /\ held[l] = Nobody
  /\ held' = [held EXCEPT ![l] = t]
  /\ UNCHANGED <<emails, file, document>>

ReleaseLock(t, l) ==
  /\ Take(t, Unlock(l))
  /\ held' = [held EXCEPT ![l] = Nobody]
  /\ UNCHANGED <<emails, file, document>>

UseLock(t, l) ==
  /\ Take(t, Use(l))
  /\ held[l] = Nobody
  /\ UNCHANGED <<held, emails, file, document>>

Edit(t) ==
  /\ \/ Take(t, File("add")) /\ \E e \in Emails : emails' = emails \union {e}
     \/ Take(t, File("delete")) /\ \E e \in Emails : emails' = emails \ {e}
  /\ UNCHANGED <<held, file, document>>

Copy(t) ==
  /\ Take(t, File("copy"))
  /\ document' = [document EXCEPT ![t] = emails]
  /\ UNCHANGED <<held, emails, file>>

(* Mutant: a file that cannot be read is not replaced by the defaults.     *)
LoadTorn(t) ==
  /\ Take(t, File("load"))
  /\ document' = [document EXCEPT ![t] = file]
  /\ UNCHANGED <<held, emails, file>>

(* load(path).unwrap_or_default()                                          *)
Load(t) ==
  /\ Take(t, File("load"))
  /\ document' = [document EXCEPT ![t] = IF file = Torn THEN {} ELSE file]
  /\ UNCHANGED <<held, emails, file>>

Assign(t) ==
  /\ Take(t, File("assign"))
  /\ emails' = document[t]
  /\ document' = [document EXCEPT ![t] = {}]
  /\ UNCHANGED <<held, file>>

(* std::fs::write truncates the file, then writes it.                      *)
Truncate(t) ==
  /\ Take(t, File("truncate"))
  /\ file' = Torn
  /\ UNCHANGED <<held, emails, document>>

Write(t) ==
  /\ Take(t, File("write"))
  /\ file' = document[t]
  /\ document' = [document EXCEPT ![t] = {}]
  /\ UNCHANGED <<held, emails>>

Step(t) ==
  \/ todo[t] # <<>> /\ LET l == Head(todo[t])[2] IN AcquireLock(t, l) \/ ReleaseLock(t, l) \/ UseLock(t, l)
  \/ Edit(t)
  \/ Copy(t)
  \/ Load(t)
  \/ Assign(t)
  \/ Truncate(t)
  \/ Write(t)

CommandsNext == \E t \in Threads : Begin(t) \/ Step(t)

(* A thread whose mutex is free again and again takes it in the end: every *)
(* loop sleeps between its rounds, and callers wait for their users.  What *)
(* passes under a lock ends: calls have timeouts, and the databases, which *)
(* have none, are assumed to answer.  Nobody has to begin anything, and    *)
(* nobody waits for the publisher.                                         *)
CommandsFairness == \A t \in Threads \ {"publisher"} : SF_commandVars(Step(t))

CommandsSpec == CommandsInit /\ [][CommandsNext]_commandVars

CommandsLiveSpec == CommandsSpec /\ CommandsFairness

-----------------------------------------------------------------------------

(* Types; a local copy of the file is never the torn one, since a file     *)
(* that cannot be read counts as the defaults (load, cli.rs).              *)
CommandsTypeOK ==
  /\ interactive \in BOOLEAN
  /\ todo \in [Threads -> Seq(Steps)]
  /\ held \in [Locks -> Threads \union {Nobody}]
  /\ emails \subseteq Emails
  /\ file \in (SUBSET Emails) \union {Torn}
  /\ document \in [Threads -> SUBSET Emails]
  /\ others \in BOOLEAN

(* Administrators are edited, read back and written under one guard of the *)
(* configuration (update_admin_email): as long as only `admin` commands    *)
(* have touched them, whatever two callers do at once, the file agrees     *)
(* with memory whenever the configuration is unlocked.                     *)
AdminUpdatesSerialise == ~others /\ held["config"] = Nobody => file = emails

(* No cycle of mutexes, across all commands and background threads, and no *)
(* statement that locks one twice (the comment at session.rs:584): every   *)
(* command that was begun returns, whatever the other threads do.          *)
CommandsReturn == \A t \in Callers : todo[t] # <<>> ~> todo[t] = <<>>

=============================================================================
