-------------------------------- MODULE RequestsProofs --------------------------------
(***************************************************************************)
(* Proofs about what requests do to one process: the commands of the shell *)
(* and of the web CLI (Commands), for any number of requests, and the runs *)
(* posted to /api/v1/runs (ProfileRuns), for any set of posts and any      *)
(* number of session runs.                                                 *)
(***************************************************************************)
EXTENDS Commands, ProfileRuns, SequenceTheorems, TLAPS

(* Commands.                                                               *)

(* What the scripts are made of, and the scripts themselves, are of type.  *)
LEMMA StepType ==
  /\ \A l \in Locks : Lock(l) \in Steps /\ Unlock(l) \in Steps /\ Use(l) \in Steps
  /\ \A s \in {"add", "delete", "copy", "load", "assign", "truncate", "write"} : File(s) \in Steps
BY DEF Lock, Unlock, Use, File, Steps

(* Every command, and every loop's round, is a sequence of steps.          *)
LEMMA DispatchType ==
  /\ \A c \in Dispatch : c \in Seq(Steps)
  /\ Publish \in Seq(Steps) /\ SetTarget \in Seq(Steps) /\ MonitorCheck \in Seq(Steps)
  /\ SelftestLeg \in Seq(Steps)
<1>1. /\ "config" \in Locks /\ "webrtc" \in Locks /\ "external" \in Locks /\ "target" \in Locks
  BY DEF Locks
<1> USE <1>1, StepType
<1>2. Publish \in Seq(Steps) /\ StartRun \in Seq(Steps) /\ RecordFinalMetrics \in Seq(Steps)
  BY DEF Publish, StartRun, RecordFinalMetrics
<1>3. StopRun \in Seq(Steps) /\ SelftestLeg \in Seq(Steps)
  BY <1>2 DEF StopRun, SelftestLeg
<1>4. StatusText \in Seq(Steps) /\ ProtocolsTable \in Seq(Steps) /\ MonitorCheck \in Seq(Steps)
  BY DEF StatusText, ProtocolsTable, MonitorCheck
<1>5. SaveConfiguration \in Seq(Steps) /\ ResetConfiguration \in Seq(Steps) /\ SetSmtpEnabled \in Seq(Steps)
  BY DEF SaveConfiguration, ResetConfiguration, SetSmtpEnabled
<1>6. UpdateAdminEmail("add") \in Seq(Steps) /\ UpdateAdminEmail("delete") \in Seq(Steps)
  BY DEF UpdateAdminEmail
<1>7. Configure \in Seq(Steps) /\ WebrtcCommand \in Seq(Steps) /\ SetMetricsSink \in Seq(Steps)
      /\ SetTarget \in Seq(Steps)
  BY DEF Configure, WebrtcCommand, SetMetricsSink, SetTarget
<1>8. \A c \in Dispatch : c \in Seq(Steps)
  <2>1. <<>> \in Seq(Steps)
    OBVIOUS
  <2>2. QED
    BY <1>2, <1>3, <1>4, <1>5, <1>6, <1>7, <2>1, Zenon DEF Dispatch, Foreign
<1>9. QED
  BY <1>2, <1>3, <1>4, <1>7, <1>8

(* What a thread begins is a sequence of steps.                            *)
LEMMA ScriptsType == ASSUME NEW t \in Threads, NEW s \in Scripts(t) PROVE s \in Seq(Steps)
<1>1. \A c \in Dispatch : c \o Publish \in Seq(Steps)
  <2> SUFFICES ASSUME NEW c \in Dispatch PROVE c \o Publish \in Seq(Steps)
    OBVIOUS
  <2>1. c \in Seq(Steps) /\ Publish \in Seq(Steps)
    BY DispatchType
  <2>2. QED
    BY <2>1
<1>2. QED
  BY <1>1, DispatchType DEF Scripts

(* At the start nobody executes anything.                                  *)
LEMMA InitTypes == ASSUME CommandsInit PROVE CommandsTypeOK
<1>1. <<>> \in Seq(Steps)
  OBVIOUS
<1>2. \A x \in SUBSET Emails : x # Torn
  BY CommandsAssumption
<1>3. {} \in SUBSET Emails
  OBVIOUS
<1>4. QED
  BY <1>1, <1>2, <1>3 DEF CommandsInit, CommandsTypeOK

(* The state of Commands keeps its type: what is left of a script is one,  *)
(* and no thread ever copies the administrators of a truncated file (load).*)
THEOREM CommandsTypes == CommandsSpec => []CommandsTypeOK
<1>1. CommandsInit => CommandsTypeOK
  BY InitTypes
<1>2. CommandsTypeOK /\ [CommandsNext]_commandVars => CommandsTypeOK'
  <2> SUFFICES ASSUME CommandsTypeOK, [CommandsNext]_commandVars PROVE CommandsTypeOK'
    OBVIOUS
  <2>0. \A x \in SUBSET Emails : x # Torn
    BY CommandsAssumption
  <2>1. ASSUME NEW t \in Threads, Begin(t) PROVE CommandsTypeOK'
    BY <2>1, ScriptsType DEF Begin, CommandsTypeOK
  <2>2. ASSUME NEW t \in Threads, Step(t) PROVE CommandsTypeOK'
    <3>1. ASSUME NEW step, Take(t, step)
          PROVE  todo' \in [Threads -> Seq(Steps)] /\ UNCHANGED <<interactive, others>>
      <4>1. todo[t] \in Seq(Steps) /\ todo[t] # <<>> /\ todo' = [todo EXCEPT ![t] = Tail(@)]
        BY <3>1 DEF Take, CommandsTypeOK
      <4>2. Tail(todo[t]) \in Seq(Steps)
        BY <4>1
      <4>3. QED
        BY <3>1, <4>1, <4>2 DEF Take, CommandsTypeOK
    <3>2. ASSUME NEW l, AcquireLock(t, l) \/ ReleaseLock(t, l) \/ UseLock(t, l) PROVE CommandsTypeOK'
      <4>1. todo' \in [Threads -> Seq(Steps)] /\ UNCHANGED <<interactive, others>>
        BY <3>1, <3>2 DEF AcquireLock, ReleaseLock, UseLock
      <4>2. held' \in [Locks -> Threads \union {Nobody}]
        BY <3>2 DEF AcquireLock, ReleaseLock, UseLock, CommandsTypeOK
      <4>3. QED
        BY <3>2, <4>1, <4>2 DEF AcquireLock, ReleaseLock, UseLock, CommandsTypeOK
    <3>3. CASE Edit(t)
      BY <3>1, <3>3 DEF Edit, CommandsTypeOK
    <3>4. CASE Copy(t)
      BY <2>0, <3>1, <3>4 DEF Copy, CommandsTypeOK
    <3>5. CASE Load(t)
      <4>1. file \in SUBSET Emails \/ file = Torn
        BY DEF CommandsTypeOK
      <4>2. (IF file = Torn THEN {} ELSE file) \in SUBSET Emails
        BY <4>1
      <4>3. document' \in [Threads -> SUBSET Emails]
        BY <3>5, <4>2 DEF Load, CommandsTypeOK
      <4>4. QED
        BY <3>1, <3>5, <4>3 DEF Load, CommandsTypeOK
    <3>6. CASE Assign(t)
      BY <2>0, <3>1, <3>6 DEF Assign, CommandsTypeOK
    <3>7. CASE Truncate(t)
      <4>1. file' \in (SUBSET Emails) \union {Torn}
        BY <3>7, Zenon DEF Truncate
      <4>2. QED
        BY <3>1, <3>7, <4>1 DEF Truncate, CommandsTypeOK
    <3>8. CASE Write(t)
      BY <2>0, <3>1, <3>8 DEF Write, CommandsTypeOK
    <3>9. QED
      BY <2>2, <3>2, <3>3, <3>4, <3>5, <3>6, <3>7, <3>8 DEF Step
  <2>3. CASE UNCHANGED commandVars
    BY <2>3 DEF commandVars, CommandsTypeOK
  <2>4. QED
    BY <2>1, <2>2, <2>3 DEF CommandsNext
<1>3. QED
  BY <1>1, <1>2, PTL DEF CommandsSpec

(* No step of s is on the file, or locks or unlocks the configuration.     *)
Harmless(s) ==
  \A i \in 1 .. Len(s) : s[i][1] # "file" /\ s[i] # Lock("config") /\ s[i] # Unlock("config")

(* An `admin` command with its publish; and s is what it has left, its     *)
(* first k - 1 steps taken.                                                *)
AdminScript(e) == UpdateAdminEmail(e) \o Publish

AdminFrom(s, k) ==
  \E e \in {"add", "delete"} :
    /\ Len(s) = 8 - k
    /\ \A i \in 1 .. 8 - k : s[i] = AdminScript(e)[i + k - 1]

(* The scripts that leave the file alone.                                  *)
LEMMA HarmlessScripts ==
  /\ Harmless(Publish) /\ Harmless(StartRun) /\ Harmless(StopRun) /\ Harmless(StatusText)
  /\ Harmless(ProtocolsTable) /\ Harmless(MonitorCheck) /\ Harmless(SelftestLeg) /\ Harmless(<<>>)
  /\ Harmless(Configure) /\ Harmless(WebrtcCommand) /\ Harmless(SetMetricsSink) /\ Harmless(SetTarget)
<1>1. /\ Harmless(Publish) /\ Harmless(StartRun) /\ Harmless(StatusText)
      /\ Harmless(ProtocolsTable) /\ Harmless(MonitorCheck)
  BY DEF Harmless, Publish, StartRun, StatusText, ProtocolsTable, MonitorCheck, Lock, Unlock, Use
<1>2. /\ Harmless(Configure) /\ Harmless(WebrtcCommand) /\ Harmless(SetMetricsSink) /\ Harmless(SetTarget)
  BY DEF Harmless, Configure, WebrtcCommand, SetMetricsSink, SetTarget, Lock, Unlock, Use
<1>3. Harmless(StopRun) /\ Harmless(SelftestLeg) /\ Harmless(<<>>)
  BY DEF Harmless, StopRun, SelftestLeg, RecordFinalMetrics, Lock, Unlock, Use
<1>4. QED
  BY <1>1, <1>2, <1>3

(* The steps of an `admin` command, by position.                           *)
LEMMA AdminScriptSteps ==
  ASSUME NEW e \in {"add", "delete"}
  PROVE  LET a == AdminScript(e) IN
           /\ a[1] = Lock("config") /\ a[2] = File(e) /\ a[3] = File("copy")
           /\ a[4] = File("truncate") /\ a[5] = File("write") /\ a[6] = Unlock("config")
           /\ a[7] = Use("config")
           /\ Len(a) = 7
<1> DEFINE u == UpdateAdminEmail(e)
<1>1. u = <<Lock("config"), File(e), File("copy"), File("truncate"), File("write"), Unlock("config")>>
  BY DEF UpdateAdminEmail
<1>2. Publish = <<Use("config")>>
  BY DEF Publish
<1>3. u \in Seq(Steps) /\ Publish \in Seq(Steps)
  BY <1>1, <1>2, StepType DEF Locks
<1>4. Len(u) = 6 /\ Len(Publish) = 1
  BY <1>1, <1>2
<1> HIDE DEF u
<1>5. /\ Len(u \o Publish) = 7 /\ (u \o Publish)[7] = Publish[1]
      /\ \A i \in 1 .. 6 : (u \o Publish)[i] = u[i]
  <2>1. ASSUME NEW v \in Seq(Steps), NEW p \in Seq(Steps), Len(v) = 6, Len(p) = 1
        PROVE  /\ Len(v \o p) = 7 /\ (v \o p)[7] = p[1]
               /\ \A i \in 1 .. 6 : (v \o p)[i] = v[i]
    <3>1. /\ Len(v \o p) = Len(v) + Len(p)
          /\ \A i \in 1 .. Len(v) + Len(p) :
               (v \o p)[i] = IF i <= Len(v) THEN v[i] ELSE p[i - Len(v)]
      BY ConcatProperties
    <3>2. 7 \in 1 .. Len(v) + Len(p) /\ \A i \in 1 .. 6 : i \in 1 .. Len(v) + Len(p)
      BY <2>1
    <3>3. QED
      BY <2>1, <3>1, <3>2
  <2>2. QED
    BY <1>3, <1>4, <2>1
<1>6. AdminScript(e) = u \o Publish
  BY DEF AdminScript, u
<1>7. QED
  BY <1>1, <1>2, <1>5, <1>6

(* A publish appended to a harmless command leaves it harmless.            *)
LEMMA HarmlessConcat ==
  ASSUME NEW s \in Seq(Steps), Harmless(s)
  PROVE  Harmless(s \o Publish)
<1>1. Publish = <<Use("config")>> /\ Publish \in Seq(Steps) /\ Len(Publish) = 1
  BY StepType DEF Publish, Locks
<1>2. Use("config")[1] # "file" /\ Use("config") # Lock("config") /\ Use("config") # Unlock("config")
  BY DEF Use, Lock, Unlock
<1>3. /\ Len(s \o Publish) = Len(s) + 1
      /\ \A i \in 1 .. Len(s) : (s \o Publish)[i] = s[i]
      /\ (s \o Publish)[Len(s) + 1] = Use("config")
  BY <1>1
<1>4. QED
  BY <1>2, <1>3 DEF Harmless

(* Every script but those of Foreign is harmless, or an `admin` command.   *)
LEMMA ScriptsHarmless ==
  ASSUME NEW t \in Threads, NEW s \in Scripts(t), ~\E c \in Foreign : s = c \o Publish
  PROVE  Harmless(s) \/ AdminFrom(s, 1)
<1>1. ASSUME NEW c \in Dispatch, s = c \o Publish PROVE Harmless(s) \/ AdminFrom(s, 1)
  <2>1. CASE \E e \in {"add", "delete"} : c = UpdateAdminEmail(e)
    <3>1. PICK e \in {"add", "delete"} : s = AdminScript(e)
      BY <1>1, <2>1 DEF AdminScript
    <3>2. QED
      BY <3>1, AdminScriptSteps DEF AdminFrom
  <2>2. CASE ~\E e \in {"add", "delete"} : c = UpdateAdminEmail(e)
    <3>1. c \in {<<>>, StartRun, StopRun, StatusText, ProtocolsTable, Configure, WebrtcCommand,
                 SetMetricsSink, SetTarget}
      BY <1>1, <2>2, Zenon DEF Dispatch
    <3>2. Harmless(c)
      BY <3>1, HarmlessScripts, Zenon
    <3>3. QED
      BY <1>1, <3>2, DispatchType, HarmlessConcat
  <2>3. QED
    BY <2>1, <2>2
<1>2. QED
  BY <1>1, HarmlessScripts, Zenon DEF Scripts

(* A harmless script stays harmless, and what it does next is harmless.    *)
LEMMA HarmlessStep ==
  ASSUME NEW s \in Seq(Steps), s # <<>>, Harmless(s)
  PROVE  /\ Harmless(Tail(s))
         /\ \A d : Head(s) # File(d)
         /\ Head(s) # Lock("config") /\ Head(s) # Unlock("config")
<1>1. Head(s) = s[1] /\ Len(s) \in Nat /\ Len(s) > 0
  OBVIOUS
<1>2. \A d : File(d)[1] = "file"
  BY DEF File
<1>3. Len(Tail(s)) = Len(s) - 1 /\ \A i \in 1 .. Len(s) - 1 : Tail(s)[i] = s[i + 1]
  BY <1>1
<1>4. Harmless(Tail(s))
  BY <1>1, <1>3 DEF Harmless
<1>5. QED
  BY <1>1, <1>2, <1>4 DEF Harmless

(* An `admin` command goes through its positions in order, and is at one.  *)
LEMMA AdminStep ==
  ASSUME NEW s \in Seq(Steps), NEW k \in 1 .. 6, AdminFrom(s, k)
  PROVE  /\ s # <<>> /\ ~Harmless(s)
         /\ IF k = 6 THEN Harmless(Tail(s)) ELSE AdminFrom(Tail(s), k + 1)
         /\ k = 1 => Head(s) = Lock("config")
         /\ k = 2 => Head(s) \in {File("add"), File("delete")}
         /\ k = 3 => Head(s) = File("copy")
         /\ k = 4 => Head(s) = File("truncate")
         /\ k = 5 => Head(s) = File("write")
         /\ k = 6 => Head(s) = Unlock("config")
         /\ \A j \in 1 .. 6 : AdminFrom(s, j) => j = k
<1>1. PICK e \in {"add", "delete"} :
        Len(s) = 8 - k /\ \A i \in 1 .. 8 - k : s[i] = AdminScript(e)[i + k - 1]
  BY DEF AdminFrom
<1> DEFINE a == AdminScript(e)
<1>2. /\ a[1] = Lock("config") /\ a[2] = File(e) /\ a[3] = File("copy") /\ a[4] = File("truncate")
      /\ a[5] = File("write") /\ a[6] = Unlock("config") /\ a[7] = Use("config")
  BY AdminScriptSteps
<1>3. s # <<>> /\ Head(s) = s[1] /\ s[1] = a[k] /\ s[7 - k] = Unlock("config")
  BY <1>1, <1>2
<1>4. ~Harmless(s)
  BY <1>1, <1>3 DEF Harmless
<1>5. Len(Tail(s)) = 7 - k /\ \A i \in 1 .. 7 - k : Tail(s)[i] = a[i + k]
  <2>1. Tail(s) \in Seq(Steps) /\ Len(Tail(s)) = Len(s) - 1
        /\ \A i \in 1 .. Len(s) - 1 : Tail(s)[i] = s[i + 1]
    BY <1>1, <1>3
  <2>2. QED
    BY <1>1, <2>1
<1>6. k # 6 => AdminFrom(Tail(s), k + 1)
  <2> HIDE DEF a
  <2>1. k # 6 => \A i \in 1 .. 8 - (k + 1) : Tail(s)[i] = a[i + (k + 1) - 1]
    BY <1>5
  <2>2. QED
    BY <1>5, <2>1 DEF AdminFrom, a
<1>7. k = 6 => Harmless(Tail(s))
  <2>1. Use("config")[1] # "file" /\ Use("config") # Lock("config") /\ Use("config") # Unlock("config")
    BY DEF Use, Lock, Unlock
  <2> HIDE DEF a
  <2>2. QED
    BY <1>2, <1>5, <2>1 DEF Harmless
<1>8. \A j \in 1 .. 6 : AdminFrom(s, j) => j = k
  BY <1>1 DEF AdminFrom
<1> HIDE DEF a
<1>9. QED
  BY <1>2, <1>3, <1>4, <1>6, <1>7, <1>8

(* t is past the lock of an `admin` command and before its unlock.         *)
Holding(t) == \E k \in 2 .. 6 : AdminFrom(todo[t], k)

(* While the commands of Foreign have not run: every thread executes a     *)
(* harmless script or an `admin` command;                                  *)
FollowsScripts ==
  \A t \in Threads : Harmless(todo[t]) \/ \E k \in 1 .. 6 : AdminFrom(todo[t], k)

(* the configuration is locked exactly by the one that holds it;           *)
HoldersLock == \A t \in Threads : Holding(t) <=> held["config"] = t

(* the file agrees with memory when the configuration is free, before the  *)
(* list is edited, and after it is written; the copy agrees in between.    *)
FileFollows ==
  /\ held["config"] = Nobody => file = emails
  /\ \A t \in Threads :
       /\ \A k \in {2, 6} : AdminFrom(todo[t], k) => file = emails
       /\ \A k \in {4, 5} : AdminFrom(todo[t], k) => document[t] = emails

AdminInv == ~others => FollowsScripts /\ HoldersLock /\ FileFollows

(* A mutex that nobody holds is held by no thread.                         *)
LEMMA NobodyIsNoThread == Nobody \notin Threads
BY CommandsAssumption DEF Threads, Callers, Nobody

(* At the start the file is what was read from it.                         *)
LEMMA InitAdmin == ASSUME CommandsInit PROVE AdminInv
<1>1. \A t \in Threads : todo[t] = <<>> /\ held["config"] = Nobody
  BY DEF CommandsInit, Locks
<1>2. \A k \in 1 .. 6 : ~AdminFrom(<<>>, k)
  <2> SUFFICES ASSUME NEW k \in 1 .. 6, AdminFrom(<<>>, k) PROVE FALSE
    OBVIOUS
  <2>1. <<>> \in Seq(Steps)
    OBVIOUS
  <2>2. QED
    BY <2>1, AdminStep
<1>3. FollowsScripts /\ HoldersLock
  BY <1>1, <1>2, HarmlessScripts, NobodyIsNoThread DEF FollowsScripts, HoldersLock, Holding
<1>4. FileFollows
  BY <1>1, <1>2 DEF FileFollows, CommandsInit
<1>5. QED
  BY <1>3, <1>4 DEF AdminInv

(* An idle thread begins a script: no administrator is touched yet.        *)
LEMMA BeginKeeps ==
  ASSUME CommandsTypeOK, AdminInv, NEW t \in Threads, Begin(t) PROVE AdminInv'
<1> SUFFICES ASSUME ~others' PROVE FollowsScripts' /\ HoldersLock' /\ FileFollows'
  BY DEF AdminInv
<1>1. ~others
  BY DEF Begin
<1>2. PICK s \in Scripts(t) : todo' = [todo EXCEPT ![t] = s] /\ ~\E c \in Foreign : s = c \o Publish
  BY DEF Begin
<1>3. Harmless(s) \/ AdminFrom(s, 1)
  BY <1>2, ScriptsHarmless
<1>4. s \in Seq(Steps) /\ todo[t] = <<>>
  BY ScriptsType DEF Begin
<1>5. todo'[t] = s /\ \A u \in Threads \ {t} : todo'[u] = todo[u]
  BY <1>2 DEF CommandsTypeOK
<1>6. \A k \in 2 .. 6 : ~AdminFrom(s, k)
  BY <1>3, <1>4, AdminStep
<1>7. \A k \in 1 .. 6 : ~AdminFrom(todo[t], k)
  <2>1. <<>> \in Seq(Steps)
    OBVIOUS
  <2>2. QED
    BY <1>4, <2>1, AdminStep
<1>8. UNCHANGED <<held, emails, file, document>>
  BY DEF Begin
<1>9. FollowsScripts'
  BY <1>1, <1>3, <1>5 DEF AdminInv, FollowsScripts
<1>10. HoldersLock'
  BY <1>1, <1>5, <1>6, <1>7, <1>8 DEF AdminInv, HoldersLock, Holding
<1>11. FileFollows'
  BY <1>1, <1>5, <1>6, <1>8 DEF AdminInv, FileFollows
<1>12. QED
  BY <1>9, <1>10, <1>11

(* A step of a harmless script.                                            *)
LEMMA HarmlessKeeps ==
  ASSUME CommandsTypeOK, AdminInv, ~others, NEW t \in Threads, NEW step, Take(t, step),
         Harmless(todo[t]), held'["config"] = held["config"],
         UNCHANGED <<emails, file, document>>
  PROVE  FollowsScripts' /\ HoldersLock' /\ FileFollows'
<1>1. todo[t] \in Seq(Steps) /\ todo[t] # <<>>
  BY DEF CommandsTypeOK, Take
<1>2. todo'[t] = Tail(todo[t]) /\ \A u \in Threads \ {t} : todo'[u] = todo[u]
  BY DEF CommandsTypeOK, Take
<1>3. Harmless(todo'[t]) /\ todo'[t] \in Seq(Steps)
  BY <1>1, <1>2, HarmlessStep
<1>4. \A k \in 1 .. 6 : ~AdminFrom(todo[t], k) /\ ~AdminFrom(todo'[t], k)
  BY <1>1, <1>3, AdminStep
<1>5. FollowsScripts'
  BY <1>2, <1>3 DEF AdminInv, FollowsScripts
<1>6. HoldersLock'
  BY <1>2, <1>4 DEF AdminInv, HoldersLock, Holding
<1>7. FileFollows'
  BY <1>2, <1>4 DEF AdminInv, FileFollows
<1>8. QED
  BY <1>5, <1>6, <1>7

(* A step of an `admin` command.  The others are outside their locks: it   *)
(* holds the configuration, or nobody does when it takes it.               *)
LEMMA AdminKeeps ==
  ASSUME CommandsTypeOK, AdminInv, ~others, NEW t \in Threads, Step(t),
         NEW k \in 1 .. 6, AdminFrom(todo[t], k)
  PROVE  FollowsScripts' /\ HoldersLock' /\ FileFollows'
<1>1. todo[t] \in Seq(Steps)
  BY DEF CommandsTypeOK
<1> DEFINE s == todo[t]
<1>2. todo' = [todo EXCEPT ![t] = Tail(@)]
  BY DEF Step, AcquireLock, ReleaseLock, UseLock, Edit, Copy, Load, Assign, Truncate, Write, Take
<1>3. todo'[t] = Tail(s) /\ \A u \in Threads \ {t} : todo'[u] = todo[u]
  BY <1>2 DEF CommandsTypeOK
<1>4. Tail(s) \in Seq(Steps)
  <2>1. s # <<>>
    BY <1>1, AdminStep
  <2>2. QED
    BY <1>1, <2>1
<1> HIDE DEF s
<1>5. \A j \in 1 .. 6 : AdminFrom(todo[t], j) <=> j = k
  BY <1>1, AdminStep
<1>6. IF k = 6 THEN \A j \in 1 .. 6 : ~AdminFrom(todo'[t], j)
      ELSE \A j \in 1 .. 6 : AdminFrom(todo'[t], j) <=> j = k + 1
  <2>1. IF k = 6 THEN Harmless(Tail(s)) ELSE AdminFrom(Tail(s), k + 1)
    BY <1>1, AdminStep DEF s
  <2> DEFINE r == todo'[t]
  <2>2. r \in Seq(Steps) /\ IF k = 6 THEN Harmless(r) ELSE AdminFrom(r, k + 1)
    BY <1>3, <1>4, <2>1
  <2> HIDE DEF r
  <2>3. /\ k = 6 => \A j \in 1 .. 6 : ~AdminFrom(r, j)
        /\ k # 6 => \A j \in 1 .. 6 : AdminFrom(r, j) <=> j = k + 1
    <3>1. CASE k = 6
      BY <2>2, <3>1, AdminStep
    <3>2. CASE k # 6
      <4>1. k + 1 \in 1 .. 6 /\ AdminFrom(r, k + 1)
        BY <2>2, <3>2
      <4>2. \A j \in 1 .. 6 : AdminFrom(r, j) => j = k + 1
        BY <2>2, <4>1, AdminStep
      <4>3. QED
        BY <3>2, <4>1, <4>2
    <3>3. QED
      BY <3>1, <3>2
  <2>4. QED
    BY <2>3 DEF r
<1>7. FollowsScripts'
  <2>1. Harmless(todo'[t]) \/ \E j \in 1 .. 6 : AdminFrom(todo'[t], j)
    BY <1>1, <1>3, AdminStep DEF s
  <2>2. QED
    BY <1>3, <2>1 DEF AdminInv, FollowsScripts
<1>8. /\ k = 1 => AcquireLock(t, "config")
      /\ k = 2 => Edit(t)
      /\ k = 3 => Copy(t)
      /\ k = 4 => Truncate(t)
      /\ k = 5 => Write(t)
      /\ k = 6 => ReleaseLock(t, "config")
  BY <1>1, AdminStep DEF Step, AcquireLock, ReleaseLock, UseLock, Edit, Copy, Load, Assign, Truncate, Write,
    Take, Lock, Unlock, Use, File
<1>9. \A u \in Threads : Holding(u) <=> held["config"] = u
  BY DEF AdminInv, HoldersLock
<1>10. Nobody \notin Threads /\ "config" \in Locks
  BY NobodyIsNoThread DEF Locks
<1>11. \A u \in Threads \ {t} : \A j \in 2 .. 6 : ~AdminFrom(todo[u], j)
  <2>1. held["config"] \in {t, Nobody}
    <3>1. CASE k = 1
      BY <1>8, <3>1 DEF AcquireLock
    <3>2. CASE k # 1
      BY <1>5, <1>9, <3>2 DEF Holding
    <3>3. QED
      BY <3>1, <3>2
  <2>2. QED
    BY <1>9, <1>10, <2>1 DEF Holding
<1>12. held'["config"] = IF k = 6 THEN Nobody ELSE t
  <2>1. k \in 2 .. 6 => held["config"] = t
    BY <1>5, <1>9 DEF Holding
  <2>2. QED
    BY <1>8, <1>10, <2>1 DEF AcquireLock, ReleaseLock, Edit, Copy, Truncate, Write, CommandsTypeOK
<1>13. HoldersLock'
  <2>1. \A u \in Threads \ {t} : ~Holding(u)'
    BY <1>3, <1>11 DEF Holding
  <2>2. Holding(t)' <=> k # 6
    BY <1>6 DEF Holding
  <2>3. QED
    BY <1>10, <1>12, <2>1, <2>2 DEF HoldersLock
<1>14. FileFollows'
  <2>1. \A u \in Threads \ {t} : \A j \in 2 .. 6 : ~AdminFrom(todo'[u], j)
    BY <1>3, <1>11
  <2>2. k = 1 => file' = emails'
    BY <1>8 DEF AcquireLock, AdminInv, FileFollows
  <2>3. k = 3 => document'[t] = emails'
    BY <1>8 DEF Copy, CommandsTypeOK
  <2>4. k = 4 => document'[t] = emails'
    BY <1>8, <1>5 DEF Truncate, AdminInv, FileFollows
  <2>5. k = 5 => file' = emails'
    BY <1>8, <1>5 DEF Write, AdminInv, FileFollows
  <2>6. k = 6 => file' = emails'
    BY <1>8, <1>5 DEF ReleaseLock, AdminInv, FileFollows
  <2>7. held'["config"] = Nobody => file' = emails'
    BY <1>10, <1>12, <2>6
  <2>8. \A j \in {2, 6} : AdminFrom(todo'[t], j) => file' = emails'
    BY <1>6, <2>2, <2>5
  <2>9. \A j \in {4, 5} : AdminFrom(todo'[t], j) => document'[t] = emails'
    BY <1>6, <2>3, <2>4
  <2>10. QED
    BY <2>1, <2>7, <2>8, <2>9 DEF FileFollows
<1>15. QED
  BY <1>7, <1>13, <1>14

(* A step of a script of either kind.                                      *)
LEMMA StepKeeps ==
  ASSUME CommandsTypeOK, AdminInv, NEW t \in Threads, Step(t) PROVE AdminInv'
<1> SUFFICES ASSUME ~others' PROVE FollowsScripts' /\ HoldersLock' /\ FileFollows'
  BY DEF AdminInv
<1>1. ~others /\ todo[t] # <<>>
  BY DEF Step, AcquireLock, ReleaseLock, UseLock, Edit, Copy, Load, Assign, Truncate, Write, Take
<1>2. CASE \E k \in 1 .. 6 : AdminFrom(todo[t], k)
  BY <1>1, <1>2, AdminKeeps
<1>3. CASE Harmless(todo[t])
  <2>1. todo[t] \in Seq(Steps)
    BY DEF CommandsTypeOK
  <2>2. /\ \A d : Head(todo[t]) # File(d)
        /\ Head(todo[t]) # Lock("config") /\ Head(todo[t]) # Unlock("config")
    BY <1>1, <1>3, <2>1, HarmlessStep
  <2>3. PICK l : AcquireLock(t, l) \/ ReleaseLock(t, l) \/ UseLock(t, l)
    BY <2>2 DEF Step, Edit, Copy, Load, Assign, Truncate, Write, Take
  <2>4. \E step : Take(t, step)
    BY <2>3 DEF AcquireLock, ReleaseLock, UseLock
  <2>5. held'["config"] = held["config"]
    <3>1. UseLock(t, l) \/ l # "config"
      BY <2>2, <2>3 DEF AcquireLock, ReleaseLock, Take
    <3>2. QED
      BY <2>3, <3>1 DEF AcquireLock, ReleaseLock, UseLock, CommandsTypeOK, Locks
  <2>6. UNCHANGED <<emails, file, document>>
    BY <2>3 DEF AcquireLock, ReleaseLock, UseLock
  <2>7. QED
    BY <1>1, <1>3, <2>4, <2>5, <2>6, HarmlessKeeps
<1>4. QED
  BY <1>1, <1>2, <1>3 DEF AdminInv, FollowsScripts

(* However many requests edit the administrators at once, netmark.config   *)
(* has the list of memory whenever the configuration is unlocked.          *)
THEOREM CommandsSerialise == CommandsSpec => []AdminUpdatesSerialise
<1>1. CommandsInit => AdminInv
  BY InitAdmin
<1>2. CommandsTypeOK /\ AdminInv /\ [CommandsNext]_commandVars => AdminInv'
  <2>1. CASE UNCHANGED commandVars
    BY <2>1 DEF commandVars, AdminInv, FollowsScripts, HoldersLock, Holding, FileFollows
  <2>2. QED
    BY <2>1, BeginKeeps, StepKeeps DEF CommandsNext
<1>3. AdminInv => AdminUpdatesSerialise
  BY DEF AdminInv, FileFollows, AdminUpdatesSerialise
<1>4. QED
  BY <1>1, <1>2, <1>3, CommandsTypes, PTL DEF CommandsSpec

-----------------------------------------------------------------------------
(* ProfileRuns.                                                            *)

(* The state of ProfileRuns keeps its type.                                *)
THEOREM TypeCorrect == Spec => []TypeOK
<1>1. Init => TypeOK
  <2> SUFFICES ASSUME Init PROVE TypeOK
    OBVIOUS
  <2>1. started \in 0 .. MaxRuns
    BY ProfileRunsAssumption DEF Init
  <2>2. post \in [Posts -> {"new", "refused", "released", "answered"} \union InProgress]
    BY DEF Init
  <2>3. publishing \in [Publishers -> {"none", "running", "idle"}]
    BY DEF Init
  <2>4. server \in [Runs -> {"none", "spawned", "gated", "serving", "gone"}]
    BY DEF Init
  <2>5. stopping \in SUBSET Posts /\ gates \in SUBSET Runs
    BY DEF Init
  <2>6. QED
    BY <2>1, <2>2, <2>3, <2>4, <2>5 DEF Init, TypeOK
<1>2. TypeOK /\ [Next]_vars => TypeOK'
  <2> SUFFICES ASSUME TypeOK, [Next]_vars PROVE TypeOK'
    OBVIOUS
  <2> USE DEF TypeOK, InProgress, Runs, Publishers
  <2>1. ASSUME NEW p \in Posts, Admit(p) PROVE TypeOK'
    BY <2>1 DEF Admit, Reach, sessionVars
  <2>2. ASSUME NEW p \in Posts, Execute(p) PROVE TypeOK'
    <3>1. ASSUME NEW enabled \in BOOLEAN, Spawn(p, enabled) PROVE TypeOK'
      BY <3>1 DEF Spawn, Reach, sessionVars
    <3>2. ASSUME PublishStart(p) \/ PublishEnd(p) PROVE TypeOK'
      BY <3>2 DEF PublishStart, PublishEnd, Reach, sessionVars
    <3>3. ASSUME PrepareFails(p) \/ WaitFails(p) \/ Complete(p) \/ Release(p) PROVE TypeOK'
      BY <3>3 DEF PrepareFails, WaitFails, Complete, Release, Reach, sessionVars
    <3>4. ASSUME OpenGate(p) \/ EndTraffic(p) PROVE TypeOK'
      BY <3>4 DEF OpenGate, EndTraffic, Reach, sessionVars
    <3>5. QED
      BY <2>2, <3>1, <3>2, <3>3, <3>4 DEF Execute
  <2>3. ASSUME NEW enabled \in BOOLEAN, SessionStart(enabled) PROVE TypeOK'
    <3>1. started \in Nat /\ started < MaxRuns /\ MaxRuns \in Nat
      BY <2>3, ProfileRunsAssumption DEF SessionStart
    <3>2. started' \in 0 .. MaxRuns /\ started + 1 \in Runs
      BY <2>3, <3>1 DEF SessionStart
    <3>3. gates' \in SUBSET Runs
      BY <2>3, <3>2 DEF SessionStart
    <3>4. server' \in [Runs -> {"none", "spawned", "gated", "serving", "gone"}]
      BY <2>3, <3>2 DEF SessionStart
    <3>5. QED
      BY <2>3, <3>2, <3>3, <3>4 DEF SessionStart
  <2>4. CASE SessionStop
    BY <2>4 DEF SessionStop
  <2>5. ASSUME NEW q \in Publishers, PublishLive(q) PROVE TypeOK'
    BY <2>5 DEF PublishLive, ReadRunning, UpdateLive, sessionVars
  <2>6. ASSUME NEW r \in Runs, ServerThread(r) \/ Expire(r) PROVE TypeOK'
    BY <2>6 DEF ServerThread, Bind, PassGate, SeeStop, Expire, sessionVars
  <2>7. CASE UNCHANGED vars
    BY <2>7 DEF vars
  <2>8. QED
    BY <2>1, <2>2, <2>3, <2>4, <2>5, <2>6, <2>7 DEF Next
<1>3. QED
  BY <1>1, <1>2, PTL DEF Spec

(* Any number of requests race for `busy`: one is in progress at a time,   *)
(* and `busy` is set for as long as it is.                                 *)
THEOREM OnePostAtATime == Spec => []PostIsBusy
<1>1. Init => PostIsBusy
  BY DEF Init, PostIsBusy, InProgress
<1>2. TypeOK /\ PostIsBusy /\ [Next]_vars => PostIsBusy'
  <2> SUFFICES ASSUME TypeOK, PostIsBusy, [Next]_vars PROVE PostIsBusy'
    OBVIOUS
  <2>1. ASSUME NEW p \in Posts, Admit(p) PROVE PostIsBusy'
    <3>1. CASE busy
      BY <2>1, <3>1 DEF Admit, Reach, PostIsBusy, TypeOK, InProgress
    <3>2. CASE ~busy
      <4>1. \A other \in Posts : post[other] \notin InProgress
        BY <3>2 DEF PostIsBusy
      <4>2. /\ busy'
            /\ post' = [post EXCEPT ![p] = "admitted"]
        BY <2>1, <3>2 DEF Admit, Reach
      <4>3. QED
        BY <4>1, <4>2 DEF PostIsBusy, TypeOK
    <3>3. QED
      BY <3>1, <3>2
  <2>2. ASSUME NEW p \in Posts, NEW phase \in InProgress, post[p] \in InProgress,
               Reach(p, phase), UNCHANGED busy
        PROVE  PostIsBusy'
    BY <2>2 DEF Reach, PostIsBusy, TypeOK
  <2>3. ASSUME NEW p \in Posts, Release(p) PROVE PostIsBusy'
    <3>1. post[p] \in InProgress
      BY <2>3 DEF Release, InProgress
    <3>2. \A other \in Posts \ {p} : post[other] \notin InProgress
      BY <3>1 DEF PostIsBusy
    <3>3. QED
      BY <2>3, <3>2 DEF Release, Reach, PostIsBusy, TypeOK, InProgress
  <2>4. ASSUME NEW p \in Posts, PublishEnd(p) PROVE PostIsBusy'
    BY <2>4 DEF PublishEnd, Reach, PostIsBusy, TypeOK, InProgress
  <2>5. ASSUME NEW p \in Posts, Execute(p) PROVE PostIsBusy'
    BY <2>2, <2>3, <2>4, <2>5
       DEF Execute, PublishStart, PrepareFails, Spawn, WaitFails, OpenGate, EndTraffic,
           Complete, InProgress
  <2>6. CASE UNCHANGED <<busy, post>>
    BY <2>6 DEF PostIsBusy
  <2>7. QED
    BY <2>1, <2>5, <2>6
       DEF Next, SessionStart, SessionStop, PublishLive, ReadRunning, UpdateLive,
           ServerThread, Bind, PassGate, SeeStop, Expire, vars
<1>3. QED
  BY <1>1, <1>2, TypeCorrect, PTL DEF Spec

================================================================================
