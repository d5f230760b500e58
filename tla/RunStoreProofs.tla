----------------------------- MODULE RunStoreProofs -----------------------------
(***************************************************************************)
(* Proofs about RunStore, for any set of SqlStates and any bound on ids.   *)
(***************************************************************************)
EXTENDS RunStore, TLAPS

(* The state stays of its type, also when statements fail: the ids drawn   *)
(* from the counter never pass the bound.                                  *)
THEOREM TypeCorrect == Spec => []TypeOK
<1>1. Init => TypeOK
  BY StoreAssumption DEF Init, TypeOK, Ids, Results, Verdicts, Phases, Instances
<1>2. TypeOK /\ [Next]_vars => TypeOK'
  <2> SUFFICES ASSUME TypeOK, [Next]_vars PROVE TypeOK'
    OBVIOUS
  <2> USE DEF TypeOK, Ids, Results, Verdicts, Phases
  <2>1. ASSUME NEW i \in Instances, EnableCounter(i) PROVE TypeOK'
    BY <2>1 DEF EnableCounter
  <2>2. ASSUME NEW i \in Instances, EnableAbort(i) PROVE TypeOK'
    BY <2>2 DEF EnableAbort
  <2>3. ASSUME NEW i \in Instances, NextRunId(i) PROVE TypeOK'
    BY <2>3, StoreAssumption DEF NextRunId
  <2>4. ASSUME NEW i \in Instances, StartRun(i) PROVE TypeOK'
    BY <2>4 DEF StartRun
  <2>5. ASSUME NEW i \in Instances, NEW v \in {"ok", "fail"}, CompleteRun(i, v)
        PROVE  TypeOK'
    <3>1. v \in Verdicts /\ rows' \in [Ids -> Results]
      BY <2>5 DEF CompleteRun, UpdateRow
    <3>2. phase' \in [Instances -> Phases] /\ run_id' \in [Instances -> Nat]
      BY <2>5 DEF CompleteRun, Drop
    <3>3. QED
      BY <2>5, <3>1, <3>2 DEF CompleteRun
  <2>6. ASSUME NEW i \in Instances, Esc(i) PROVE TypeOK'
    BY <2>6 DEF Esc
  <2>7. ASSUME NEW i \in Instances, Exit(i) PROVE TypeOK'
    BY <2>7 DEF Exit, UpdateRow, Drop
  <2>8. ASSUME NEW i \in Instances, Crash(i) PROVE TypeOK'
    BY <2>8 DEF Crash, Drop
  <2>9. ASSUME NEW i \in Instances, Clean(i) PROVE TypeOK'
    BY <2>9 DEF Clean
  <2>10. CASE UNCHANGED vars
    BY <2>10 DEF vars
  <2>11. QED
    BY <2>1, <2>2, <2>3, <2>4, <2>5, <2>6, <2>7, <2>8, <2>9, <2>10 DEF Next
<1>3. QED
  BY <1>1, <1>2, PTL DEF Spec

(* A stored result is never replaced by another one, even when statements  *)
(* fail: every UPDATE of `result` is guarded by result = 'running'.        *)
THEOREM FinishedStays == Spec => FinishedIsFinal
<1> DEFINE Kept == \A id \in Ids : rows[id] \in Verdicts => rows'[id] \in {rows[id], "none"}
<1>1. TypeOK /\ [Next]_vars => [Kept]_vars
  <2> SUFFICES ASSUME TypeOK, Next PROVE Kept
    OBVIOUS
  <2> USE DEF TypeOK, Verdicts
  <2>1. ASSUME NEW i \in Instances, EnableAbort(i) PROVE Kept
    BY <2>1 DEF EnableAbort
  <2>2. ASSUME NEW i \in Instances, StartRun(i) PROVE Kept
    BY <2>2 DEF StartRun
  <2>3. ASSUME NEW i \in Instances, NEW v, UpdateRow(i, v) PROVE Kept
    BY <2>3 DEF UpdateRow
  <2>4. ASSUME NEW i \in Instances, Clean(i) PROVE Kept
    BY <2>4 DEF Clean
  <2>5. ASSUME UNCHANGED rows PROVE Kept
    BY <2>5
  <2>6. QED
    BY <2>1, <2>2, <2>3, <2>4, <2>5
       DEF Next, EnableCounter, NextRunId, CompleteRun, Esc, Exit, Crash
<1>2. QED
  BY <1>1, TypeCorrect, PTL DEF Spec, FinishedIsFinal

-----------------------------------------------------------------------------

(* The strengthening that makes IdsUnique inductive: a drawn id is below   *)
(* the counter, an id drawn and not inserted has no row, and as soon as    *)
(* one SqlState is open the counter is above every row of the file.        *)
IInv ==
  /\ TypeOK
  /\ IdsUnique
  /\ \A i \in Instances : run_id[i] < next_id
  /\ \A i \in Instances : phase[i] \in {"off", "opening"} => run_id[i] = 0
  /\ \A i \in Instances :
       phase[i] \in {"drawn", "open", "abandoned"} => run_id[i] \in Ids
  /\ \A i \in Instances : phase[i] = "drawn" => rows[run_id[i]] = "none"
  /\ (\E i \in Instances : phase[i] # "off")
       => \A id \in Ids : rows[id] # "none" => id < next_id

(* The strengthened invariant holds initially and is kept by every step    *)
(* when statements do not fail.                                            *)
LEMMA InductiveInvariant ==
  ASSUME ~StatementsMayFail
  PROVE  Spec => []IInv
<1>1. Init => IInv
  BY StoreAssumption
     DEF Init, IInv, TypeOK, IdsUnique, Ids, Results, Verdicts, Phases, Instances
<1>2. TypeOK' /\ IInv /\ [Next]_vars => IInv'
  <2> SUFFICES ASSUME TypeOK', IInv, [Next]_vars PROVE IInv'
    OBVIOUS
  <2> USE StoreAssumption DEF IInv, TypeOK, IdsUnique, Ids, Instances
  <2>1. ASSUME NEW i \in Instances, EnableCounter(i) PROVE IInv'
    BY <2>1 DEF EnableCounter, CounterCovers
  <2>2. ASSUME NEW i \in Instances, EnableAbort(i) PROVE IInv'
    BY <2>2 DEF EnableAbort
  <2>3. ASSUME NEW i \in Instances, NextRunId(i) PROVE IInv'
    <3>1. /\ phase[i] \in {"ready", "abandoned"}
          /\ phase' = [phase EXCEPT ![i] = "drawn"]
          /\ next_id \in Ids
          /\ next_id' = next_id + 1
          /\ run_id' = [run_id EXCEPT ![i] = next_id]
          /\ rows' = rows
      BY <2>3 DEF NextRunId
    <3>2. rows[next_id] = "none"
      BY <3>1
    <3>3. IdsUnique'
      BY <3>1
    <3>4. QED
      BY <3>1, <3>2, <3>3
  <2>4. ASSUME NEW i \in Instances, StartRun(i) PROVE IInv'
    BY <2>4 DEF StartRun
  <2>5. ASSUME NEW i \in Instances, NEW v \in {"ok", "fail"}, CompleteRun(i, v)
        PROVE  IInv'
    <3>1. /\ phase[i] = "open"
          /\ rows' = [rows EXCEPT ![run_id[i]] = IF @ = "running" THEN v ELSE @]
          /\ next_id' = next_id
      BY <2>5 DEF CompleteRun, UpdateRow
    <3>2. \A id \in Ids : rows'[id] = "none" <=> rows[id] = "none"
      BY <3>1
    <3>3. CASE i \in Sessions
      BY <2>5, <3>1, <3>2, <3>3 DEF CompleteRun
    <3>4. CASE i \notin Sessions
      <4>1. /\ phase' = [phase EXCEPT ![i] = "off"]
            /\ run_id' = [run_id EXCEPT ![i] = 0]
        BY <2>5, <3>4 DEF CompleteRun, Drop
      <4>2. IdsUnique'
        BY <4>1
      <4>3. QED
        BY <3>1, <3>2, <4>1, <4>2
    <3>5. QED
      BY <3>3, <3>4
  <2>6. ASSUME NEW i \in Instances, Esc(i) PROVE IInv'
    BY <2>6 DEF Esc
  <2>7. ASSUME NEW i \in Instances, Exit(i) PROVE IInv'
    BY <2>7 DEF Exit, UpdateRow, Drop
  <2>8. ASSUME NEW i \in Instances, Crash(i) PROVE IInv'
    BY <2>8 DEF Crash, Drop
  <2>9. ASSUME NEW i \in Instances, Clean(i) PROVE IInv'
    BY <2>9 DEF Clean
  <2>10. CASE UNCHANGED vars
    BY <2>10 DEF vars
  <2>11. QED
    BY <2>1, <2>2, <2>3, <2>4, <2>5, <2>6, <2>7, <2>8, <2>9, <2>10 DEF Next
<1>3. QED
  BY <1>1, <1>2, TypeCorrect, PTL DEF Spec

(* No two open SqlStates hold the same run id, for any number of them.     *)
THEOREM IdsAreUnique ==
  ASSUME ~StatementsMayFail
  PROVE  Spec => []IdsUnique
<1>1. IInv => IdsUnique
  BY DEF IInv
<1>2. QED
  BY <1>1, InductiveInvariant, PTL

-----------------------------------------------------------------------------

(* The runs table implements the ledger, for any number of processes,      *)
(* crashes and cleans, as long as statements do not fail: ids are issued   *)
(* upwards and once, a row is opened once, closed at most once and never   *)
(* comes back.                                                             *)
THEOREM StoreImplementsLedger ==
  ASSUME ~StatementsMayFail
  PROVE  Spec => ImplementsLedger
<1> DEFINE L == [id \in Ids |-> Entry(id)]
<1>1. Init => Ledger!Init
  BY DEF Init, Entry, Ids, Results, Verdicts,
         Ledger!Init, Ledger!Ids, Ledger!Legacy, Ledger!Verdicts
<1>2. IInv /\ IInv' /\ [Next]_vars => [Ledger!Next]_L
  <2> SUFFICES ASSUME IInv, IInv', [Next]_vars PROVE [Ledger!Next]_L
    OBVIOUS
  <2> USE StoreAssumption DEF Ledger!Ids, Ids
  <2>ty. TypeOK /\ TypeOK'
    BY DEF IInv
  <2>1. ASSUME NEW i \in Instances, EnableCounter(i) PROVE Ledger!Retire
    <3>1. PICK n \in 1 .. (MaxId + 1) :
            /\ CounterCovers(n)
            /\ next_id' = n
            /\ rows' = rows
            /\ run_id' = run_id
      BY <2>1 DEF EnableCounter
    <3>2. \A j \in Instances : phase'[j] = "drawn" <=> phase[j] = "drawn"
      BY <2>1, <2>ty DEF EnableCounter, TypeOK
    <3>3. ASSUME NEW id \in Ids
          PROVE  Entry(id)' = IF Entry(id) = "unissued"
                                 /\ \E other \in Ids : other > id /\ Entry(other) # "unissued"
                              THEN "gone" ELSE Entry(id)
      <4>1. CASE rows[id] # "none" \/ id < next_id
        BY <4>1, <3>1, <3>2, <2>ty DEF Entry, TypeOK, CounterCovers, Results, Verdicts, Ids
      <4>2. CASE rows[id] = "none" /\ id >= n
        <5>1. \A other \in Ids : other > id => Entry(other) = "unissued"
          BY <4>2, <3>1, <2>ty DEF Entry, TypeOK, CounterCovers
        <5>2. QED
          BY <4>2, <5>1, <3>1, <2>ty DEF Entry, TypeOK, CounterCovers
      <4>3. CASE rows[id] = "none" /\ next_id <= id /\ id < n
        <5>a. n - 1 \in Ids /\ rows[n - 1] # "none" /\ rows[n - 1] \in Results
          BY <4>3, <3>1, <2>ty DEF TypeOK, CounterCovers
        <5>b. n - 1 > id
          BY <4>3, <5>a, <2>ty DEF TypeOK
        <5>1. n - 1 \in Ids /\ n - 1 > id /\ Entry(n - 1) # "unissued"
          BY <5>a, <5>b DEF Entry, Results, Verdicts
        <5>2. ~ \E j \in Instances : phase[j] = "drawn" /\ run_id[j] = id
          BY <4>3, <2>ty DEF IInv, TypeOK
        <5>3. QED
          BY <4>3, <5>1, <5>2, <3>1, <3>2, <2>ty DEF Entry, TypeOK
      <4>4. QED
        BY <4>1, <4>2, <4>3, <3>1, <2>ty DEF TypeOK, Ids
    <3>4. QED
      BY <3>3 DEF Ledger!Retire
  <2>2. ASSUME NEW i \in Instances, EnableAbort(i) PROVE Ledger!AbortAll
    <3>1. /\ rows' = [id \in Ids |-> IF rows[id] = "running" THEN "aborted" ELSE rows[id]]
          /\ UNCHANGED <<next_id, run_id>>
      BY <2>2 DEF EnableAbort
    <3>2. \A j \in Instances : phase'[j] = "drawn" <=> phase[j] = "drawn"
      BY <2>2, <2>ty DEF EnableAbort, TypeOK
    <3>3. \A id \in Ids : Entry(id)' = IF Entry(id) = "running" THEN "aborted" ELSE Entry(id)
      BY <3>1, <3>2 DEF Entry
    <3>4. QED
      BY <3>3 DEF Ledger!AbortAll
  <2>3. ASSUME NEW i \in Instances, NextRunId(i)
        PROVE  \E id \in Ids : Ledger!Issue(id)
    <3>1. PICK new \in Ids :
            /\ new = next_id
            /\ phase' = [phase EXCEPT ![i] = "drawn"]
            /\ next_id' = new + 1
            /\ run_id' = [run_id EXCEPT ![i] = new]
            /\ rows' = rows
            /\ phase[i] \in {"ready", "abandoned"}
      BY <2>3 DEF NextRunId
    <3>2. \A id \in Ids : id >= new => rows[id] = "none"
      BY <3>1, <2>ty DEF IInv, TypeOK
    <3>3. \A id \in Ids : id >= new => L[id] = "unissued"
      BY <3>1, <3>2 DEF Entry
    <3>4. Entry(new)' = "issued"
      <4>1. phase'[i] = "drawn" /\ run_id'[i] = new /\ rows'[new] = "none"
        BY <3>1, <3>2, <2>ty DEF TypeOK
      <4>2. ~(new >= next_id')
        BY <3>1
      <4>3. QED
        BY <4>1, <4>2 DEF Entry
    <3>5. ASSUME NEW id \in Ids, id # new PROVE Entry(id)' = Entry(id)
      <4>1. (\E j \in Instances : phase'[j] = "drawn" /\ run_id'[j] = id)
             <=> \E j \in Instances : phase[j] = "drawn" /\ run_id[j] = id
        BY <3>1, <3>5, <2>ty DEF TypeOK
      <4>2. QED
        BY <3>1, <3>5, <4>1, <2>ty DEF Entry, TypeOK
    <3>6. L' = [L EXCEPT ![new] = "issued"]
      BY <3>4, <3>5
    <3>7. QED
      BY <3>3, <3>6 DEF Ledger!Issue
  <2>4. ASSUME NEW i \in Instances, StartRun(i)
        PROVE  \E id \in Ids : Ledger!Open(id)
    <3>1. PICK own \in Ids :
            /\ own = run_id[i]
            /\ phase[i] = "drawn"
            /\ phase' = [phase EXCEPT ![i] = "open"]
            /\ rows' = [rows EXCEPT ![own] = "running"]
            /\ UNCHANGED <<next_id, run_id>>
            /\ rows[own] = "none"
            /\ own < next_id
      BY <2>4 DEF StartRun, IInv
    <3>2. Entry(own) = "issued" /\ Entry(own)' = "running"
      BY <3>1, <2>ty DEF Entry, TypeOK
    <3>3. ASSUME NEW id \in Ids, id # own PROVE Entry(id)' = Entry(id)
      <4>1. (\E j \in Instances : phase'[j] = "drawn" /\ run_id'[j] = id)
             <=> \E j \in Instances : phase[j] = "drawn" /\ run_id[j] = id
        BY <3>1, <3>3, <2>ty DEF TypeOK
      <4>2. QED
        BY <3>1, <3>3, <4>1, <2>ty DEF Entry, TypeOK
    <3>4. L[own] = "issued" /\ L' = [L EXCEPT ![own] = "running"]
      BY <3>2, <3>3
    <3>5. QED
      BY <3>4 DEF Ledger!Open
  <2>5. ASSUME NEW i \in Instances, NEW v \in Verdicts, UpdateRow(i, v),
               run_id[i] \in Ids, UNCHANGED next_id,
               \A j \in Instances : /\ phase'[j] = "drawn" <=> phase[j] = "drawn"
                                    /\ phase[j] = "drawn" => run_id'[j] = run_id[j]
        PROVE  (\E id \in Ids : Ledger!Close(id, v)) \/ UNCHANGED L
    <3>1. PICK own \in Ids :
            rows' = [rows EXCEPT ![own] = IF @ = "running" THEN v ELSE @]
      BY <2>5 DEF UpdateRow
    <3>2. \A id \in Ids : (\E j \in Instances : phase'[j] = "drawn" /\ run_id'[j] = id)
             <=> \E j \in Instances : phase[j] = "drawn" /\ run_id[j] = id
      BY <2>5
    <3>3. \A id \in Ids : id # own \/ rows[id] # "running" => Entry(id)' = Entry(id)
      BY <3>1, <3>2, <2>5, <2>ty DEF Entry, TypeOK
    <3>4. CASE rows[own] = "running"
      <4>1. rows'[own] = v /\ v # "none"
        BY <3>1, <3>4, <2>ty DEF TypeOK, Verdicts
      <4>2. L[own] = "running" /\ Entry(own)' = v
        BY <3>4, <4>1 DEF Entry
      <4>3. L' = [L EXCEPT ![own] = v]
        BY <3>3, <4>2
      <4>4. QED
        BY <4>2, <4>3 DEF Ledger!Close
    <3>5. CASE rows[own] # "running"
      BY <3>3, <3>5
    <3>6. QED
      BY <3>4, <3>5
  <2>6. ASSUME NEW i \in Instances, NEW v \in {"ok", "fail"}, CompleteRun(i, v)
        PROVE  (\E id \in Ids, w \in Verdicts : Ledger!Close(id, w)) \/ UNCHANGED L
    <3>1. run_id[i] \in Ids /\ v \in Verdicts /\ UpdateRow(i, v) /\ UNCHANGED next_id
      BY <2>6 DEF CompleteRun, IInv, Verdicts
    <3>2. \A j \in Instances : /\ phase'[j] = "drawn" <=> phase[j] = "drawn"
                               /\ phase[j] = "drawn" => run_id'[j] = run_id[j]
      BY <2>6, <2>ty DEF CompleteRun, Drop, TypeOK
    <3>3. QED
      BY <2>5, <3>1, <3>2
  <2>7. ASSUME NEW i \in Instances, Exit(i)
        PROVE  (\E id \in Ids, w \in Verdicts : Ledger!Close(id, w)) \/ UNCHANGED L
    <3>1. run_id[i] \in Ids /\ "aborted" \in Verdicts /\ UpdateRow(i, "aborted") /\ UNCHANGED next_id
      BY <2>7 DEF Exit, IInv, Verdicts
    <3>2. \A j \in Instances : /\ phase'[j] = "drawn" <=> phase[j] = "drawn"
                               /\ phase[j] = "drawn" => run_id'[j] = run_id[j]
      BY <2>7, <2>ty DEF Exit, Drop, TypeOK
    <3>3. QED
      BY <2>5, <3>1, <3>2
  <2>8. ASSUME NEW i \in Instances, Esc(i) PROVE UNCHANGED L
    <3>1. \A j \in Instances : phase'[j] = "drawn" <=> phase[j] = "drawn"
      BY <2>8, <2>ty DEF Esc, TypeOK
    <3>2. \A id \in Ids : Entry(id)' = Entry(id)
      BY <2>8, <3>1 DEF Esc, Entry
    <3>3. QED
      BY <3>2
  <2>9. ASSUME NEW i \in Instances, Crash(i)
        PROVE  (\E id \in Ids : Ledger!Drop(id)) \/ UNCHANGED L
    <3>1. /\ UNCHANGED <<next_id, rows>>
          /\ phase' = [phase EXCEPT ![i] = "off"]
          /\ run_id' = [run_id EXCEPT ![i] = 0]
      BY <2>9 DEF Crash, Drop
    <3>2. CASE phase[i] # "drawn"
      <4>1. \A id \in Ids : Entry(id)' = Entry(id)
        BY <3>1, <3>2, <2>ty DEF Entry, TypeOK
      <4>2. QED
        BY <4>1
    <3>3. CASE phase[i] = "drawn"
      <4>1. PICK own \in Ids : own = run_id[i] /\ rows[own] = "none" /\ own < next_id
        BY <3>3 DEF IInv
      <4>2. Entry(own) = "issued"
        BY <4>1, <3>3, <2>ty DEF Entry, TypeOK
      <4>3. Entry(own)' = "gone"
        <5>1. \A j \in Instances : phase'[j] = "drawn" => j # i /\ run_id'[j] = run_id[j]
          BY <3>1, <2>ty DEF TypeOK
        <5>2. \A j \in Instances : phase'[j] = "drawn" => run_id'[j] # own
          BY <4>1, <5>1 DEF IInv, IdsUnique
        <5>3. ~(own >= next_id')
          BY <3>1, <4>1, <2>ty DEF TypeOK
        <5>4. QED
          BY <4>1, <3>1, <5>2, <5>3 DEF Entry
      <4>4. \A id \in Ids : id # own => Entry(id)' = Entry(id)
        BY <3>1, <4>1, <2>ty DEF Entry, TypeOK
      <4>5. L[own] = "issued" /\ L' = [L EXCEPT ![own] = "gone"]
        BY <4>2, <4>3, <4>4
      <4>6. QED
        BY <4>5 DEF Ledger!Drop
    <3>4. QED
      BY <3>2, <3>3
  <2>10. ASSUME NEW i \in Instances, Clean(i) PROVE Ledger!Clean
    <3>1. /\ rows' = [id \in Ids |-> "none"]
          /\ UNCHANGED <<next_id, phase, run_id>>
          /\ phase[i] # "off"
      BY <2>10 DEF Clean
    <3>2. ASSUME NEW id \in Ids
          PROVE  Entry(id)' = IF Entry(id) \in Verdicts \union {"running"} THEN "gone" ELSE Entry(id)
      <4>1. CASE rows[id] = "none"
        BY <4>1, <3>1 DEF Entry, Verdicts
      <4>2. CASE rows[id] # "none"
        <5>1. id < next_id /\ ~ \E j \in Instances : phase[j] = "drawn" /\ run_id[j] = id
          BY <4>2, <3>1 DEF IInv
        <5>2. Entry(id) \in Verdicts \union {"running"}
          BY <4>2, <2>ty DEF Entry, TypeOK, Results
        <5>3. Entry(id)' = "gone"
          BY <5>1, <3>1, <2>ty DEF Entry, TypeOK
        <5>4. QED
          BY <5>2, <5>3
      <4>3. QED
        BY <4>1, <4>2
    <3>3. QED
      BY <3>2 DEF Ledger!Clean, Ledger!Verdicts, Verdicts
  <2>11. CASE UNCHANGED vars
    BY <2>11 DEF vars, Entry
  <2>12. QED
    BY <2>1, <2>2, <2>3, <2>4, <2>6, <2>7, <2>8, <2>9, <2>10, <2>11
       DEF Next, Ledger!Next, Ledger!Verdicts, Verdicts
<1>3. QED
  BY <1>1, <1>2, InductiveInvariant, PTL DEF Spec, ImplementsLedger, Ledger!Spec

================================================================================
