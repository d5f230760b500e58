------------------------------- MODULE RunLedger -------------------------------
(***************************************************************************)
(* What the `runs` table promises, without SQL, processes or crashes: an   *)
(* id is handed out at most once and in increasing order, a run that got   *)
(* its row is closed at most once, and an id that is gone stays gone.      *)
(***************************************************************************)
EXTENDS Naturals

CONSTANT MaxId

VARIABLE ledger

Ids == 1 .. MaxId

Verdicts == {"ok", "fail", "aborted"}

Entries == {"unissued", "issued", "running", "gone"} \union Verdicts

Legacy == {"unissued", "running"} \union Verdicts

Init == ledger \in [Ids -> Legacy]

(* An id is issued only above every id ever used.                          *)
Issue(id) ==
  /\ \A other \in Ids : other >= id => ledger[other] = "unissued"
  /\ ledger' = [ledger EXCEPT ![id] = "issued"]

Open(id) ==
  /\ ledger[id] = "issued"
  /\ ledger' = [ledger EXCEPT ![id] = "running"]

Close(id, verdict) ==
  /\ ledger[id] = "running"
  /\ ledger' = [ledger EXCEPT ![id] = verdict]

AbortAll ==
  ledger' = [id \in Ids |-> IF ledger[id] = "running" THEN "aborted" ELSE ledger[id]]

Drop(id) ==
  /\ ledger[id] = "issued"
  /\ ledger' = [ledger EXCEPT ![id] = "gone"]

(* Ids below a used one that were never issued are skipped for good.       *)
Retire ==
  ledger' = [id \in Ids |->
    IF ledger[id] = "unissued" /\ \E other \in Ids : other > id /\ ledger[other] # "unissued"
    THEN "gone" ELSE ledger[id]]

Clean ==
  ledger' = [id \in Ids |->
    IF ledger[id] \in Verdicts \union {"running"} THEN "gone" ELSE ledger[id]]

Next ==
  \/ \E id \in Ids : Issue(id) \/ Open(id) \/ Drop(id)
  \/ \E id \in Ids, verdict \in Verdicts : Close(id, verdict)
  \/ AbortAll
  \/ Retire
  \/ Clean

Spec == Init /\ [][Next]_ledger

================================================================================
